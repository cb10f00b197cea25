---------------------------- MODULE PayloadTool ----------------------------
(***************************************************************************)
(* The payloadtool binary (src/lading/src/bin/payloadtool.rs) composed     *)
(* with the Fixed block cache construction it exercises.                   *)
(*                                                                         *)
(* main picks the generator named by --generator-id (the first with that   *)
(* id) or every generator of the config, in order, and calls               *)
(* check_generator on each, stopping at the first error.  check_generator  *)
(* panics (unimplemented!) on the transports it does not support, casts    *)
(* maximum_prebuild_cache_size_bytes to u32 and panics on zero, then       *)
(* generate_and_check builds a Fixed cache for that budget, sums its block *)
(* sizes in a u32 and logs a warning when the sum differs from the budget. *)
(*                                                                         *)
(* block::Cache::fixed is not in this tree; it is modelled from spec 4.C:  *)
(* EmptyBlockSet when the smallest size exceeds the budget, else, while    *)
(* bytes remain, pick a size, reject it when it exceeds what remains,      *)
(* otherwise serialize at most that many bytes, abandon an empty result    *)
(* and keep a non-empty one.  Blocks are abstracted to their lengths.      *)
(***************************************************************************)
EXTENDS Naturals, Sequences
LOCAL INSTANCE SequencesExt

CONSTANTS
  GeneratorConfigs,  \* the generator entries a config may hold
  MaxGenerators,     \* bound on the length of config.generator
  Ids,               \* generator ids
  NoId,              \* general.id = None
  NoArg,             \* --generator-id not given
  Supported,         \* transports check_generator builds a cache for
  BlockSizes,        \* the block size set S (already resolved by get_blocks)
  SerializerFills,   \* the serializer always writes exactly max_bytes
  CastWidth          \* the width of the cast's target type (32 for u32)

ASSUME
  /\ MaxGenerators \in Nat
  /\ NoId \notin Ids /\ NoArg \notin Ids
  /\ BlockSizes \subseteq (Nat \ {0}) /\ BlockSizes # {}
  /\ SerializerFills \in BOOLEAN
  /\ CastWidth \in Nat \ {0}

\* total_generated_bytes before its generator has been checked.
NotBuilt == -1

VARIABLES
  gens,       \* config.generator
  arg,        \* args.generator_id
  pc,         \* "select", "check", "build" or "done"
  queue,      \* indices of gens still to check, in order
  remaining,  \* bytes of the current cache budget not yet filled
  blocks,     \* lengths of the blocks built so far for the current generator
  candidate,  \* the size last drawn from S (the rng's observable effect)
  generated,  \* generated[i]: total_generated_bytes of generator i, or NotBuilt
  exit        \* "running", "ok", "invalid_args", "panic" or "block_error"

vars == <<gens, arg, pc, queue, remaining, blocks, candidate, generated, exit>>

-----------------------------------------------------------------------------
\* Mutant of Cast32: the cast treated as value preserving.
CastUnchecked(n) == n

\* `n as u32` on an unsigned integer: the low bits.
Cast32(n) == n % 2^CastWidth

SumOf(seq) == FoldLeft(LAMBDA a, b : a + b, 0, seq)

\* The smallest and the largest configured block size.
MinSize == CHOOSE s \in BlockSizes : \A t \in BlockSizes : s <= t
MaxSize == CHOOSE s \in BlockSizes : \A t \in BlockSizes : s >= t

\* Iterator::find: the first generator whose general.id is Some(arg), or 0.
Found == SelectInSeq(gens, LAMBDA g : g.id = arg)

\* The generators main checks.
Selected == IF arg = NoArg THEN DOMAIN gens
            ELSE IF Found = 0 THEN {} ELSE {Found}

\* Bytes a serializer may write into a buffer of s bytes (spec 4.B).
Written(s) == IF SerializerFills THEN {s} ELSE 0..s

\* Leave main with the given exit status.
Exit(status) ==
  /\ exit' = status
  /\ pc' = "done"

Init ==
  /\ gens \in BoundedSeq(GeneratorConfigs, MaxGenerators)
  /\ arg \in Ids \cup {NoArg}
  /\ pc = "select"
  /\ queue = <<>>
  /\ remaining = 0
  /\ blocks = <<>>
  /\ candidate = 0
  /\ generated = [i \in DOMAIN gens |-> NotBuilt]
  /\ exit = "running"

(* main, after loading the config: with --generator-id, find the first     *)
(* generator with that id or fail with InvalidArgs; without it, every      *)
(* generator in order.                                                     *)
SelectGenerators ==
  /\ pc = "select"
  /\ \/ /\ arg # NoArg /\ Found = 0
        /\ Exit("invalid_args")
        /\ UNCHANGED queue
     \/ /\ arg # NoArg /\ Found # 0
        /\ queue' = <<Found>>
        /\ pc' = "check"
        /\ UNCHANGED exit
     \/ /\ arg = NoArg
        /\ queue' = [k \in DOMAIN gens |-> k]
        /\ pc' = "check"
        /\ UNCHANGED exit
  /\ UNCHANGED <<gens, arg, remaining, blocks, candidate, generated>>

\* Mutant of CheckGenerator: an unsupported transport is skipped, not fatal.
CheckGeneratorSkipsUnsupported ==
  /\ pc = "check"
  /\ \/ /\ queue = <<>>
        /\ Exit("ok")
        /\ UNCHANGED <<remaining, blocks, queue>>
     \/ /\ queue # <<>> /\ gens[Head(queue)].kind \notin Supported
        /\ queue' = Tail(queue)
        /\ UNCHANGED <<pc, exit, remaining, blocks>>
     \/ /\ queue # <<>> /\ gens[Head(queue)].kind \in Supported
        /\ remaining' = Cast32(gens[Head(queue)].cacheBytes)
        /\ blocks' = <<>>
        /\ pc' = "build"
        /\ UNCHANGED <<exit, queue>>
  /\ UNCHANGED <<gens, arg, candidate, generated>>

(* check_generator on the next selected generator, up to the start of      *)
(* block construction; the trailing Ok(()) of main once none is left.      *)
CheckGenerator ==
  /\ pc = "check"
  /\ \/ /\ queue = <<>>
        /\ Exit("ok")
        /\ UNCHANGED <<remaining, blocks>>
     \/ /\ queue # <<>>
        /\ LET g == gens[Head(queue)] IN
           \/ /\ g.kind \notin Supported
              /\ Exit("panic")
              /\ UNCHANGED <<remaining, blocks>>
           \/ /\ g.kind \in Supported /\ Cast32(g.cacheBytes) = 0
              /\ Exit("panic")
              /\ UNCHANGED <<remaining, blocks>>
           \/ /\ g.kind \in Supported /\ Cast32(g.cacheBytes) # 0
              /\ MinSize > Cast32(g.cacheBytes)
              /\ Exit("block_error")
              /\ UNCHANGED <<remaining, blocks>>
           \/ /\ g.kind \in Supported /\ Cast32(g.cacheBytes) # 0
              /\ MinSize <= Cast32(g.cacheBytes)
              /\ remaining' = Cast32(g.cacheBytes)
              /\ blocks' = <<>>
              /\ pc' = "build"
              /\ UNCHANGED exit
  /\ UNCHANGED <<gens, arg, queue, candidate, generated>>

(* One pass of the construction loop of spec 4.C with size s drawn: reject *)
(* it when it exceeds what remains, else serialize; an empty result is     *)
(* abandoned, a non-empty one becomes a block and is subtracted.           *)
Draw(s) ==
  /\ pc = "build"
  /\ remaining > 0
  /\ candidate' = s
  /\ \/ /\ s > remaining
        /\ UNCHANGED <<remaining, blocks>>
     \/ /\ s <= remaining
        /\ \E len \in Written(s) :
             \/ /\ len = 0
                /\ UNCHANGED <<remaining, blocks>>
             \/ /\ len > 0
                /\ blocks' = Append(blocks, len)
                /\ remaining' = remaining - len
  /\ UNCHANGED <<gens, arg, pc, queue, generated, exit>>

BuildBlock == \E s \in BlockSizes : Draw(s)

(* Cache::fixed returns; generate_and_check sums the blocks into           *)
(* total_generated_bytes (the warning on a shortfall only logs) and        *)
(* check_generator returns Ok.                                             *)
FinishCache ==
  /\ pc = "build"
  /\ remaining = 0
  /\ generated' = [generated EXCEPT ![Head(queue)] = Cast32(SumOf(blocks))]
  /\ queue' = Tail(queue)
  /\ pc' = "check"
  /\ UNCHANGED <<gens, arg, remaining, blocks, candidate, exit>>

\* main has returned or panicked; the process is over.
Exited ==
  /\ pc = "done"
  /\ UNCHANGED vars

Next ==
  \/ SelectGenerators \/ CheckGenerator \/ BuildBlock \/ FinishCache
  \/ Exited

(* A single-threaded program: every enabled step is eventually taken.  No *)
(* fairness is assumed of the sizes drawn or of what the serializer        *)
(* writes: spec 4.B lets it write nothing for a size below its smallest    *)
(* message.                                                                *)
Spec == Init /\ [][Next]_vars /\ WF_vars(Next)

-----------------------------------------------------------------------------
TypeOK ==
  /\ gens \in BoundedSeq(GeneratorConfigs, MaxGenerators)
  /\ arg \in Ids \cup {NoArg}
  /\ pc \in {"select", "check", "build", "done"}
  /\ queue \in Seq(DOMAIN gens)
  /\ remaining \in 0..(2^CastWidth - 1)
  /\ blocks \in Seq(1..MaxSize)
  /\ generated \in [DOMAIN gens -> {NotBuilt} \cup 0..(2^CastWidth - 1)]
  /\ exit \in {"running", "ok", "invalid_args", "panic", "block_error"}

(* Spec 6, the exit code of the payload-verification utility: main returns *)
(* Ok exactly when the requested generator exists (or none was named) and  *)
(* a cache was generated for every generator it selected; any failure on   *)
(* the way (invalid args, a panic, a block error) ends it otherwise.       *)
ExitCodeFaithful ==
  pc = "done" =>
    (exit = "ok" <=> /\ arg = NoArg \/ Found # 0
                     /\ \A i \in Selected : generated[i] # NotBuilt)

(* What payloadtool is for: when it exits cleanly, the cache it generated  *)
(* and compared for each selected generator has the configured             *)
(* maximum_prebuild_cache_size_bytes.                                      *)
CheckedConfiguredBudget ==
  (pc = "done" /\ exit = "ok") =>
    \A i \in Selected : generated[i] = gens[i].cacheBytes
=============================================================================
