-------------------------- MODULE UnixDatagramNew --------------------------
(***************************************************************************)
(* Construction of the UDS datagram generator and its startup barrier      *)
(* (src/lading/src/generator/unix_datagram.rs): UnixDatagram::new, the     *)
(* first statement of UnixDatagram::spin and the first await of            *)
(* Child::spin.                                                            *)
(*                                                                         *)
(* new casts the configured byte quantities to u32 and rejects a zero,     *)
(* creates the startup broadcast, then for each parallel connection casts  *)
(* the cache budget again, builds a block cache (streaming: seeded from    *)
(* config.seed; fixed: drawn from the one StdRng shared by the loop),      *)
(* spawns the child and subscribes it to the broadcast.  Any error returns *)
(* from new, dropping the broadcast sender while the children already      *)
(* spawned are waiting on it.  spin's startup.send fails when no receiver  *)
(* is subscribed.                                                          *)
(*                                                                         *)
(* A block cache is abstracted to the position of the entropy it starts    *)
(* from: how many fixed caches the shared rng had built before it.         *)
(* Cache::stream and Cache::fixed are not in this tree; that they may fail *)
(* (spec 7, EmptyBlockSet and SerializerFailure) is modelled from the      *)
(* specification.                                                          *)
(***************************************************************************)
EXTENDS Naturals, Sequences

CONSTANTS
  Connections,     \* values of parallel_connections (a u16) to consider
  ByteQuantities,  \* values of Byte::get_bytes() for the two byte fields
  CacheMethods,    \* a subset of {"streaming", "fixed"}
  BuildMayFail,    \* whether block::Cache::{stream, fixed} may return an error
  CastWidth        \* the width of the cast's target type (32 for u32)

ASSUME
  /\ Connections \subseteq Nat
  /\ ByteQuantities \subseteq Nat
  /\ CacheMethods \subseteq {"streaming", "fixed"} /\ CacheMethods # {}
  /\ BuildMayFail \in BOOLEAN
  /\ CastWidth \in Nat \ {0}

\* The values an `as u32` cast of a wider unsigned integer produces.
U32 == 0..(2^CastWidth - 1)

Configs ==
  [conns : Connections, bps : ByteQuantities, cacheBytes : ByteQuantities,
   method : CacheMethods]

VARIABLES
  cfg,      \* the Config passed to new
  pc,       \* "new", "spawn", "spin", "running" or "failed"
  rng,      \* fixed caches drawn so far from new's StdRng::from_seed(config.seed)
  rate,     \* the NonZeroU32 bytes_per_second given to every throttle (0 before)
  handles,  \* the spawned children: entropy origin, budget and startup state
  sender,   \* the startup broadcast sender: "none", "live", "sent" or "dropped"
  result    \* "pending", "ok", "zero", "block" or "startup_send"

vars == <<cfg, pc, rng, rate, handles, sender, result>>

-----------------------------------------------------------------------------
\* Mutant of Cast32: the cast treated as value preserving.
CastUnchecked(n) == n

\* `n as u32` on an unsigned integer: the low 32 bits.
Cast32(n) == n % 2^CastWidth

\* Children still blocked in startup_receiver.recv(), i.e. subscribed receivers.
Waiting == {i \in DOMAIN handles : handles[i].st = "startup"}

\* Returning an error from new or spin drops self, and with it the sender.
Fail(err) ==
  /\ pc' = "failed"
  /\ result' = err
  /\ sender' = IF sender = "none" THEN "none" ELSE "dropped"

Init ==
  /\ cfg \in Configs
  /\ pc = "new"
  /\ rng = 0
  /\ rate = 0
  /\ handles = <<>>
  /\ sender = "none"
  /\ result = "pending"

(* new, up to the spawn loop: NonZeroU32::new(bytes_per_second as u32)      *)
(* .ok_or(Error::Zero)?, then the startup broadcast channel.                *)
NewRate ==
  /\ pc = "new"
  /\ \/ /\ Cast32(cfg.bps) = 0
        /\ Fail("zero")
        /\ UNCHANGED rate
     \/ /\ Cast32(cfg.bps) # 0
        /\ rate' = Cast32(cfg.bps)
        /\ sender' = "live"
        /\ pc' = "spawn"
        /\ UNCHANGED result
  /\ UNCHANGED <<cfg, rng, handles>>

(* One iteration of `for _ in 0..config.parallel_connections`: cast the     *)
(* cache budget, build the block cache, spawn the child subscribed to the   *)
(* broadcast.  A streaming cache restarts from config.seed; a fixed cache   *)
(* advances the rng shared by the loop.                                     *)
SpawnChild ==
  /\ pc = "spawn"
  /\ Len(handles) < cfg.conns
  /\ \/ /\ Cast32(cfg.cacheBytes) = 0
        /\ Fail("zero")
        /\ UNCHANGED <<rng, handles>>
     \/ /\ Cast32(cfg.cacheBytes) # 0
        /\ BuildMayFail
        /\ Fail("block")
        /\ UNCHANGED <<rng, handles>>
     \/ /\ Cast32(cfg.cacheBytes) # 0
        /\ handles' = Append(handles,
              [origin |-> IF cfg.method = "fixed" THEN rng ELSE 0,
               budget |-> Cast32(cfg.cacheBytes),
               st |-> "startup"])
        /\ rng' = IF cfg.method = "fixed" THEN rng + 1 ELSE rng
        /\ UNCHANGED <<pc, sender, result>>
  /\ UNCHANGED <<cfg, rate>>

(* The loop is over: new returns Ok(Self { handles, shutdown, startup }).   *)
NewReturn ==
  /\ pc = "spawn"
  /\ Len(handles) = cfg.conns
  /\ pc' = "spin"
  /\ result' = "ok"
  /\ UNCHANGED <<cfg, rng, rate, handles, sender>>

(* spin: self.startup.send(())?, which fails when nobody is subscribed.     *)
SpinStartup ==
  /\ pc = "spin"
  /\ \/ /\ Waiting = {}
        /\ Fail("startup_send")
     \/ /\ Waiting # {}
        /\ sender' = "sent"
        /\ pc' = "running"
        /\ UNCHANGED result
  /\ UNCHANGED <<cfg, rng, rate, handles>>

(* Child::spin: startup_receiver.recv().await? returns Ok once the value is *)
(* sent, and Err(Closed) once the sender is dropped, ending the child.      *)
ChildStartup(i) ==
  /\ handles[i].st = "startup"
  /\ sender \in {"sent", "dropped"}
  /\ handles' = [handles EXCEPT ![i].st =
                   IF sender = "sent" THEN "running" ELSE "exited"]
  /\ UNCHANGED <<cfg, pc, rng, rate, sender, result>>

\* new or spin has returned and no child is left at the barrier.
Settled ==
  /\ pc \in {"running", "failed"}
  /\ Waiting = {}
  /\ UNCHANGED vars

Next ==
  \/ NewRate \/ SpawnChild \/ NewReturn \/ SpinStartup
  \/ \E i \in DOMAIN handles : ChildStartup(i)
  \/ Settled

\* Every task step is taken once it is enabled (tokio runs ready tasks).
Spec ==
  /\ Init /\ [][Next]_vars
  /\ WF_vars(NewRate) /\ WF_vars(SpawnChild) /\ WF_vars(NewReturn)
  /\ WF_vars(SpinStartup) /\ WF_vars(\E i \in DOMAIN handles : ChildStartup(i))

-----------------------------------------------------------------------------
TypeOK ==
  /\ cfg \in Configs
  /\ pc \in {"new", "spawn", "spin", "running", "failed"}
  /\ rng \in Nat
  /\ rate \in U32
  /\ \A i \in DOMAIN handles :
       /\ handles[i].origin \in Nat
       /\ handles[i].budget \in U32 \ {0}
       /\ handles[i].st \in {"startup", "running", "exited"}
  /\ sender \in {"none", "live", "sent", "dropped"}
  /\ result \in {"pending", "ok", "zero", "block", "startup_send"}

(* The doc comment of new: creation fails when a configured capacity       *)
(* exceeds u32.  So a successful new runs every throttle at the configured *)
(* bytes_per_second and gives every cache the configured budget.           *)
RateFaithful ==
  result = "ok" =>
    /\ rate = cfg.bps
    /\ \A i \in DOMAIN handles : handles[i].budget = cfg.cacheBytes

(* Spec 4.D and 9: parallel children in fixed mode build their caches from *)
(* an rng re-seeded from the same seed, so they emit identical streams.    *)
FixedChildrenIdentical ==
  cfg.method = "fixed" =>
    \A i, j \in DOMAIN handles : handles[i].origin = handles[j].origin

=============================================================================
