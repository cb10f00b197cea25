------------------------------ MODULE DogStatsD ------------------------------
(***************************************************************************)
(* The DogStatsD payload generator (src/lading_payload/src/dogstatsd.rs):  *)
(* DogStatsD::new and MemberGenerator::new build the generator, then       *)
(* DogStatsD::to_bytes packs members drawn by MemberGenerator::generate    *)
(* into a buffer of max_bytes.                                             *)
(*                                                                         *)
(* new samples the number of contexts, draws one title per context with a  *)
(* length sampled from name_length, draws the texts and small strings,     *)
(* builds a WeightedIndex over the six metric weights and then one over    *)
(* the three kind weights, unwrapping both.  ConfRange::sample of an       *)
(* Inclusive range calls gen_range(min..max), which panics on an empty     *)
(* range.  WeightedIndex<u8> accumulates the u8 weights in a u8: a debug   *)
(* build panics on overflow, a release build wraps, and a zero total is    *)
(* AllWeightsZero.  Which build runs is a nondeterministic choice.         *)
(*                                                                         *)
(* to_bytes then loops: generate a member of a kind drawn from the kind    *)
(* weights new was given, format it, and append it with a newline while    *)
(* the line still fits in the bytes remaining (checked_sub); stop at the   *)
(* first line that does not fit.                                           *)
(*                                                                         *)
(* Strings are abstracted away: only counts and sampled lengths are kept,  *)
(* and a member is its kind and the length of its formatted text.          *)
(* tags::Generator, the member generators and strings::Pool are not in     *)
(* this tree and are not modelled.                                         *)
(***************************************************************************)
EXTENDS Naturals, Sequences
LOCAL INSTANCE SequencesExt

CONSTANTS
  ContextRanges,   \* values of Config.contexts: ConfRange<u32>
  NameRanges,      \* values of Config.name_length: ConfRange<u16>
  KindWeightSets,  \* values of Config.kind_weights as <<metric, event, service_check>>
  MetricWeightSets,\* values of Config.metric_weights, in metric_choices order
  Builds,          \* a subset of {"debug", "release"}
  TextLengths,     \* [kind -> set of lengths of the formatted member]
  MaxBytesSet      \* the max_bytes values to_bytes may be called with

ASSUME
  /\ Builds \subseteq {"debug", "release"}
  /\ \A k \in DOMAIN TextLengths : TextLengths[k] \subseteq Nat \ {0}
  /\ MaxBytesSet \subseteq Nat

\* A ConfRange as a record: Constant(c) is [kind |-> "constant", min |-> c, max |-> c].
ConfRanges(vals) ==
  {[kind |-> "constant", min |-> c, max |-> c] : c \in vals} \cup
  [kind : {"inclusive"}, min : vals, max : vals]

\* KindWeights::default(): metric 80, event 10, service_check 10.
DefaultKindWeights == <<80, 10, 10>>

\* MetricWeights::default(): count, gauge, timer, distribution, set, histogram.
DefaultMetricWeights == <<34, 34, 5, 1, 1, 25>>

\* The kinds of member_choices, in the order generate matches them.
KindNames == <<"metric", "event", "service_check">>

VARIABLES
  conf,         \* the Config fields new is called with
  build,        \* the build profile the code runs under
  pc,           \* the step of MemberGenerator::new
  numContexts,  \* num_contexts
  titles,       \* lengths of the service_event_titles drawn so far
  kindTotal,    \* the u8 total_weight of the kind WeightedIndex
  outcome,      \* "pending", "built" or "panic"
  maxBytes,     \* the max_bytes argument of to_bytes
  remaining,    \* bytes_remaining
  written,      \* bytes written to the writer
  rejected,     \* line_length of the member that ended the loop, or 0
  done          \* the loop has broken out

newVars == <<conf, build, pc, numContexts, titles, kindTotal, outcome>>
packVars == <<maxBytes, remaining, written, rejected, done>>
vars == <<newVars, packVars>>

-----------------------------------------------------------------------------
\* ConfRange::sample: the constant, or gen_range(min..max), excluding max.
Sample(r) ==
  IF r.kind = "constant" THEN {r.min} ELSE r.min..(r.max - 1)

\* gen_range panics on an empty range.
SamplePanics(r) == r.kind = "inclusive" /\ r.min >= r.max

SumOf(ws) == FoldLeft(LAMBDA x, y : x + y, 0, ws)

\* Mutant of WeightTotal: the u8 accumulator treated as unbounded.
WeightTotalUnwrapped(ws) == SumOf(ws)

\* WeightedIndex<u8>::new's total_weight in a release build: the sum mod 2^8.
WeightTotal(ws) == SumOf(ws) % 256

\* WeightedIndex::new(ws).unwrap() panics: u8 overflow in a debug build,
\* or a zero total (AllWeightsZero).
WeightedIndexPanics(ws, b) ==
  \/ b = "debug" /\ SumOf(ws) > 255
  \/ WeightTotal(ws) = 0

Panic ==
  /\ pc' = "done"
  /\ outcome' = "panic"

\* WeightedIndex::sample: a kind with weight zero is never drawn.
Drawable == {KindNames[i] : i \in {j \in DOMAIN conf.kinds : conf.kinds[j] > 0}}

\* format!("{member}") followed by the newline writeln! adds.
LineLength(textLen) == textLen + 1

\* Mutants of Fits: strict comparison, and the newline left uncounted.
FitsStrictly(rem, line) == rem > line
FitsWithoutNewline(rem, line) == rem >= line - 1

\* bytes_remaining.checked_sub(line_length) is Some(_).
Fits(rem, line) == rem >= line

Init ==
  /\ conf \in [contexts : ContextRanges, name : NameRanges,
               kinds : KindWeightSets, metrics : MetricWeightSets]
  /\ build \in Builds
  /\ pc = "contexts"
  /\ numContexts = 0
  /\ titles = <<>>
  /\ kindTotal = 0
  /\ outcome = "pending"
  /\ maxBytes \in MaxBytesSet
  /\ remaining = maxBytes
  /\ written = 0
  /\ rejected = 0
  /\ done = FALSE

(* strings::Pool::with_size, then num_contexts = contexts.sample(rng).     *)
SampleContexts ==
  /\ pc = "contexts"
  /\ \/ /\ SamplePanics(conf.contexts)
        /\ Panic
        /\ UNCHANGED numContexts
     \/ /\ ~SamplePanics(conf.contexts)
        /\ numContexts' \in Sample(conf.contexts)
        /\ pc' = "titles"
        /\ UNCHANGED outcome
  /\ UNCHANGED <<conf, build, titles, kindTotal, packVars>>

(* One iteration of random_strings_with_length_range(pool, num_contexts,   *)
(* name_length): sample a length and take a string of it from the pool.    *)
DrawTitle ==
  /\ pc = "titles"
  /\ Len(titles) < numContexts
  /\ \/ /\ SamplePanics(conf.name)
        /\ Panic
        /\ UNCHANGED titles
     \/ /\ ~SamplePanics(conf.name)
        /\ \E sz \in Sample(conf.name) : titles' = Append(titles, sz)
        /\ UNCHANGED <<pc, outcome>>
  /\ UNCHANGED <<conf, build, numContexts, kindTotal, packVars>>

(* The titles are drawn; tagsets, texts_or_messages (4..128 strings of     *)
(* 1..1024 bytes) and small_strings (16..1024 strings of 1..8 bytes) draw  *)
(* from non-empty ranges; MetricGenerator::new gets                        *)
(* WeightedIndex::new(metric_choices).unwrap().                            *)
MetricIndex ==
  /\ pc = "titles"
  /\ Len(titles) = numContexts
  /\ \/ /\ WeightedIndexPanics(conf.metrics, build)
        /\ Panic
     \/ /\ ~WeightedIndexPanics(conf.metrics, build)
        /\ pc' = "kinds"
        /\ UNCHANGED outcome
  /\ UNCHANGED <<conf, build, numContexts, titles, kindTotal, packVars>>

(* MemberGenerator { kind_weights: WeightedIndex::new(member_choices)      *)
(* .unwrap(), .. }, returned through DogStatsD::new.                       *)
KindIndex ==
  /\ pc = "kinds"
  /\ \/ /\ WeightedIndexPanics(conf.kinds, build)
        /\ Panic
        /\ UNCHANGED kindTotal
     \/ /\ ~WeightedIndexPanics(conf.kinds, build)
        /\ kindTotal' = WeightTotal(conf.kinds)
        /\ pc' = "done"
        /\ outcome' = "built"
  /\ UNCHANGED <<conf, build, numContexts, titles, packVars>>

\* Mutant of Step: the line is written but bytes_remaining is not lowered
\* (the output is left out, since nothing bounds it then).
StepRemainderKept ==
  /\ outcome = "built"
  /\ ~done
  /\ \E k \in Drawable : \E t \in TextLengths[k] :
       LET line == LineLength(t) IN
       \/ /\ Fits(remaining, line)
          /\ UNCHANGED <<remaining, written, rejected, done>>
       \/ /\ ~Fits(remaining, line)
          /\ rejected' = line
          /\ done' = TRUE
          /\ UNCHANGED <<remaining, written>>
  /\ UNCHANGED <<maxBytes, newVars>>

(* One pass of the to_bytes loop on the built generator: generate a      *)
(* member of some drawable kind, then write it or break.                   *)
Step ==
  /\ outcome = "built"
  /\ ~done
  /\ \E k \in Drawable : \E t \in TextLengths[k] :
       LET line == LineLength(t) IN
       \/ /\ Fits(remaining, line)
          /\ remaining' = remaining - line
          /\ written' = written + line
          /\ UNCHANGED <<rejected, done>>
       \/ /\ ~Fits(remaining, line)
          /\ rejected' = line
          /\ done' = TRUE
          /\ UNCHANGED <<remaining, written>>
  /\ UNCHANGED <<maxBytes, newVars>>

\* new panicked, or to_bytes has returned.
Returned ==
  /\ outcome = "panic" \/ done
  /\ UNCHANGED vars

Next ==
  \/ SampleContexts \/ DrawTitle \/ MetricIndex \/ KindIndex \/ Step
  \/ Returned

\* Straight-line code: every enabled step is taken.
Spec == Init /\ [][Next]_vars /\ WF_vars(Next)

-----------------------------------------------------------------------------
TypeOK ==
  /\ pc \in {"contexts", "titles", "kinds", "done"}
  /\ build \in Builds
  /\ numContexts \in Nat
  /\ titles \in Seq(Nat)
  /\ kindTotal \in 0..255
  /\ outcome \in {"pending", "built", "panic"}
  /\ maxBytes \in MaxBytesSet
  /\ remaining \in 0..maxBytes
  /\ written \in 0..maxBytes
  /\ rejected \in Nat
  /\ done \in BOOLEAN

\* A configuration the documentation allows: every Inclusive range has
\* min <= max, and each weight table gives some entry a non-zero weight.
DocumentedConfig ==
  /\ \A r \in {conf.contexts, conf.name} : r.min <= r.max
  /\ \E i \in DOMAIN conf.kinds : conf.kinds[i] > 0
  /\ \E i \in DOMAIN conf.metrics : conf.metrics[i] > 0

(* new never panics on a configuration its documentation allows.           *)
NoPanicOnValidConfig ==
  outcome = "panic" => ~DocumentedConfig

\* The proptest's claim, made tight: when to_bytes returns, the output is
\* within max_bytes and the unused budget is smaller than the line that was
\* turned away, so a line that fits exactly is always taken.
PackedTight ==
  done => /\ written <= maxBytes
          /\ maxBytes - written < rejected

(* The to_bytes loop has no bound of its own: it ends only at the first    *)
(* member whose line does not fit.  Every line costs at least the newline, *)
(* so for every max_bytes and every mix of kinds new built, to_bytes       *)
(* returns.                                                                *)
ToBytesReturns ==
  outcome = "built" ~> done
=============================================================================
