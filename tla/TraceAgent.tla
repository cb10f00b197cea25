----------------------------- MODULE TraceAgent -----------------------------
(***************************************************************************)
(* TraceAgent::to_bytes (src/src/payload/trace_agent.rs): draw a           *)
(* Vec<Vec<Span>> from max_bytes of entropy, then encode members[0..high]  *)
(* as JSON or msgpack, halving high until the encoding fits in max_bytes,  *)
(* and write it.                                                           *)
(*                                                                         *)
(* A member (one Vec<Span>) is abstracted to the length of its encoding;   *)
(* the encoding of a slice is modelled by what the two formats do to a     *)
(* sequence: JSON wraps it in [ ] and separates members with commas,       *)
(* msgpack prefixes an array header.                                       *)
(***************************************************************************)
EXTENDS Naturals, Sequences
LOCAL INSTANCE SequencesExt

CONSTANTS
  Encodings,    \* the Encoding variants in play: subset of {"json", "msgpack"}
  MaxBytesSet,  \* the max_bytes values the caller may pass
  MemberSizes,  \* encoded lengths a member Vec<Span> may have
  MaxMembers    \* bound on how many members the entropy yields

ASSUME
  /\ Encodings \subseteq {"json", "msgpack"}
  /\ MaxBytesSet \subseteq Nat
  /\ MemberSizes \subseteq Nat \ {0}
  /\ MaxMembers \in Nat

VARIABLES
  encoding,  \* self.encoding
  maxBytes,  \* the max_bytes argument
  members,   \* encoded lengths of the members drawn from the entropy
  high,      \* the slice end `high`
  written,   \* bytes written to the writer, or NotWritten
  done       \* the loop has broken out

vars == <<encoding, maxBytes, members, high, written, done>>

NotWritten == -1

SumOf(s) == FoldLeft(LAMBDA acc, x : acc + x, 0, s)

\* msgpack array header: fixarray up to 15 elements, array16 beyond.
MsgPackHeader(k) == IF k < 16 THEN 1 ELSE 3

\* Length of serde_json::to_vec / rmp_serde of members[0..k].
EncodedLen(enc, ms, k) ==
  LET body == SumOf(SubSeq(ms, 1, k))
  IN IF enc = "json"
     THEN 2 + body + (IF k > 0 THEN k - 1 ELSE 0)
     ELSE MsgPackHeader(k) + body

\* The members arbitrary_take_rest can draw from max_bytes of entropy: none
\* from an empty buffer, and never more members than entropy bytes.
Drawable(mb) == {ms \in BoundedSeq(MemberSizes, MaxMembers) : Len(ms) <= mb}

\* Mutant of Init: the slice end starts one past the last member.
InitHighPastEnd ==
  /\ encoding \in Encodings
  /\ maxBytes \in MaxBytesSet
  /\ members \in Drawable(maxBytes)
  /\ high = Len(members) + 1
  /\ written = NotWritten
  /\ done = FALSE

Init ==
  /\ encoding \in Encodings
  /\ maxBytes \in MaxBytesSet
  /\ members \in Drawable(maxBytes)
  /\ high = Len(members)
  /\ written = NotWritten
  /\ done = FALSE

\* Mutants of Halve: rounding up, and shrinking by four.
HalveRoundingUp(h) == (h + 1) \div 2
QuarterOf(h) == h \div 4

\* high /= 2
Halve(h) == h \div 2

\* One pass of the loop whose encoding is too long: shrink the slice.
Shrink ==
  /\ ~done
  /\ EncodedLen(encoding, members, high) > maxBytes
  /\ high' = Halve(high)
  /\ UNCHANGED <<encoding, maxBytes, members, written, done>>

\* One pass of the loop whose encoding fits: write_all it and break.
Write ==
  /\ ~done
  /\ EncodedLen(encoding, members, high) <= maxBytes
  /\ written' = EncodedLen(encoding, members, high)
  /\ done' = TRUE
  /\ UNCHANGED <<encoding, maxBytes, members, high>>

Next == Shrink \/ Write \/ (done /\ UNCHANGED vars)

\* to_bytes runs on one thread without suspension: its loop keeps running.
Spec == Init /\ [][Next]_vars /\ WF_vars(Shrink \/ Write)

-----------------------------------------------------------------------------
TypeOK ==
  /\ encoding \in Encodings
  /\ maxBytes \in MaxBytesSet
  /\ members \in BoundedSeq(MemberSizes, MaxMembers)
  /\ high \in 0..Len(members)
  /\ written \in {NotWritten} \cup Nat
  /\ done \in BOOLEAN

\* to_bytes returns for every max_bytes the caller may pass (the proptests
\* draw max_bytes from all of u16, and block construction asks for blocks
\* as small as one byte).
Terminates == <>done

\* The halving never throws away every member when some member would fit:
\* an empty slice is written only if even members[0..1] is too long.
NonEmptyWhenPossible ==
  (done /\ high = 0 /\ members # <<>>)
    => EncodedLen(encoding, members, 1) > maxBytes
=============================================================================
