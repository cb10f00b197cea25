---------------------------- MODULE MC_TraceAgent ----------------------------
(* Member encodings of 1 to 3 bytes, up to 5 members so that halving      *)
(* passes through 2 and 1; max_bytes from 0 up to more than every slice.   *)
EXTENDS TraceAgent

MCMemberSizes == {1, 3}
MCMaxMembers == 5
MCSmallBudgets == 0..1
MCBudgets == 2..12
MCAllBudgets == 0..12
=============================================================================
