---------------------------- MODULE MC_DogStatsD ----------------------------
(* Instance of DogStatsD: ranges over small bounds, so that up to two      *)
(* titles are drawn; the default weight tables, all-zero tables, and kind  *)
(* weights whose u8 sum overflows to 0 (200 + 56) or to 4 (250 + 10).      *)
(* Formatted texts of 1 to 4 bytes, so that lines of 2 to 5 bytes hit     *)
(* every remainder of budgets up to 9 exactly.                             *)
EXTENDS DogStatsD

MCAllRanges == ConfRanges(0..2)
MCAllKindWeights == {DefaultKindWeights, <<0, 0, 0>>, <<200, 56, 0>>, <<250, 10, 0>>, <<1, 0, 0>>}
MCMetricWeights == {DefaultMetricWeights, <<0, 0, 0, 0, 0, 0>>}
MCTextLengths == [metric |-> {1, 3}, event |-> {4}, service_check |-> {2}]
MCBudgets == 0..9
=============================================================================
