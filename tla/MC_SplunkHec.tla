---------------------------- MODULE MC_SplunkHec ----------------------------
(* Three clients contending for two permits, two requests per connection. *)
EXTENDS SplunkHec, TLC

CONSTANTS k1, k2, k3

MCClients == {k1, k2, k3}

FairSpec == Spec /\ ClientsHangUp
=============================================================================
