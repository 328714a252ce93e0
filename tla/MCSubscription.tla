--------------------------- MODULE MCSubscription ---------------------------
(***************************************************************************)
(* Subscription with small sets of kinds, for TLC.  The numbers of the     *)
(* configurations keep the relations of the source: the buffer for         *)
(* renewals equals the timeout of records (both 10 s) and the lease is     *)
(* longer than both together.                                              *)
(***************************************************************************)
EXTENDS SubscriptionProps, TLC

DevAndInputs == {{"device", "sig_in"}}
DevOrInputs  == {{"device"}, {"device", "sig_in"}}
InMaps       == {{"map_in"}}

NoLeases == {}
Short    == {1}

(* One message under way at a time, for searches that are after depth. *)
OneInFlight == \A g, h \in Graph :
  /\ Len(toDevice[g]) + Len(bus[g]) + Len(mesh[g]) <= 2
  /\ g # h => toDevice[g] = <<>> \/ toDevice[h] = <<>>

GraphSymmetry == Permutations(Graph)
=============================================================================
