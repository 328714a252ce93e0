---------------------------- MODULE UniqueNaming ----------------------------
(***************************************************************************)
(* What the allocation of names promises: a device claims an ordinal that  *)
(* nobody else holds, keeps it, and gives it up when it leaves.            *)
(***************************************************************************)
EXTENDS Naturals

CONSTANTS Dev, Ordinal

VARIABLE held    \* the ordinals each device holds: none or one

Init == held = [d \in Dev |-> {}]

Claim(d) ==
  /\ held[d] = {}
  /\ \E n \in Ordinal :
       /\ \A e \in Dev : n \notin held[e]
       /\ held' = [held EXCEPT ![d] = {n}]

GiveUp(d) ==
  /\ held[d] # {}
  /\ held' = [held EXCEPT ![d] = {}]

Next == \E d \in Dev : Claim(d) \/ GiveUp(d)

Spec == Init /\ [][Next]_held
=============================================================================
