--------------------------- MODULE RecentSamples ---------------------------
(***************************************************************************)
(* What a store of values promises: of every instance it remembers the     *)
(* most recent samples, newest first, and forgets only the oldest.         *)
(***************************************************************************)
EXTENDS Naturals, Sequences

CONSTANTS Sample,    \* what can be remembered
          MaxInst    \* bound: number of instances

VARIABLES recent,    \* by instance: its samples, newest first
          room       \* how many samples an instance may remember

Init == recent = <<>> /\ room \in Nat \ {0}

Shorter(m, n) == IF m < n THEN m ELSE n

(* Sample x is new; what was remembered moves one place back. *)
Pushed(h, x, n) == [k \in 1 .. Shorter(Len(h) + 1, n) |-> IF k = 1 THEN x ELSE h[k - 1]]

Push(i, x) ==
  /\ recent' = [recent EXCEPT ![i] = Pushed(recent[i], x, room)]
  /\ UNCHANGED room

(* The newest sample is completed or corrected. *)
Amend(i, x) ==
  /\ recent[i] # <<>>
  /\ recent' = [recent EXCEPT ![i] = [recent[i] EXCEPT ![1] = x]]
  /\ UNCHANGED room

Clear(i) ==
  /\ recent' = [recent EXCEPT ![i] = <<>>]
  /\ UNCHANGED room

(* Instance i goes, and those after it move down. *)
Drop(i) ==
  /\ recent' = [j \in 1 .. Len(recent) - 1 |->
                  IF j < i THEN recent[j] ELSE recent[j + 1]]
  /\ UNCHANGED room

(* More instances or more room: what was remembered is remembered, and a   *)
(* sample that was kept without need may turn up behind it.                *)
Extend(n) ==
  /\ recent' \in Seq(Seq(Sample)) /\ Len(recent') = n
  /\ \A j \in DOMAIN recent :
       /\ Len(recent'[j]) \in {Len(recent[j]), Len(recent[j]) + 1}
       /\ \A k \in DOMAIN recent[j] : recent'[j][k] = recent[j][k]
  /\ \A j \in (DOMAIN recent') \ DOMAIN recent : recent'[j] = <<>>
  /\ room' \in Nat /\ room' >= room

(* Nothing is remembered. *)
Restart(n) ==
  /\ recent' = [j \in 1 .. n |-> <<>>]
  /\ room' \in Nat \ {0}

Next ==
  \/ \E i \in DOMAIN recent :
       \/ \E x \in Sample : Push(i, x) \/ Amend(i, x)
       \/ Clear(i) \/ Drop(i)
  \/ \E n \in Len(recent) .. MaxInst : Extend(n) \/ Restart(n)

Spec == Init /\ [][Next]_<<recent, room>>
=============================================================================
