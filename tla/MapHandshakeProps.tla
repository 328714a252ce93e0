------------------------- MODULE MapHandshakeProps -------------------------
(***************************************************************************)
(* What the two ends of a map promise each other.                          *)
(***************************************************************************)
EXTENDS MapHandshake

RecordType ==
  [id : Nat, version : Nat, fresh : BOOLEAN, active : BOOLEAN, removed : BOOLEAN,
   expired : BOOLEAN, ready : {0, 1, 3}, pushed : BOOLEAN,
   expr : {Unset, Default} \cup 1 .. MaxCalls]

(* Every variable keeps its type; in particular the countdown in the ready *)
(* flag of map status takes no value but 3, 1 and 0.                       *)
TypeOK ==
  /\ map \in [P -> RecordType \cup {NoMap}]
  /\ link \in [P -> {"none", "asked", "up"}]
  /\ sig \in [P -> BOOLEAN] /\ staged \in [P -> BOOLEAN]
  /\ due \subseteq P /\ next_id \in Nat /\ calls \in Nat /\ losses \in Nat
  /\ wish \in {"open", "map", "edit"} \cup P

Active(p)  == Exists(p) /\ map[p].active /\ ~Ended(map[p])
BothActive == \A p \in P : Active(p)
NoneActive == \A p \in P : ~Active(p)

(* An end that processes a map has the address of the other and knows the  *)
(* type of its signal, whichever message made it activate the map: signal  *)
(* updates are never compiled or sent for a half-known map.                *)
ActiveIsReady == \A p \in P : Active(p) => map[p].ready > 0 /\ link[p] = "up" /\ sig[p]

(* A map that was made, and was not released since, is active at both ends *)
(* in the end and stays so, whichever end made it and even if both did,    *)
(* provided that no datagram was lost.                                     *)
Mapped ==
  [](wish \notin P /\ losses = 0) /\ <>(wish # "open") => <>[]BothActive

(* The id a source has is the one the destination gave: not so where the   *)
(* source's program made the map (the README says why).          *)
SourceKnowsId == Exists("src") => map["src"].id > 0

(* A map that was released, and not made again, is gone at both ends: no   *)
(* late or retried message of the handshake brings a record back.          *)
Gone ==
  [](SourceKnowsId /\ losses = 0) /\ <>[](wish \in P)
    => <>[](\A p \in P : ~Exists(p))

(* A release at the destination ends the map at both ends although one     *)
(* message was lost at any time: /unmap reaches the source over the bus    *)
(* and, from handler_unmap of the destination, directly.  Only a change or *)
(* a second handshake before may have left the source with another version *)
(* or another id.                                                          *)
LossyRelease ==
  [](SourceKnowsId /\ wish # "edit" /\ next_id <= 2) /\ <>[](wish = "dst")
    => <>[]NoneActive

(* The ends of an active map settle on one expression: the source decides, *)
(* and tells the destination of every change, in whatever order changes    *)
(* were made at the two ends.                                              *)
SameExpr ==
  [](losses = 0) => <>[](BothActive => map["src"].expr = map["dst"].expr)

=============================================================================
