------------------------ MODULE NameAllocationProps ------------------------
(* What the allocation of names is for, stated of NameAllocation. *)
EXTENDS NameAllocation

(* Every variable has its type: ordinals stay in range, hint slots are     *)
(* free, taken or aging, datagrams are well formed.                        *)
TypeOK ==
  /\ up \in [Dev -> BOOLEAN] /\ locked \in [Dev -> BOOLEAN]
  /\ online \in [Dev -> BOOLEAN] /\ registered \in [Dev -> BOOLEAN]
  /\ val \in [Dev -> 1 .. MaxOrdinal]
  /\ collision_count \in [Dev -> 0 .. MaxCollisions]
  /\ count_age \in [Dev -> 0 .. Offline]
  /\ hints \in [Dev -> [Slot -> {Free, Taken} \cup HintAge]]
  /\ random_id \in [Dev -> RandomIds \cup {0}]
  /\ known \in [Dev -> SUBSET Ordinal]
  /\ bus \subseteq Datagram
  /\ departures \in 0 .. MaxDepartures
  /\ faults \in 0 .. MaxFaults

(* No two registered devices have the same name, even when they probe at   *)
(* the same time, drew the same random id, or a holder left a moment ago.  *)
UniqueNames ==
  \A d, e \in Dev : d # e /\ registered[d] /\ registered[e] => val[d] # val[e]

-----------------------------------------------------------------------------
(* Why: of two devices after one name, at least one is bound to yield.     *)

OwnProbe(d) ==
  \E m \in bus : /\ m.type = "probe" /\ m.src = d /\ m.dst = d
                 /\ m.name = val[d] /\ m.temp_id = random_id[d]

(* d has heard of a rival, or is about to count its own probe as well. *)
Contested(d) ==
  \/ collision_count[d] >= 2
  \/ collision_count[d] = 1 /\ count_age[d] = 0 /\ OwnProbe(d)

(* d has only just probed, and e is about to answer or has answered. *)
Warned(d, e) ==
  /\ count_age[d] = 0
  /\ \E m \in bus :
       /\ m.name = val[d] /\ m.temp_id = random_id[d]
       /\ \/ m.type = "probe" /\ m.src = d /\ m.dst = e
          \/ m.type = "registered" /\ m.dst = d /\ m.hint > val[d]

Yields(d, e) == ~locked[d] /\ (Contested(d) \/ Warned(d, e))

(* Two devices never both feel entitled to one ordinal: one of them has    *)
(* counted a rival, or has a probe or a refusal of it still on the bus.    *)
OneYields ==
  \A d, e \in Dev :
    d # e /\ up[d] /\ up[e] /\ val[d] = val[e] => Yields(d, e) \/ Yields(e, d)

(* Every device that competes has counted its own probe or is about to:    *)
(* one collision then means "nobody but me".                               *)
OwnProbeCounts ==
  \A d \in Dev : up[d] /\ ~locked[d] => collision_count[d] > 0 \/ OwnProbe(d)

-----------------------------------------------------------------------------
(* A registered device never changes its name, whatever it is suggested by *)
(* stale or misdirected answers.                                           *)
NameKept ==
  [][\A d \in Dev : registered[d] /\ registered'[d] => val'[d] = val[d]]_vars

(* Every device that stays gets a name, provided it does not share its     *)
(* random id with a rival (two such devices keep moving together for as    *)
(* long as rand() wills).                                                  *)
Tied(d) == \E e \in Dev \ {d} : up[e] /\ random_id[e] = random_id[d]

EventuallyNamed ==
  \A d \in Dev : up[d] /\ ~registered[d] ~> registered[d] \/ ~up[d] \/ Tied(d)

-----------------------------------------------------------------------------
(* The registered devices and their ordinals, as UniqueNaming sees them. *)
held == [d \in Dev |-> IF registered[d] THEN {val[d]} ELSE {}]

Abstract == INSTANCE UniqueNaming WITH held <- held

(* The protocol implements it: a name is claimed in one step, free at that *)
(* moment, and changes hands only through its holder's departure.          *)
ImplementsUniqueNaming == Abstract!Spec
=============================================================================
