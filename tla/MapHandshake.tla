---------------------------- MODULE MapHandshake ----------------------------
(***************************************************************************)
(* How two devices agree on a map between their signals (src/src/map.c,    *)
(* src/src/network.c, src/src/graph.c, src/src/object.c).                  *)
(*                                                                         *)
(* The record of a map lives at both ends.  A program at either end makes  *)
(* one and pushes it: /map goes out on the bus, the destination numbers    *)
(* the map and sends /mapTo to the source, which answers /mapped; each end *)
(* activates its record on the first /mapped it can use.  Before that each *)
(* end must have the address of the other (it asks with /subscribe when    *)
(* the record is made, and gets /device) and the other's signal.  Changes  *)
(* travel as /map/modify, the end as /unmap, on the bus that both hear.    *)
(*                                                                         *)
(* One map with one source, two processes.  Expressions are evaluated at   *)
(* the source, the default.  A tick is the 2 s between two cleanups.       *)
(***************************************************************************)
EXTENDS Integers, Sequences

CONSTANTS
  Callers,      \* the ends whose programs make, change and release the map
  Callbacks,    \* the ends whose programs are notified of changes of maps
  Subscribers,  \* the ends whose graph subscribes to the other device (not to its maps)
  Programs,     \* what programs do: "map", "edit", "release"
  Hasty,        \* what they also do while messages are under way
  MaxCalls,     \* bound: calls of the programs
  MaxLosses     \* bound: datagrams lost

P == {"src", "dst"}

ASSUME EndsAssumption == Callers \subseteq P /\ Callbacks \subseteq P /\ Subscribers \subseteq P
ASSUME ProgramsAssumption == Programs \subseteq {"map", "edit", "release"} /\ Hasty \subseteq Programs
ASSUME BoundsAssumption == MaxCalls \in Nat /\ MaxLosses \in Nat

VARIABLES
  map,       \* the record of the map at each end, or NoMap
  link,      \* the link to the other end: "none", "asked" for, or "up"
  sig,       \* the end knows type and length of the other's signal
  staged,    \* mpr_graph.staged_maps is not zero
  net,       \* datagrams under way, per medium, sender and receiver
  due,       \* ends that have yet to clean up in this tick
  next_id,   \* the destination's id for the next map
  wish,      \* history: what the last call asked for ("open": none was made)
  calls, losses

vars == <<map, link, sig, staged, net, due, next_id, wish, calls, losses>>

Peer(p) == IF p = "src" THEN "dst" ELSE "src"

-----------------------------------------------------------------------------
(* Records *)

NoMap == [id |-> -1]
Unset == -1       \* no expression
Default == 0      \* the expression the source makes up

Exists(p) == map[p] # NoMap

(* mpr_map_init: the destination gives the map its id. *)
NewRecord(p, id) ==
  [id |-> IF p = "dst" THEN next_id ELSE id, version |-> 0, fresh |-> TRUE,
   active |-> FALSE, removed |-> FALSE, expired |-> FALSE, ready |-> 0,
   pushed |-> FALSE, expr |-> Unset]

Ended(r) == r.removed \/ r.expired

Renegotiated(r) == [r EXCEPT !.active = FALSE, !.ready = 0,
                             !.removed = FALSE, !.expired = FALSE]

Revived(r) == [r EXCEPT !.removed = FALSE, !.expired = FALSE]

(* mistake: the address of the other end is not waited for. *)
CheckedUnlinked(p, r, known) ==
  IF r.ready = 0 /\ known
  THEN [r EXCEPT !.ready = 3, !.expr = IF p = "src" /\ @ = Unset THEN Default ELSE @]
  ELSE r

(* mpr_local_map_update_status *)
Checked(p, r, known) ==
  IF r.ready = 0 /\ link[p] = "up" /\ known
  THEN [r EXCEPT !.ready = 3, !.expr = IF p = "src" /\ @ = Unset THEN Default ELSE @]
  ELSE r

(* mpr_map_set_from_msg.  The id is not among the properties a message may *)
(* set, and a message with an older version changes nothing.               *)
StaleOrSame(r, m) == m.version <= r.version    \* mistake
Stale(r, m) == m.version < r.version

UpdatedByVersion(r, m) == m.version > r.version    \* mistake

Updated(r, m) == m.version > r.version \/ m.expr # Unset

SetFrom(p, r, m, known) ==
  IF Stale(r, m) THEN r
  ELSE Checked(p, [Revived(r) EXCEPT !.version = m.version,
                                     !.expr = IF m.expr = Unset THEN @ ELSE m.expr], known)

(* mpr_local_map_activate and the notification that follows it; only where *)
(* a callback is called is the record no longer new.                       *)
Activated(p, r) ==
  [r EXCEPT !.active = TRUE, !.removed = FALSE, !.fresh = @ /\ p \notin Callbacks]

-----------------------------------------------------------------------------
(* Messages.  sig tells how a message acquaints the receiver with the      *)
(* signal of the sender: by a /signal before it, or among its properties.  *)

MapMsg(type, r, signal) ==
  [type |-> type, id |-> r.id, version |-> r.version, expr |-> r.expr, sig |-> signal]

AskForDevice == [type |-> "subscribe"]
DeviceMsg    == [type |-> "device"]

Channel == {<<"bus", p, q>> : p, q \in P} \cup {<<"mesh", p, Peer(p)>> : p \in P}

Multicast(n, p, m) ==
  [c \in Channel |-> IF c[1] = "bus" /\ c[2] = p THEN Append(n[c], m) ELSE n[c]]

ToPeer(n, p, m) == [n EXCEPT ![<<"mesh", p, Peer(p)>>] = Append(@, m)]

AskNobody(n, p) == n    \* mistake

(* mpr_link_init: a new link asks for the other device's address. *)
Ask(n, p) == IF link[p] = "none"
             THEN [n EXCEPT ![<<"bus", p, Peer(p)>>] = Append(@, AskForDevice)] ELSE n

Asked(p) == IF link[p] = "none" THEN [link EXCEPT ![p] = "asked"] ELSE link

Quiet == \A c \in Channel : net[c] = <<>>

Arrived(c, types) == net[c] # <<>> /\ Head(net[c]).type \in types

Rest(c) == [net EXCEPT ![c] = Tail(@)]

-----------------------------------------------------------------------------
(* find_map.  A message with an id finds the record with that id; only a   *)
(* handler that may add records tries the names of the signals then, and   *)
(* not at the destination, which gave the id and must have deleted the map.*)

Found(p, m, mayAdd) ==
  IF m.id > 0 /\ Exists(p) /\ map[p].id = m.id THEN "by id"
  ELSE IF m.id > 0 /\ (~mayAdd \/ p = "dst") THEN "no"
  ELSE IF Exists(p) THEN "by name"
  ELSE IF mayAdd THEN "new" ELSE "no"

(* The record found; an ended one found by its id starts over. *)
Record(p, m, how) ==
  CASE how = "by id" -> IF Ended(map[p]) THEN Renegotiated(map[p]) ELSE map[p]
    [] how = "by name" -> map[p]
    [] how = "new" -> NewRecord(p, m.id)

(* What making a record entails. *)
Numbered(p, how) == next_id' = IF how = "new" /\ p = "dst" THEN next_id + 1 ELSE next_id
Linked(p, how)   == link' = IF how = "new" THEN Asked(p) ELSE link
AskedIf(n, p, how) == IF how = "new" THEN Ask(n, p) ELSE n

Knows(p, r, m) == sig[p] \/ m.sig = "signal" \/ (m.sig = "slot" /\ ~Stale(r, m))

-----------------------------------------------------------------------------
(* Calls of the programs *)

Call(p, kind) ==
  /\ p \in Callers /\ kind \in Programs /\ calls < MaxCalls
  /\ Quiet \/ kind \in Hasty
  /\ calls' = calls + 1
  /\ UNCHANGED <<due, losses>>

(* mpr_obj_push of a record with an expression staged, or none: the record  *)
(* and the network afterwards.  Whether an inactive map is pushed depends   *)
(* on the flag of new records.                                             *)
Pushed(p, r, e, known, n) ==
  LET s == [r EXCEPT !.version = @ + 1]
      t == Checked(p, s, known)
  IN  IF r.active /\ ~r.removed
      THEN [rec |-> [s EXCEPT !.pushed = TRUE],
            out |-> Multicast(n, p, [MapMsg("modify", s, "no") EXCEPT !.expr = e])]
      ELSE IF t.fresh
      THEN [rec |-> [t EXCEPT !.pushed = TRUE],
            out |-> Multicast(n, p, [MapMsg("map", t, IF p = "src" THEN "slot" ELSE "no")
                                       EXCEPT !.expr = IF e = Unset THEN @ ELSE e])]
      ELSE [rec |-> [t EXCEPT !.version = @ - 1], out |-> n]

(* mpr_map_new, pushed at once: a record that was released starts over,    *)
(* with a higher version because /unmap messages are under way.            *)
Create(p) ==
  LET how == IF Exists(p) THEN "by name" ELSE "new"
      r == IF ~Exists(p) THEN NewRecord(p, 0)
           ELSE IF Ended(map[p]) THEN [Renegotiated(map[p]) EXCEPT !.version = @ + 1] ELSE map[p]
      s == Pushed(p, r, Unset, sig[p] \/ how = "new", AskedIf(net, p, how))
  IN  /\ Call(p, "map")
      /\ wish' = "map"
      /\ map' = [map EXCEPT ![p] = s.rec] /\ net' = s.out
      /\ Numbered(p, how) /\ Linked(p, how)
      /\ sig' = [sig EXCEPT ![p] = @ \/ how = "new"]
      /\ staged' = [staged EXCEPT ![p] = @ \/ how = "new"]

(* mpr_map_set_expr (or another property) and a push. *)
Edit(p) ==
  /\ Call(p, "edit")
  /\ Exists(p) /\ ~map[p].removed
  /\ LET s == Pushed(p, [map[p] EXCEPT !.version = @ + 1], calls + 1, sig[p], net)
     IN  map' = [map EXCEPT ![p] = s.rec] /\ net' = s.out
  /\ wish' = "edit"
  /\ UNCHANGED <<link, sig, staged, next_id>>

(* mpr_map_release *)
Release(p) ==
  /\ Exists(p) /\ ~map[p].removed
  /\ Call(p, "release")
  /\ wish' = p
  /\ LET r == [map[p] EXCEPT !.active = FALSE, !.version = @ + 1, !.pushed = TRUE]
     IN  /\ map' = [map EXCEPT ![p] = r]
         /\ net' = Multicast(net, p, MapMsg("unmap", r, "no"))
  /\ UNCHANGED <<link, sig, staged, next_id>>

-----------------------------------------------------------------------------
(* Handlers; n is the network without the message *)

(* handler_map: the destination only *)
OnMap(p, m, n) ==
  LET how == Found(p, m, TRUE)
      r   == Revived(Record(p, m, how))
      s   == SetFrom(p, r, m, Knows(p, r, m))
      asked == AskedIf(n, p, how)
  IN  IF p = "src" \/ how = "no"
      THEN net' = n /\ UNCHANGED <<map, link, sig, next_id>>
      ELSE /\ Numbered(p, how) /\ Linked(p, how)
           /\ IF r.active
              THEN /\ map' = [map EXCEPT ![p] = r]
                   /\ net' = ToPeer(n, p, [m EXCEPT !.type = "modify", !.sig = "no"])
                   /\ UNCHANGED sig
              ELSE /\ map' = [map EXCEPT ![p] = [s EXCEPT !.pushed = @ \/ link[p] = "up"]]
                   /\ sig' = [sig EXCEPT ![p] = Knows(p, r, m)]
                   /\ net' = IF link[p] = "up"
                             THEN ToPeer(asked, p, MapMsg("mapTo", s, "signal")) ELSE asked

ReceiveMap(p, c) ==
  /\ Arrived(c, {"map"})
  /\ OnMap(p, Head(net[c]), Rest(c))
  /\ UNCHANGED <<staged, due, wish, calls, losses>>

(* handler_map_to *)
ReceiveMapTo(p, c) ==
  /\ Arrived(c, {"mapTo"})
  /\ LET m   == Head(net[c])
         how == Found(p, m, TRUE)
         r   == Revived(Record(p, m, how))
         s   == IF r.active THEN r ELSE SetFrom(p, r, m, TRUE)
     IN  /\ sig' = [sig EXCEPT ![p] = TRUE]
         /\ IF how = "no" THEN net' = Rest(c) /\ UNCHANGED <<map, link, next_id>>
            ELSE /\ Numbered(p, how) /\ Linked(p, how)
                 /\ map' = [map EXCEPT ![p] = [s EXCEPT !.pushed = @ \/ s.ready > 0]]
                 /\ net' = IF s.ready > 0 THEN ToPeer(Rest(c), p, MapMsg("mapped", s, "signal"))
                                          ELSE AskedIf(Rest(c), p, how)
  /\ UNCHANGED <<staged, due, wish, calls, losses>>

(* handler_mapped: the source is in charge and only checks its status; a   *)
(* graph that subscribes to the peer tries again by the signal names.        *)
ReceiveMapped(p, c) ==
  /\ Arrived(c, {"mapped"})
  /\ LET m    == Head(net[c])
         once == Found(p, m, FALSE)
         how  == IF once = "no" /\ p \in Subscribers THEN Found(p, m, TRUE) ELSE once
         r    == Record(p, m, how)
         known == sig[p] \/ m.sig = "signal" \/ (p = "dst" /\ Knows(p, r, m))
         s    == IF p = "src" THEN Checked(p, r, known) ELSE SetFrom(p, r, m, known)
         activates == s.ready > 0 /\ ~s.active
         t    == IF activates THEN Activated(p, s) ELSE s
     IN  IF how = "no"
         THEN /\ sig' = [sig EXCEPT ![p] = @ \/ m.sig = "signal"]
              /\ net' = Rest(c)
              /\ UNCHANGED <<map, link, next_id>>
         ELSE /\ sig' = [sig EXCEPT ![p] = known]
              /\ Numbered(p, how) /\ Linked(p, how)
              /\ map' = [map EXCEPT ![p] = [t EXCEPT !.pushed = @ \/ activates]]
              /\ net' = IF activates THEN ToPeer(Rest(c), p, MapMsg("mapped", t, "slot"))
                                     ELSE AskedIf(Rest(c), p, how)
  /\ UNCHANGED <<staged, due, wish, calls, losses>>

(* handler_map_mod: the source, which evaluates the expression, applies    *)
(* the change and informs the destination.                                 *)
ReceiveModify(p, c) ==
  /\ Arrived(c, {"modify"})
  /\ LET m   == Head(net[c])
         how == Found(p, m, FALSE)
         r   == Revived(map[p])
         s   == SetFrom(p, r, m, sig[p])
     IN  IF how = "no" THEN OnMap(p, m, Rest(c))
         ELSE /\ IF ~map[p].active THEN net' = Rest(c) /\ UNCHANGED map
                 ELSE IF p = "dst" THEN net' = Rest(c) /\ map' = [map EXCEPT ![p] = r]
                 ELSE /\ map' = [map EXCEPT ![p] = s]
                      /\ net' = IF ~Stale(r, m) /\ Updated(r, m)
                                THEN ToPeer(Rest(c), p, MapMsg("mapped", s, "slot"))
                                ELSE Rest(c)
              /\ UNCHANGED <<link, sig, next_id>>
  /\ UNCHANGED <<staged, due, wish, calls, losses>>

(* mistake: the destination leaves it to the bus to tell the source. *)
ReceiveUnmapAlone(p, c) ==
  /\ Arrived(c, {"unmap"})
  /\ LET m == Head(net[c])
     IN  IF Found(p, m, FALSE) = "no" \/ map[p].removed \/ Stale(map[p], m)
         THEN UNCHANGED map
         ELSE map' = [map EXCEPT ![p].removed = TRUE, ![p].expired = TRUE]
  /\ net' = Rest(c)
  /\ UNCHANGED <<link, sig, staged, due, next_id, wish, calls, losses>>

(* handler_unmap *)
ReceiveUnmap(p, c) ==
  /\ Arrived(c, {"unmap"})
  /\ LET m == Head(net[c])
     IN  IF Found(p, m, FALSE) = "no" \/ map[p].removed \/ Stale(map[p], m)
         THEN net' = Rest(c) /\ UNCHANGED map
         ELSE /\ map' = [map EXCEPT ![p].removed = TRUE, ![p].expired = TRUE]
              /\ net' = IF p = "dst" /\ link[p] = "up"
                        THEN ToPeer(Rest(c), p, [m EXCEPT !.id = map[p].id]) ELSE Rest(c)
  /\ UNCHANGED <<link, sig, staged, due, next_id, wish, calls, losses>>

(* handler_subscribe, as far as it answers /device *)
ReceiveAsk(p, c) ==
  /\ Arrived(c, {"subscribe"})
  /\ net' = ToPeer(Rest(c), p, DeviceMsg)
  /\ UNCHANGED <<map, link, sig, staged, due, next_id, wish, calls, losses>>

(* mistake: only a map that has not been pushed is taken to wait. *)
ReceiveDeviceUnpushed(p, c) ==
  /\ Arrived(c, {"device"})
  /\ link' = IF link[p] = "asked" THEN [link EXCEPT ![p] = "up"] ELSE link
  /\ IF link[p] = "asked" /\ Exists(p) /\ ~map[p].pushed
     THEN /\ net' = ToPeer(Rest(c), p, MapMsg("mapTo", map[p], "signal"))
          /\ map' = [map EXCEPT ![p].pushed = TRUE]
     ELSE net' = Rest(c) /\ UNCHANGED map
  /\ UNCHANGED <<sig, staged, due, next_id, wish, calls, losses>>

(* handler_dev: the link is up; a map that waits for it goes on. *)
ReceiveDevice(p, c) ==
  /\ Arrived(c, {"device"})
  /\ link' = IF link[p] = "asked" THEN [link EXCEPT ![p] = "up"] ELSE link
  /\ IF link[p] = "asked" /\ Exists(p)
     THEN /\ net' = ToPeer(Rest(c), p, MapMsg("mapTo", map[p], "signal"))
          /\ map' = [map EXCEPT ![p].pushed = TRUE]
     ELSE net' = Rest(c) /\ UNCHANGED map
  /\ UNCHANGED <<sig, staged, due, next_id, wish, calls, losses>>

-----------------------------------------------------------------------------
(* Housekeeping *)

(* mpr_graph_housekeeping, on every poll *)
Housekeeping(p) ==
  /\ Exists(p) /\ map[p].removed /\ map[p].expired /\ ~staged[p]
  /\ staged' = [staged EXCEPT ![p] = TRUE]
  /\ UNCHANGED <<map, link, sig, net, due, next_id, wish, calls, losses>>

(* mpr_map_status_decr: the ready flag is a countdown. *)
Aged(r) == IF r.ready > 0 THEN [r EXCEPT !.ready = IF @ = 3 THEN 1 ELSE 0]
                          ELSE [r EXCEPT !.expired = TRUE]

(* mpr_graph_cleanup, every two seconds *)
Cleanup(p) ==
  /\ p \in due
  /\ due' = due \ {p}
  /\ IF ~staged[p] THEN UNCHANGED <<map, net, staged>>
     ELSE \/ /\ ~Exists(p) \/ (map[p].active /\ ~map[p].removed)
             /\ staged' = [staged EXCEPT ![p] = FALSE]
             /\ UNCHANGED <<map, net>>
          \/ /\ Exists(p) /\ (map[p].removed \/ (map[p].expired /\ ~map[p].active))
             /\ map' = [map EXCEPT ![p] = NoMap]
             /\ staged' = [staged EXCEPT ![p] = FALSE]
             /\ UNCHANGED net
          \/ /\ Exists(p) /\ ~Ended(map[p]) /\ ~map[p].active
             /\ LET t == Checked(p, map[p], sig[p])
                    s == Pushed(p, t, Unset, sig[p], net)
                IN  IF ~map[p].pushed /\ t.fresh
                    THEN map' = [map EXCEPT ![p] = Aged(s.rec)] /\ net' = s.out
                    ELSE map' = [map EXCEPT ![p] = Aged(IF map[p].pushed THEN @ ELSE t)]
                         /\ UNCHANGED net
             /\ UNCHANGED staged
  /\ UNCHANGED <<link, sig, next_id, wish, calls, losses>>

-----------------------------------------------------------------------------
(* Everything but /device is a datagram that may get lost. *)
Lose(c) ==
  /\ losses < MaxLosses /\ net[c] # <<>>
  /\ losses' = losses + 1
  /\ net' = Rest(c)
  /\ UNCHANGED <<map, link, sig, staged, due, next_id, wish, calls>>

Tick ==
  /\ Quiet /\ due = {}
  /\ due' = P
  /\ UNCHANGED <<map, link, sig, staged, net, next_id, wish, calls, losses>>

-----------------------------------------------------------------------------
Init ==
  /\ map = [p \in P |-> NoMap] /\ link = [p \in P |-> "none"]
  /\ sig = [p \in P |-> FALSE] /\ staged = [p \in P |-> FALSE]
  /\ net = [c \in Channel |-> <<>>] /\ due = {}
  /\ next_id = 1 /\ wish = "open" /\ calls = 0 /\ losses = 0

Receive(c) ==
  \/ ReceiveMap(c[3], c) \/ ReceiveMapTo(c[3], c) \/ ReceiveMapped(c[3], c)
  \/ ReceiveModify(c[3], c) \/ ReceiveUnmap(c[3], c)
  \/ ReceiveAsk(c[3], c) \/ ReceiveDevice(c[3], c)

Next ==
  \/ Tick
  \/ \E p \in P : Create(p) \/ Edit(p) \/ Release(p)
                    \/ Housekeeping(p) \/ Cleanup(p)
  \/ \E c \in Channel : Receive(c) \/ Lose(c)

Fairness ==
  /\ WF_vars(Tick)
  /\ \A p \in P : WF_vars(Housekeeping(p)) /\ WF_vars(Cleanup(p))
  /\ \A c \in Channel : WF_vars(Receive(c))

Spec == Init /\ [][Next]_vars
FairSpec == Spec /\ Fairness
=============================================================================
