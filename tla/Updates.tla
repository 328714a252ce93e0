------------------------------ MODULE Updates ------------------------------
(***************************************************************************)
(* The way of a value from the signal a program sets to the signals that   *)
(* maps connect it with (signal.c: process_maps, mpr_sig_osc_handler;      *)
(* map.c: mpr_map_process; device.c: process_maps; link.c: the bundles).   *)
(*                                                                         *)
(* Setting a signal only marks maps and prepares messages.  When the time  *)
(* of its device goes on, all the maps of the process are evaluated, their *)
(* messages are put into the bundles of links, the bundles are sent, or    *)
(* handed to the signal itself inside of a process, and all messages are   *)
(* cleared.  Handlers of the program run in the middle of this and may set *)
(* signals.  The nested calls of a process are its stack of frames, and a  *)
(* step is the work of the frame on top.                                   *)
(*                                                                         *)
(* Signals have one instance here (see Instances for several).  A value is *)
(* a count of updates, and an expression adds up its sources, so that a    *)
(* value tells which updates went into it.                                 *)
(***************************************************************************)
EXTENDS Naturals, Sequences, FiniteSets, SequencesExt, Functions

CONSTANTS
  Proc, Dev, Sig, Map,
  ProcOf,      \* the process of a device
  DevOf,       \* the device of a signal
  Srcs,        \* the sources of a map, a sequence of signals
  Dst,         \* its destination, an input
  Loc,         \* where it is evaluated: "src" or "dst"
  MapOrder,    \* the maps, in the order of the list of the graph
  LinkOrder,   \* the links (sets of one or two devices), in their order
  Sets,        \* the signals that the handler of a signal sets
  Refresh,     \* signals whose handler calls mpr_dev_update_maps
  MaxUpdates   \* bound: updates of a signal by the program; 0 for most

Ends(m) == {DevOf[Srcs[m][i]] : i \in DOMAIN Srcs[m]} \cup {DevOf[Dst[m]]}
OneSrc(m) == \A i, j \in DOMAIN Srcs[m] : DevOf[Srcs[m][i]] = DevOf[Srcs[m][j]]
LocalOnly(l) == \A d, e \in l : ProcOf[d] = ProcOf[e]

(* mpr_local_map_init: sources of several devices meet at the destination. *)
ASSUME TopologyAssumption ==
  /\ \A m \in Map : /\ Loc[m] = "src" => OneSrc(m)
                    /\ LocalOnly(Ends(m)) => Loc[m] = "src"
                    /\ Dst[m] \notin {Srcs[m][i] : i \in DOMAIN Srcs[m]}
  /\ \A m \in Map : \A i \in DOMAIN Srcs[m] :
       \E k \in DOMAIN LinkOrder : LinkOrder[k] = {DevOf[Srcs[m][i]], DevOf[Dst[m]]}

VARIABLES
  value,    \* value of each signal; 0: none
  touched,  \* signals set since they were last updated from outside
  slotVal,  \* value of each source slot of a map, where it is evaluated
  due,      \* maps marked as updated
  msgs,     \* values in the message of each slot; slot 0 is the destination
  sending,  \* maps whose destination slot has its message in a bundle
  updated,  \* what was updated on a device: subset of {"in", "out"}
  locked,   \* devices that are processing maps
  stale,    \* devices whose time is that of the last poll
  bundle,   \* link, index and receiving device -> slots with messages
  idx,      \* the bundle of a link that is being filled
  net,      \* bundles on their way to a device
  stack     \* frames of a process, the innermost first

vars == <<value, touched, slotVal, due, msgs, sending, updated, locked, stale,
          bundle, idx, net, stack>>

-----------------------------------------------------------------------------
Local(p, m) == \E d \in Ends(m) : ProcOf[d] = p
MapsOf(p) == SelectSeq(MapOrder, LAMBDA m : Local(p, m))
LinksOf(p) == SelectSeq(LinkOrder, LAMBDA l : \E d \in l : ProcOf[d] = p)
DevsOf(p) == SetToSeq({d \in Dev : ProcOf[d] = p})

Slots(m) == 0 .. Len(Srcs[m])

(* Whose messages those of slot i are; slot 0 is only used at the source. *)
Owner(m, i) == ProcOf[DevOf[Srcs[m][IF i = 0 THEN 1 ELSE i]]]

(* The link of the destination slot at process p: that of the last source  *)
(* there.                                                                  *)
LinkOf(p, m) ==
  LET i == CHOOSE i \in DOMAIN Srcs[m] :
             /\ ProcOf[DevOf[Srcs[m][i]]] = p
             /\ \A j \in DOMAIN Srcs[m] : ProcOf[DevOf[Srcs[m][j]]] = p => j <= i
  IN  {DevOf[Srcs[m][i]], DevOf[Dst[m]]}

EvaluatedAt(p, m) ==
  IF Loc[m] = "dst" THEN ProcOf[DevOf[Dst[m]]] = p ELSE ProcOf[DevOf[Srcs[m][1]]] = p

Sum(vals) == FoldLeft(LAMBDA a, b : a + b, 0, vals)

(* mpr_expr_eval: no result before all sources have a value. *)
Evaluates(m) == \A i \in DOMAIN Srcs[m] : slotVal[m][i] > 0

(* Calls.  A frame is replaced by what remains of it and what it calls.    *)
Top(p) == Head(stack[p])
Then(p, frames) == stack' = [stack EXCEPT ![p] = frames \o Tail(@)]

-----------------------------------------------------------------------------
(* process_maps of a signal, where it has a value: maps evaluated here get *)
(* it and are marked; for the others it is appended to a message.          *)
OutSlots(s) == UNION {{<<m, i>> : i \in {k \in DOMAIN Srcs[m] : Srcs[m][k] = s}} : m \in Map}

ProcessMapsMarking(s, val) ==     \* mistake: the device is not told
  /\ slotVal' = [m \in Map |-> [i \in DOMAIN Srcs[m] |->
                   IF <<m, i>> \in OutSlots(s) /\ Loc[m] = "src" THEN val
                   ELSE slotVal[m][i]]]
  /\ due' = due \cup {m \in Map : Loc[m] = "src" /\ \E x \in OutSlots(s) : x[1] = m}
  /\ msgs' = [m \in Map |-> [i \in Slots(m) |->
                IF <<m, i>> \in OutSlots(s) /\ Loc[m] = "dst" THEN Append(msgs[m][i], val)
                ELSE msgs[m][i]]]
  /\ UNCHANGED updated

ProcessMaps(s, val) ==
  /\ slotVal' = [m \in Map |-> [i \in DOMAIN Srcs[m] |->
                   IF <<m, i>> \in OutSlots(s) /\ Loc[m] = "src" THEN val
                   ELSE slotVal[m][i]]]
  /\ due' = due \cup {m \in Map : Loc[m] = "src" /\ \E x \in OutSlots(s) : x[1] = m}
  /\ msgs' = [m \in Map |-> [i \in Slots(m) |->
                IF <<m, i>> \in OutSlots(s) /\ Loc[m] = "dst" THEN Append(msgs[m][i], val)
                ELSE msgs[m][i]]]
  /\ updated' = [updated EXCEPT ![DevOf[s]] = IF OutSlots(s) = {} THEN @ ELSE @ \cup {"out"}]

NoProcessMaps == UNCHANGED <<slotVal, due, msgs, updated>>

-----------------------------------------------------------------------------
(* mpr_dev_set_time and mpr_dev_update_maps, up to process_maps: unless the *)
(* device is at it already, what was marked as updated is handled, for     *)
(* every map of the process.                                               *)
SetTimeForgetting(p, d, rest) ==     \* mistake: what came in is not looked at
  /\ stale' = stale \ {d}
  /\ IF d \in locked \/ "out" \notin updated[d]
     THEN UNCHANGED <<locked, updated>> /\ Then(p, rest)
     ELSE /\ locked' = locked \cup {d}
          /\ updated' = [updated EXCEPT ![d] = {}]
          /\ Then(p, <<[op |-> "maps", dev |-> d, out |-> TRUE, todo |-> MapsOf(p)]>> \o rest)
  /\ UNCHANGED <<value, touched, slotVal, due, msgs, sending, bundle, idx, net>>

SetTime(p, d, rest) ==
  /\ stale' = stale \ {d}
  /\ IF d \in locked \/ updated[d] = {}
     THEN UNCHANGED <<locked, updated>> /\ Then(p, rest)
     ELSE /\ locked' = locked \cup {d}
          /\ updated' = [updated EXCEPT ![d] = {}]
          /\ Then(p, <<[op |-> "maps", dev |-> d, out |-> "out" \in updated[d],
                        todo |-> MapsOf(p)]>> \o rest)
  /\ UNCHANGED <<value, touched, slotVal, due, msgs, sending, bundle, idx, net>>

(* mpr_dev_update_maps *)
UpdateMaps(p) == Top(p).op = "update" /\ SetTime(p, Top(p).dev, <<>>)

(* mpr_sig_set_value: the time of the device is asked first. *)
SetValue(p) ==
  LET f == Top(p)
      d == DevOf[f.sig]
  IN  /\ f.op = "set"
      /\ IF d \in stale THEN SetTime(p, d, <<f>>)
         ELSE /\ value' = [value EXCEPT ![f.sig] = f.val]
              /\ touched' = touched \cup {f.sig}
              /\ ProcessMaps(f.sig, f.val)
              /\ Then(p, <<>>)
              /\ UNCHANGED <<sending, locked, stale, bundle, idx, net>>

(* mpr_sig_call_handler: the handler sets other signals to the value, and  *)
(* may ask for maps to be processed.                                       *)
Handler(p) ==
  LET f == Top(p)
  IN  /\ f.op = "handler"
      /\ Then(p, [k \in DOMAIN Sets[f.sig] |->
                    [op |-> "set", sig |-> Sets[f.sig][k], val |-> value[f.sig]]]
                 \o IF f.sig \in Refresh THEN <<[op |-> "update", dev |-> DevOf[f.sig]]>>
                    ELSE <<>>)
      /\ UNCHANGED <<value, touched, slotVal, due, msgs, sending, updated, locked, stale,
                     bundle, idx, net>>

(* What arrived, and was not replaced by the handler, is passed on. *)
PassOn(p) ==
  LET f == Top(p)
  IN  /\ f.op = "pass"
      /\ IF f.sig \notin touched THEN ProcessMaps(f.sig, value[f.sig]) ELSE NoProcessMaps
      /\ Then(p, <<>>)
      /\ UNCHANGED <<value, touched, sending, locked, stale, bundle, idx, net>>

(* A value from a map: it is stored, and the handler is called. *)
Arrives(s, val) ==
  /\ value' = [value EXCEPT ![s] = val]
  /\ touched' = touched \ {s}

(* mpr_sig_call_handler, and the forwarding that follows it in handler_sig *)
Called(s) == <<[op |-> "handler", sig |-> s], [op |-> "pass", sig |-> s]>>

-----------------------------------------------------------------------------
(* mpr_map_process, for the first map of the frame                         *)

(* mpr_link_add_msg *)
Added(p, m, slots) ==
  LET l == LinkOf(p, m)
      d == DevOf[Dst[m]]
  IN  bundle' = [bundle EXCEPT ![l][idx[l]][d] = @ \o [k \in DOMAIN slots |-> <<m, slots[k]>>]]

Remaining(f) == [f EXCEPT !.todo = Tail(@)]

(* The other end evaluates: messages of the sources are forwarded. *)
Forward(p, m, f) ==
  LET full == SelectSeq([i \in DOMAIN Srcs[m] |-> i],
                        LAMBDA i : ProcOf[DevOf[Srcs[m][i]]] = p /\ msgs[m][i] # <<>>)
  IN  /\ ~EvaluatedAt(p, m)
      /\ IF full # <<>> THEN Added(p, m, full) ELSE UNCHANGED bundle
      /\ Then(p, <<Remaining(f)>>)
      /\ UNCHANGED <<value, touched, slotVal, due, msgs, sending, updated, locked, stale,
                     idx, net>>

Skip(p, m, f) ==
  /\ EvaluatedAt(p, m) /\ m \notin due
  /\ Then(p, <<Remaining(f)>>)
  /\ UNCHANGED <<value, touched, slotVal, due, msgs, sending, updated, locked, stale,
                 bundle, idx, net>>

(* Evaluated at the source: the result is a message of the destination     *)
(* slot, which goes into a bundle unless it is in one (sending).           *)
EvaluateAtSource(p, m, f) ==
  LET result == IF Evaluates(m) THEN <<Sum(slotVal[m])>> ELSE <<>>
      all == msgs[m][0] \o result
  IN  /\ EvaluatedAt(p, m) /\ m \in due /\ Loc[m] = "src"
      /\ msgs' = [msgs EXCEPT ![m][0] = all]
      /\ IF all # <<>> /\ m \notin sending
         THEN sending' = sending \cup {m} /\ Added(p, m, <<0>>)
         ELSE UNCHANGED <<sending, bundle>>
      /\ due' = due \ {m}
      /\ Then(p, <<Remaining(f)>>)
      /\ UNCHANGED <<value, touched, slotVal, updated, locked, stale, idx, net>>

(* Evaluated at the destination: mpr_local_sig_set_inst_value.  The map is *)
(* only unmarked after the handler has returned.                           *)
EvaluateAtDestination(p, m, f) ==
  /\ EvaluatedAt(p, m) /\ m \in due /\ Loc[m] = "dst"
  /\ IF Evaluates(m)
     THEN /\ Arrives(Dst[m], Sum(slotVal[m]))
          /\ Then(p, Called(Dst[m]) \o <<[op |-> "unmark", map |-> m], Remaining(f)>>)
          /\ UNCHANGED due
     ELSE /\ due' = due \ {m}
          /\ Then(p, <<Remaining(f)>>)
          /\ UNCHANGED <<value, touched>>
  /\ UNCHANGED <<slotVal, msgs, sending, updated, locked, stale, bundle, idx, net>>

Unmark(p) ==
  LET f == Top(p)
  IN  /\ f.op = "unmark"
      /\ due' = due \ {f.map}
      /\ Then(p, <<>>)
      /\ UNCHANGED <<value, touched, slotVal, msgs, sending, updated, locked, stale,
                     bundle, idx, net>>

MapProcess(p) ==
  LET f == Top(p)
      m == Head(f.todo)
  IN  /\ f.op = "maps" /\ f.todo # <<>>
      /\ \/ Forward(p, m, f) \/ Skip(p, m, f)
         \/ EvaluateAtSource(p, m, f) \/ EvaluateAtDestination(p, m, f)

(* After the maps of the device come the links, if something was sent. *)
MapsDone(p) ==
  LET f == Top(p)
  IN  /\ f.op = "maps" /\ f.todo = <<>>
      /\ Then(p, <<[op |-> "links", dev |-> f.dev,
                    todo |-> IF f.out THEN LinksOf(p) ELSE <<>>]>>)
      /\ UNCHANGED <<value, touched, slotVal, due, msgs, sending, updated, locked, stale,
                     bundle, idx, net>>

-----------------------------------------------------------------------------
(* mpr_link_process_bundles.  What is added meanwhile goes into the other  *)
(* bundle.                                                                 *)

(* mpr_link_process_bundles switches to the other one of two bundles. *)
Flip(l) == 1 - idx[l]

EmptyBundle(l) == [d \in l |-> <<>>]

Contents(l, k, d) ==
  [j \in DOMAIN bundle[l][k][d] |->
     LET x == bundle[l][k][d][j]
     IN  [map |-> x[1], slot |-> x[2], vals |-> msgs[x[1]][x[2]]]]

(* To another process: the messages are written out. *)
SendBundle(p) ==
  LET f == Top(p)
      l == Head(f.todo)
      k == idx[l]
      peer == CHOOSE d \in l : ProcOf[d] # p
  IN  /\ f.op = "links" /\ f.todo # <<>> /\ ~LocalOnly(l)
      /\ idx' = [idx EXCEPT ![l] = Flip(l)]
      /\ net' = [net EXCEPT ![peer] = IF bundle[l][k][peer] = <<>> THEN @
                                      ELSE Append(@, Contents(l, k, peer))]
      /\ bundle' = [bundle EXCEPT ![l][k] = EmptyBundle(l)]
      /\ Then(p, <<Remaining(f)>>)
      /\ UNCHANGED <<value, touched, slotVal, due, msgs, sending, updated, locked, stale>>

(* Inside of the process: the handler of the signal is called for each. *)
DispatchBundle(p) ==
  LET f == Top(p)
      l == Head(f.todo)
      lane(d) == [op |-> "lane", link |-> l, k |-> idx[l], dev |-> d, j |-> 1,
                  count |-> Len(bundle[l][idx[l]][d])]
  IN  /\ f.op = "links" /\ f.todo # <<>> /\ LocalOnly(l)
      /\ idx' = [idx EXCEPT ![l] = Flip(l)]
      /\ Then(p, [i \in 1 .. Cardinality(l) |-> lane(SetToSeq(l)[i])] \o <<Remaining(f)>>)
      /\ UNCHANGED <<value, touched, slotVal, due, msgs, sending, updated, locked, stale,
                     bundle, net>>

Lane(p) ==
  LET f == Top(p)
      x == bundle[f.link][f.k][f.dev][f.j]
  IN  /\ f.op = "lane"
      /\ IF f.j <= f.count
         THEN /\ Then(p, <<[op |-> "recv", map |-> x[1], slot |-> x[2],
                            vals |-> msgs[x[1]][x[2]]], [f EXCEPT !.j = @ + 1]>>)
              /\ UNCHANGED bundle
         ELSE /\ bundle' = [bundle EXCEPT ![f.link][f.k][f.dev] = <<>>]
              /\ Then(p, <<>>)
      /\ UNCHANGED <<value, touched, slotVal, due, msgs, sending, updated, locked, stale,
                     idx, net>>

(* mpr_map_clear_slot_msgs for every map, and the end of process_maps. *)
ClearMsgs(p) ==
  LET f == Top(p)
  IN  /\ f.op = "links" /\ f.todo = <<>>
      /\ msgs' = [m \in Map |-> [i \in Slots(m) |->
                    IF Owner(m, i) = p THEN <<>> ELSE msgs[m][i]]]
      /\ sending' = {m \in sending : Owner(m, 0) # p}
      /\ locked' = locked \ {f.dev}
      /\ Then(p, <<>>)
      /\ UNCHANGED <<value, touched, slotVal, due, updated, stale, bundle, idx, net>>

-----------------------------------------------------------------------------
(* mpr_sig_osc_handler: a message has one value or several.  One for a     *)
(* slot marks its map, after the time of the device was asked.             *)
Receive(p) ==
  LET f == Top(p)
      s == Dst[f.map]
      d == DevOf[s]
      rest == [f EXCEPT !.vals = Tail(@)]
  IN  /\ f.op = "recv"
      /\ \/ /\ f.vals = <<>>
            /\ Then(p, <<>>)
            /\ NoProcessMaps
            /\ UNCHANGED <<value, touched, sending, locked, stale, bundle, idx, net>>
         \/ /\ f.vals # <<>> /\ f.slot > 0 /\ d \in stale
            /\ SetTime(p, d, <<f>>)
         \/ /\ f.vals # <<>> /\ f.slot > 0 /\ d \notin stale
            /\ slotVal' = [slotVal EXCEPT ![f.map][f.slot] = Head(f.vals)]
            /\ due' = due \cup {f.map}
            /\ updated' = [updated EXCEPT ![d] = @ \cup {"in"}]
            /\ Then(p, <<rest>>)
            /\ UNCHANGED <<value, touched, msgs, sending, locked, stale, bundle, idx, net>>
         \/ /\ f.vals # <<>> /\ f.slot = 0
            /\ Arrives(s, Head(f.vals))
            /\ Then(p, Called(s) \o <<rest>>)
            /\ NoProcessMaps
            /\ UNCHANGED <<sending, locked, stale, bundle, idx, net>>

-----------------------------------------------------------------------------
(* mpr_net_poll_internal: the time of each device goes on, a bundle is     *)
(* received if there is one, and then times are stale.                     *)

PollDevices(p) ==
  LET f == Top(p)
      d == Head(f.todo)
  IN  /\ f.op = "poll" /\ f.todo # <<>>
      /\ SetTime(p, d, <<Remaining(f)>>)

PollReceives(p) ==
  LET f == Top(p)
      waiting == {d \in Dev : ProcOf[d] = p /\ net[d] # <<>>}
      received(d) == [j \in DOMAIN Head(net[d]) |->
                        [op |-> "recv", map |-> Head(net[d])[j].map,
                         slot |-> Head(net[d])[j].slot, vals |-> Head(net[d])[j].vals]]
  IN  /\ f.op = "poll" /\ f.todo = <<>>
      /\ \/ /\ waiting = {} /\ Then(p, <<[op |-> "stale"]>>) /\ UNCHANGED net
         \/ \E d \in waiting : /\ Then(p, received(d) \o <<[op |-> "stale"]>>)
                               /\ net' = [net EXCEPT ![d] = Tail(@)]
      /\ UNCHANGED <<value, touched, slotVal, due, msgs, sending, updated, locked, stale,
                     bundle, idx>>

(* mpr_dev_update_subscribers *)
PollEnds(p) ==
  LET f == Top(p)
  IN  /\ f.op = "stale"
      /\ stale' = stale \cup {d \in Dev : ProcOf[d] = p}
      /\ Then(p, <<>>)
      /\ UNCHANGED <<value, touched, slotVal, due, msgs, sending, updated, locked,
                     bundle, idx, net>>

-----------------------------------------------------------------------------
(* What the program calls when nothing of the library runs.                *)

Calls(p, frame) ==
  /\ stack' = [stack EXCEPT ![p] = <<frame>>]
  /\ UNCHANGED <<value, touched, slotVal, due, msgs, sending, updated, locked, stale,
                 bundle, idx, net>>

ProgramSets(p) ==
  \E s \in Sig :
    /\ ProcOf[DevOf[s]] = p /\ value[s] < MaxUpdates[s]
    /\ Calls(p, [op |-> "set", sig |-> s, val |-> value[s] + 1])

ProgramUpdates(p) == \E d \in Dev : ProcOf[d] = p /\ Calls(p, [op |-> "update", dev |-> d])

Poll(p) == Calls(p, [op |-> "poll", todo |-> DevsOf(p)])

Work(p) ==
  /\ stack[p] # <<>>
  /\ \/ SetValue(p) \/ UpdateMaps(p) \/ Handler(p) \/ PassOn(p)
     \/ MapProcess(p) \/ Unmark(p) \/ MapsDone(p)
     \/ SendBundle(p) \/ DispatchBundle(p) \/ Lane(p) \/ ClearMsgs(p)
     \/ Receive(p)
     \/ PollDevices(p) \/ PollReceives(p) \/ PollEnds(p)

Init ==
  /\ value = [s \in Sig |-> 0] /\ touched = {}
  /\ slotVal = [m \in Map |-> [i \in DOMAIN Srcs[m] |-> 0]]
  /\ due = {} /\ msgs = [m \in Map |-> [i \in Slots(m) |-> <<>>]] /\ sending = {}
  /\ updated = [d \in Dev |-> {}] /\ locked = {} /\ stale = Dev
  /\ bundle = [l \in Range(LinkOrder) |-> [k \in {0, 1} |-> EmptyBundle(l)]]
  /\ idx = [l \in Range(LinkOrder) |-> 0]
  /\ net = [d \in Dev |-> <<>>]
  /\ stack = [p \in Proc |-> <<>>]

(* Processes share nothing but the network, to which one appends and from  *)
(* which the other takes: their steps commute, and one call is made at a   *)
(* time.                                                                   *)
Idle == \A p \in Proc : stack[p] = <<>>

Next ==
  \/ Idle /\ \E p \in Proc : ProgramSets(p) \/ ProgramUpdates(p) \/ Poll(p)
  \/ \E p \in Proc : Work(p)

(* Every program polls again and again, and its calls return. *)
Fairness ==
  /\ WF_vars(\E p \in Proc : Work(p))
  /\ \A p \in Proc : SF_vars(Idle /\ Poll(p))

Spec == Init /\ [][Next]_vars /\ Fairness
=============================================================================
