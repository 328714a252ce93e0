---------------------------- MODULE Subscription ----------------------------
(***************************************************************************)
(* Subscriptions of graphs to the metadata of a device (src/src/graph.c,   *)
(* src/src/device.c, src/src/network.c).                                   *)
(*                                                                         *)
(* A device announces itself with /sync pings.  A graph that wants to know *)
(* more sends it /subscribe with the kinds of objects it is interested in  *)
(* and a lease; the device keeps the graph in its list of subscribers      *)
(* until the lease runs out, and sends it its state at once and whenever   *)
(* it changes.  The graph renews the leases of the subscriptions it keeps  *)
(* and forgets devices that were silent for too long.                      *)
(*                                                                         *)
(* One remote device, any number of graphs.  Time is counted in ticks;     *)
(* "left" is a deadline minus the present.                                 *)
(***************************************************************************)
EXTENDS Integers, Sequences, FiniteSets, SequencesExt

CONSTANTS
  Graph,             \* the graphs
  Kinds,             \* the kinds of metadata (bits of mpr_type) in use
  FlagSets,          \* combinations of kinds programs subscribe to
  AutosubInterval,   \* lease of a renewed subscription (60 s)
  Buffer,            \* how long before its end it is renewed (10 s)
  Timeout,           \* a device silent for so long is forgotten (10 s)
  TempLeases,        \* leases of the temporary subscriptions programs make
  Rewrites,          \* whether programs set properties to the value they have
  MaxChanges,        \* bound: changes of each kind of the device's metadata
  MaxCalls,          \* bound: subscription calls of all programs
  MaxDepartures,     \* bound: times the device leaves or crashes
  MaxLosses          \* bound: datagrams lost

ASSUME GraphAssumption == "device" \notin Graph
ASSUME KindsAssumption ==
  /\ Kinds \subseteq {"device", "sig_in", "sig_out", "map_in", "map_out"}
  /\ FlagSets \subseteq SUBSET Kinds
ASSUME LeaseAssumption ==
  /\ {AutosubInterval, Buffer, Timeout} \subseteq Nat \ {0}
  /\ Buffer < AutosubInterval /\ TempLeases \subseteq Nat \ {0}
  /\ Rewrites \in BOOLEAN
ASSUME BoundsAssumption == {MaxChanges, MaxCalls, MaxDepartures, MaxLosses} \subseteq Nat

VARIABLES
  \* the graphs
  known,        \* the graph has a record of the device
  synced,       \* time since mpr_dev.synced of that record, or Never
  sub,          \* the graph's mpr_subscription to the device, or NoSub
  autosub,      \* mpr_graph.autosub
  view,         \* the version of each kind of metadata the graph was told
  \* the device
  up,
  version,      \* the version of each kind of metadata
  dirty,        \* kinds changed since the subscribers were last informed
  subscribers,  \* mpr_local_dev.subscribers, head first
  \* the network and the clock
  toDevice,     \* /subscribe and /who requests, per graph
  bus,          \* /sync and /logout multicast to each graph
  mesh,         \* state sent to each graph directly
  due,          \* processes that have yet to poll in this tick
  calls, losses, departures,
  temporary     \* whether a program has made a temporary subscription

graphVars  == <<known, synced, sub, autosub, view>>
deviceVars == <<up, version, dirty, subscribers>>
netVars    == <<toDevice, bus, mesh>>
counters   == <<calls, losses, departures, temporary>>
vars == <<graphVars, deviceVars, netVars, due, counters>>

-----------------------------------------------------------------------------
(* Kinds and the words a /subscribe message names them by *)

Sigs    == {"sig_in", "sig_out"} \cap Kinds
AllSigs == {"sig_in", "sig_out"}
AllMaps == {"map_in", "map_out"}

(* send_subscribe_msg *)
Words(flags) ==
  IF flags = {"device"} \cup AllSigs \cup AllMaps THEN {"all"}
  ELSE {w \in {"device", "signals", "inputs", "outputs",
               "maps", "incoming_maps", "outgoing_maps"} :
          \/ w = "device" /\ "device" \in flags
          \/ w = "signals" /\ AllSigs \subseteq flags
          \/ w = "inputs" /\ AllSigs \cap flags = {"sig_in"}
          \/ w = "outputs" /\ AllSigs \cap flags = {"sig_out"}
          \/ w = "maps" /\ AllMaps \subseteq flags
          \/ w = "incoming_maps" /\ AllMaps \cap flags = {"map_in"}
          \/ w = "outgoing_maps" /\ AllMaps \cap flags = {"map_out"}}

(* handler_subscribe *)
MeaningOf(word) ==
  CASE word = "all"      -> {"device"} \cup AllSigs \cup AllMaps
    [] word = "device"   -> {"device"}
    [] word = "signals"  -> AllSigs
    [] word = "inputs"   -> {"sig_in"}
    [] word = "outputs"  -> {"sig_out"}
    [] word = "maps"     -> AllMaps
    [] word = "maps_in"  -> {"map_in"}
    [] word = "maps_out" -> {"map_out"}
    [] OTHER             -> {}

Parsed(words) == UNION {MeaningOf(w) : w \in words}

-----------------------------------------------------------------------------
(* Messages *)

NoLease == -1
Request(flags, lease) == [type |-> "subscribe", words |-> Words(flags), lease |-> lease]
Who        == [type |-> "who", words |-> {}, lease |-> NoLease]
SyncMsg    == [type |-> "sync"]
LogoutMsg  == [type |-> "logout"]
StateMsg(flags) == [flags |-> flags, version |-> version]

(* Requests to a device that is not there reach nobody. *)
SendRequests(g, ms) == toDevice' = IF up THEN [toDevice EXCEPT ![g] = @ \o ms] ELSE toDevice
SendRequest(g, m)   == SendRequests(g, <<m>>)

ToAll(m) == bus' = [g \in Graph |-> Append(bus[g], m)]

-----------------------------------------------------------------------------
(* The graph's side: mpr_graph_subscribe for a device it has a record of *)

NoSub == [flags |-> {}, left |-> NoLease]
NoView == [k \in Kinds |-> -1]
Never == -1

IsSubscribed(s) == s # NoSub

(* flags and a lease of -1: keep the subscription alive.  Nothing is sent  *)
(* if it exists with these flags already.                                  *)
Autorenewed(flags) == [flags |-> flags, left |-> AutosubInterval - Buffer]

KeepAliveUnasked(g, flags) ==     \* mistake: new kinds are not asked for
  IF sub[g].flags = flags
  THEN UNCHANGED <<sub, toDevice>>
  ELSE /\ sub' = [sub EXCEPT ![g] = Autorenewed(flags)]
       /\ IF IsSubscribed(sub[g]) THEN UNCHANGED toDevice
          ELSE SendRequest(g, Request(flags, AutosubInterval))

KeepAlive(g, flags) ==
  IF sub[g].flags = flags
  THEN UNCHANGED <<sub, toDevice>>
  ELSE /\ sub' = [sub EXCEPT ![g] = Autorenewed(flags)]
       /\ SendRequest(g, Request(flags, AutosubInterval))

(* No flags or no lease: the subscription goes, if there is one.  The      *)
(* device is told in any case.                                             *)
Drop(g) ==
  /\ sub' = [sub EXCEPT ![g] = NoSub]
  /\ SendRequest(g, Request({}, 0))

Subscribe(g, flags, lease) ==
  /\ known[g] /\ calls < MaxCalls
  /\ calls' = calls + 1
  /\ \/ /\ flags = {} \/ (lease = 0 /\ IsSubscribed(sub[g]))
        /\ Drop(g)
        /\ UNCHANGED temporary
     \/ /\ flags # {} /\ lease = NoLease
        /\ KeepAlive(g, flags)
        /\ UNCHANGED temporary
     \/ /\ flags # {} /\ lease >= 0
        /\ ~(lease = 0 /\ IsSubscribed(sub[g]))
        /\ SendRequest(g, Request(flags, lease))
        /\ temporary' = (temporary \/ lease > 0)
        /\ UNCHANGED sub
  /\ UNCHANGED <<known, synced, autosub, view, deviceVars, bus, mesh, due,
                 losses, departures>>

(* autosubscribe: mpr_graph_subscribe without a device.  From one nonempty *)
(* set of flags to another nothing but the flags for new devices changes.  *)
Autosubscribe(g, flags) ==
  /\ calls < MaxCalls /\ flags # autosub[g]
  /\ calls' = calls + 1
  /\ autosub' = [autosub EXCEPT ![g] = flags]
  /\ \/ /\ autosub[g] = {} /\ IsSubscribed(sub[g])
        /\ IF flags \subseteq sub[g].flags
           THEN /\ sub' = [sub EXCEPT ![g].flags = flags]
                /\ SendRequest(g, Who)
           ELSE /\ sub' = [sub EXCEPT ![g] = Autorenewed(flags)]
                /\ SendRequests(g, <<Request(flags, AutosubInterval), Who>>)
     \/ /\ autosub[g] = {} /\ ~IsSubscribed(sub[g])
        /\ SendRequest(g, Who)
        /\ UNCHANGED sub
     \/ /\ autosub[g] # {} /\ flags = {} /\ IsSubscribed(sub[g])
        /\ Drop(g)
     \/ /\ autosub[g] # {} /\ (flags # {} \/ ~IsSubscribed(sub[g]))
        /\ UNCHANGED <<sub, toDevice>>
  /\ UNCHANGED <<known, synced, view, deviceVars, bus, mesh, due, losses,
                 departures, temporary>>

-----------------------------------------------------------------------------
(* mpr_graph_housekeeping, on every poll: the record and the subscription *)
(* of a device that was silent go; otherwise the lease may need renewal.  *)

Forget(g) ==
  /\ known' = [known EXCEPT ![g] = FALSE]
  /\ synced' = [synced EXCEPT ![g] = Never]
  /\ view' = [view EXCEPT ![g] = NoView]

Expired(g) == known[g] /\ synced[g] # Never /\ synced[g] >= Timeout

RenewalDue(g) == IsSubscribed(sub[g]) /\ sub[g].left <= -Timeout

Housekeeping(g) ==
  /\ g \in due
  /\ due' = due \ {g}
  /\ \/ /\ Expired(g)
        /\ Forget(g)
        /\ Drop(g)
     \/ /\ ~Expired(g) /\ RenewalDue(g)
        /\ SendRequest(g, Request(sub[g].flags, AutosubInterval))
        /\ sub' = [sub EXCEPT ![g].left = AutosubInterval - Buffer - Timeout]
        /\ UNCHANGED <<known, synced, view>>
     \/ /\ ~Expired(g) /\ ~RenewalDue(g)
        /\ UNCHANGED <<known, synced, view, sub, toDevice>>
  /\ UNCHANGED <<autosub, deviceVars, bus, mesh, counters>>

-----------------------------------------------------------------------------
(* Messages a graph receives *)

(* mpr_graph_sync_dev *)
ReceiveSync(g) ==
  /\ bus[g] # <<>> /\ Head(bus[g]) = SyncMsg
  /\ bus' = [bus EXCEPT ![g] = Tail(@)]
  /\ IF known[g]
     THEN /\ synced' = [synced EXCEPT ![g] = 0]
          /\ IF ~IsSubscribed(sub[g]) /\ autosub[g] # {}
             THEN KeepAlive(g, autosub[g])
             ELSE UNCHANGED <<sub, toDevice>>
     ELSE /\ IF autosub[g] # {}
             THEN SendRequest(g, Request({"device"}, NoLease))
             ELSE UNCHANGED toDevice
          /\ UNCHANGED <<sub, synced>>
  /\ UNCHANGED <<known, autosub, view, deviceVars, mesh, due, counters>>

(* handler_logout *)
ReceiveLogout(g) ==
  /\ bus[g] # <<>> /\ Head(bus[g]) = LogoutMsg
  /\ bus' = [bus EXCEPT ![g] = Tail(@)]
  /\ IF known[g]
     THEN Drop(g) /\ Forget(g)
     ELSE UNCHANGED <<known, synced, sub, view, toDevice>>
  /\ UNCHANGED <<autosub, deviceVars, mesh, due, counters>>

(* handler_dev followed by handler_sig for the signals in the state.  A    *)
(* /device message counts only if the graph asked for it; a /signal        *)
(* message makes a record of the device whatever the graph asked for, and  *)
(* that record has no synced time.                                         *)
AcceptsKnownDevice(g) == known[g] /\ sub[g].flags # {}   \* mistake: no new devices

AcceptsDevice(g) == autosub[g] # {} \/ (known[g] /\ sub[g].flags # {})

ReceiveState(g) ==
  /\ mesh[g] # <<>>
  /\ mesh' = [mesh EXCEPT ![g] = Tail(@)]
  /\ LET m == Head(mesh[g])
         news == {k \in m.flags : k \in Sigs \/ (k = "device" /\ AcceptsDevice(g))}
     IN  /\ known' = [known EXCEPT ![g] = @ \/ news # {}]
         /\ synced' = IF "device" \in news THEN [synced EXCEPT ![g] = 0] ELSE synced
         /\ view' = [view EXCEPT ![g] =
                       [k \in Kinds |-> IF k \in news THEN m.version[k] ELSE @[k]]]
         /\ IF news # {} /\ ~known[g] /\ autosub[g] # {}
            THEN KeepAlive(g, autosub[g])
            ELSE UNCHANGED <<sub, toDevice>>
  /\ UNCHANGED <<autosub, deviceVars, bus, due, counters>>

-----------------------------------------------------------------------------
(* The device's side *)

Start ==
  /\ ~up
  /\ up' = TRUE
  /\ due' = due \cup {"device"}
  /\ UNCHANGED <<graphVars, version, dirty, subscribers, netVars, counters>>

(* The program changes a property of the device (mpr_obj_set_prop), or     *)
(* adds a signal (mpr_local_dev_add_sig), which is a change of both.       *)
Change(k) ==
  /\ up /\ k \in {"device"} \cup Sigs
  /\ version[k] < MaxChanges
  /\ version' = [version EXCEPT ![k] = @ + 1]
  /\ dirty' = dirty \cup {k, "device"}
  /\ UNCHANGED <<graphVars, up, subscribers, netVars, due, counters>>

(* The program sets a property to the value it has: set_internal stores    *)
(* "not updated" in the one flag the table has for all its properties.     *)
Rewrite ==
  /\ up /\ Rewrites /\ "device" \in dirty
  /\ dirty' = dirty \ {"device"}
  /\ UNCHANGED <<graphVars, up, version, subscribers, netVars, due, counters>>

(* mpr_local_dev_send_to_subscribers: drop those whose lease has run out *)
(* on the way, and send to those interested in one of the kinds.         *)
Valid(s) == s.left >= 0 /\ s.flags # {}
Kept == {i \in DOMAIN subscribers : Valid(subscribers[i])}
Nth(n) == CHOOSE i \in Kept : Cardinality({j \in Kept : j <= i}) = n
Purged == [n \in 1 .. Cardinality(Kept) |-> subscribers[Nth(n)]]
IsInterested(g, kinds) ==
  \E i \in Kept : subscribers[i].graph = g /\ subscribers[i].flags \cap kinds # {}

(* mpr_dev_update_subscribers: properties to those subscribed to devices, *)
(* changed signals to those subscribed to signals of any direction.       *)
NewsForOutputs(g) ==     \* mistake: tests for the wrong direction
  (IF IsInterested(g, {"device"}) THEN dirty \cap {"device"} ELSE {})
    \cup (IF IsInterested(g, {"sig_out"}) THEN dirty \cap Sigs ELSE {})

NewsFor(g) ==
  (IF IsInterested(g, {"device"}) THEN dirty \cap {"device"} ELSE {})
    \cup (IF IsInterested(g, Sigs) THEN dirty \cap Sigs ELSE {})

Inform ==
  /\ up /\ dirty # {} /\ subscribers # <<>>
  /\ subscribers' = Purged
  /\ mesh' = [g \in Graph |-> IF NewsFor(g) # {}
                              THEN Append(mesh[g], StateMsg(NewsFor(g))) ELSE mesh[g]]
  /\ dirty' = {}
  /\ UNCHANGED <<graphVars, up, version, toDevice, bus, due, counters>>

(* mpr_obj_push of the device: to the subscribers, changed or not. *)
Push ==
  /\ up /\ calls < MaxCalls
  /\ calls' = calls + 1
  /\ subscribers' = Purged
  /\ mesh' = [g \in Graph |-> IF IsInterested(g, {"device"})
                              THEN Append(mesh[g], StateMsg({"device"})) ELSE mesh[g]]
  /\ dirty' = dirty \ {"device"}
  /\ UNCHANGED <<graphVars, up, version, toDevice, bus, due, losses, departures, temporary>>

(* mpr_net_maybe_send_ping: to subscribers every 2 s, on the bus every few *)
(* seconds; here both once a tick.                                         *)
Ping ==
  /\ up /\ "device" \in due
  /\ due' = due \ {"device"}
  /\ subscribers' = Purged
  /\ ToAll(SyncMsg)
  /\ UNCHANGED <<graphVars, up, version, dirty, toDevice, mesh, counters>>

(* mpr_dev_free and a crash: nobody is told but by the /logout. *)
Gone ==
  /\ up /\ departures < MaxDepartures
  /\ departures' = departures + 1
  /\ up' = FALSE
  /\ subscribers' = <<>>
  /\ dirty' = {}
  /\ toDevice' = [g \in Graph |-> <<>>]
  /\ due' = due \ {"device"}
  /\ UNCHANGED <<graphVars, version, mesh, calls, losses, temporary>>

Logout == Gone /\ ToAll(LogoutMsg)
Crash  == Gone /\ UNCHANGED bus

-----------------------------------------------------------------------------
(* handler_subscribe, mpr_dev_manage_subscriber *)

PositionBeyondHead(g) ==     \* mistake: looks from the second entry on
  {i \in DOMAIN subscribers : i > 1 /\ subscribers[i].graph = g}

PositionOf(g) == {i \in DOMAIN subscribers : subscribers[i].graph = g}

(* "bring subscriber up to date": the properties of the device are sent in *)
(* any case, signals and maps as far as they are new to the receiver.      *)
(* Sending the properties to one clears the flag that they are to be sent  *)
(* to all (mpr_dev_send_state).                                            *)
BringUpToDate(g, flags) ==
  /\ mesh' = [mesh EXCEPT ![g] = Append(@, StateMsg((flags \cup {"device"}) \cap Kinds))]
  /\ dirty' = dirty \ {"device"}

(* An end of the lease with kinds the subscriber did not have: the entry   *)
(* goes, and the state is sent to the subscriber that follows it, if any.  *)
EndLease(g, i, flags) ==
  LET new  == flags \ subscribers[i].flags
      rest == RemoveAt(subscribers, i)
  IN  /\ subscribers' = rest
      /\ IF new = {} THEN UNCHANGED <<mesh, dirty>>
         ELSE BringUpToDate(IF i <= Len(rest) THEN rest[i].graph ELSE g, new)

RenewSilently(g, i, flags, lease) ==     \* mistake: new kinds are not sent
  /\ subscribers' = [subscribers EXCEPT ![i] =
                        [graph |-> g, flags |-> flags, left |-> lease]]
  /\ UNCHANGED <<mesh, dirty>>

Renew(g, i, flags, lease) ==
  LET new == flags \ subscribers[i].flags
  IN  /\ subscribers' = [subscribers EXCEPT ![i] =
                           [graph |-> g, flags |-> flags, left |-> lease]]
      /\ IF new = {} THEN UNCHANGED <<mesh, dirty>> ELSE BringUpToDate(g, new)

Admit(g, flags, lease) ==
  /\ subscribers' = IF lease > 0 /\ flags # {}
                    THEN <<[graph |-> g, flags |-> flags, left |-> lease]>> \o subscribers
                    ELSE subscribers
  /\ IF flags = {} THEN UNCHANGED <<mesh, dirty>> ELSE BringUpToDate(g, flags)

ReceiveRequest(g) ==
  /\ up /\ toDevice[g] # <<>> /\ Head(toDevice[g]).type = "subscribe"
  /\ toDevice' = [toDevice EXCEPT ![g] = Tail(@)]
  /\ LET m == Head(toDevice[g])
         flags == Parsed(m.words)
     IN  \/ /\ m.lease = NoLease \/ PositionOf(g) = {}
            /\ Admit(g, flags, m.lease)
         \/ /\ m.lease >= 0
            /\ \E i \in PositionOf(g) :
                 /\ \A j \in PositionOf(g) : i <= j
                 /\ IF flags = {} \/ m.lease = 0
                    THEN EndLease(g, i, flags)
                    ELSE Renew(g, i, flags, m.lease)
  /\ UNCHANGED <<graphVars, up, version, bus, due, counters>>

(* handler_who *)
ReceiveWho(g) ==
  /\ up /\ toDevice[g] # <<>> /\ Head(toDevice[g]) = Who
  /\ toDevice' = [toDevice EXCEPT ![g] = Tail(@)]
  /\ ToAll(SyncMsg)
  /\ UNCHANGED <<graphVars, deviceVars, mesh, due, counters>>

-----------------------------------------------------------------------------
(* The network may lose what is sent over UDP: requests, pings, logouts. *)
Lose(g) ==
  /\ losses < MaxLosses
  /\ losses' = losses + 1
  /\ \/ /\ toDevice[g] # <<>>
        /\ toDevice' = [toDevice EXCEPT ![g] = Tail(@)]
        /\ UNCHANGED bus
     \/ /\ bus[g] # <<>>
        /\ bus' = [bus EXCEPT ![g] = Tail(@)]
        /\ UNCHANGED toDevice
  /\ UNCHANGED <<graphVars, deviceVars, mesh, due, calls, departures, temporary>>

Quiet == \A g \in Graph : toDevice[g] = <<>> /\ bus[g] = <<>> /\ mesh[g] = <<>>

(* Messages arrive and processes poll within a tick. *)
Tick ==
  /\ Quiet /\ due = {}
  /\ due' = Graph \cup (IF up THEN {"device"} ELSE {})
  /\ synced' = [g \in Graph |-> IF synced[g] = Never \/ synced[g] = Timeout
                                THEN synced[g] ELSE synced[g] + 1]
  /\ sub' = [g \in Graph |-> IF IsSubscribed(sub[g]) THEN [sub[g] EXCEPT !.left = @ - 1]
                                                     ELSE sub[g]]
  /\ subscribers' = [i \in DOMAIN subscribers |-> [subscribers[i] EXCEPT !.left = @ - 1]]
  /\ UNCHANGED <<known, autosub, view, up, version, dirty, netVars, counters>>

-----------------------------------------------------------------------------
Init ==
  /\ known = [g \in Graph |-> FALSE] /\ synced = [g \in Graph |-> Never]
  /\ sub = [g \in Graph |-> NoSub] /\ autosub = [g \in Graph |-> {}]
  /\ view = [g \in Graph |-> NoView]
  /\ up = FALSE /\ version = [k \in Kinds |-> 0] /\ dirty = {} /\ subscribers = <<>>
  /\ toDevice = [g \in Graph |-> <<>>]
  /\ bus = [g \in Graph |-> <<>>] /\ mesh = [g \in Graph |-> <<>>]
  /\ due = {} /\ calls = 0 /\ losses = 0 /\ departures = 0 /\ temporary = FALSE

Call(g) ==
  \/ \E flags \in FlagSets \cup {{}}, lease \in TempLeases \cup {0, NoLease} :
       Subscribe(g, flags, lease)
  \/ \E flags \in FlagSets \cup {{}} : Autosubscribe(g, flags)

ReceiveAtGraph(g) == ReceiveSync(g) \/ ReceiveLogout(g) \/ ReceiveState(g)

ReceiveAtDevice(g) == ReceiveRequest(g) \/ ReceiveWho(g)

Next ==
  \/ Tick \/ Start \/ Rewrite \/ Inform \/ Push \/ Ping \/ Logout \/ Crash
  \/ \E k \in Kinds : Change(k)
  \/ \E g \in Graph :
       Call(g) \/ Housekeeping(g) \/ ReceiveAtGraph(g) \/ ReceiveAtDevice(g) \/ Lose(g)

Fairness ==
  /\ WF_vars(Tick) /\ WF_vars(Ping) /\ WF_vars(Inform)
  /\ \A g \in Graph : /\ WF_vars(Housekeeping(g))
                      /\ WF_vars(ReceiveAtGraph(g)) /\ WF_vars(ReceiveAtDevice(g))

Spec == Init /\ [][Next]_vars
FairSpec == Spec /\ Fairness
=============================================================================
