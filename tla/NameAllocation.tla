--------------------------- MODULE NameAllocation ---------------------------
(***************************************************************************)
(* Allocation of device names (src/src/device.c, src/src/network.c).       *)
(*                                                                         *)
(* Every libmapper device is called <prefix>.<ordinal>.  Devices that      *)
(* share a prefix agree on their ordinals over an unacknowledged UDP       *)
(* multicast bus: a device multicasts a /name/probe for the ordinal it     *)
(* would like, counts the collisions it hears of, and locks the ordinal    *)
(* when a quiet period has gone by.  A device that already holds the name, *)
(* or that probes it with a smaller random id, answers /name/registered    *)
(* with a hint: another ordinal to try.                                    *)
(*                                                                         *)
(* One device per process, all with the same prefix, so that a name is an  *)
(* ordinal.  Time is counted in ticks; a difference between two clock      *)
(* readings is kept as an age that saturates where no test tells it apart. *)
(***************************************************************************)
EXTENDS Naturals, Integers, FiniteSets

CONSTANTS
  Dev,          \* the devices (one per process) that share a name prefix
  RandomIds,    \* the values rand() may give mpr_net.random_id
  NumHints,     \* slots of ordinal_allocator.hints (8 in the code)
  MaxOrdinal,   \* bound: ordinals tried
  MaxCollisions,\* bound: collisions counted (further ones count no more)
  Settle,       \* 0.25 s in ticks: contested names are left after this long
  Quiet,        \* 1 s in ticks: an uncontested name is locked after this long
  HintLife,     \* 2 s in ticks: how long a suggested ordinal stays reserved
  Offline,      \* 5 s in ticks: the probe is repeated if it never came back
  Observers,    \* devices whose graph keeps records of other devices
  RemoteFirst,  \* those of them whose records precede their own device
  MaxDepartures, \* bound: times a device leaves or crashes
  MaxFaults     \* bound: datagrams lost, and changes of interface

ASSUME DevAssumption == Observers \subseteq Dev /\ RemoteFirst \subseteq Observers
ASSUME RandomIdsAssumption == RandomIds \subseteq Nat /\ RandomIds # {}
ASSUME BoundsAssumption ==
  /\ MaxCollisions \in Nat /\ MaxCollisions >= 2
  /\ NumHints \in Nat /\ MaxOrdinal \in Nat \ {0}
  /\ MaxDepartures \in Nat /\ MaxFaults \in Nat
ASSUME TimesAssumption ==
  /\ {Settle, Quiet, HintLife, Offline} \subseteq Nat \ {0}
  /\ Settle <= Quiet /\ Quiet <= Offline

VARIABLES
  up,               \* the device exists and its process listens on the bus
  val,              \* ordinal_allocator.val: the ordinal probed or held
  collision_count,  \* ordinal_allocator.collision_count
  count_age,        \* time since ordinal_allocator.count_time
  hints,            \* ordinal_allocator.hints
  locked,           \* ordinal_allocator.locked
  online,           \* ordinal_allocator.online: an own probe came back
  registered,       \* mpr_local_dev.registered
  random_id,        \* mpr_net.random_id
  known,            \* ordinals of the remote devices in the process's graph
  bus,              \* datagrams multicast and not yet received
  departures,       \* devices that left so far
  faults            \* faults so far

allocator == <<val, collision_count, count_age, hints, locked, online>>
vars == <<up, allocator, registered, random_id, known, bus, departures, faults>>

-----------------------------------------------------------------------------
(* Types *)

Ordinal == 1 .. (MaxOrdinal + NumHints + 1)
Slot    == 0 .. (NumHints - 1)
Free    == -2    \* hints[i] = 0: never suggested, or given back by a logout
Taken   == -1    \* hints[i] = -1: somebody registered it
HintAge == 0 .. (HintLife + 1)   \* hints[i] > 0: time since it was suggested

NoId   == -1     \* the temp_id of a /name/registered without id and hint
NoHint == 0

Datagram == [type : {"probe", "registered", "logout"}, name : Ordinal,
             temp_id : RandomIds \cup {NoId}, hint : Ordinal \cup {NoHint},
             src : Dev, dst : Dev]

-----------------------------------------------------------------------------
(* The bus: one copy for every process that listens, the sender's included *)

Multicast(type, name, temp_id, hint, src, listeners) ==
  {[type |-> type, name |-> name, temp_id |-> temp_id, hint |-> hint,
    src |-> src, dst |-> e] : e \in listeners}

Listening == {e \in Dev : up[e]}

Probes(d, name, id, listeners) == Multicast("probe", name, id, NoHint, d, listeners)

Replies(d, name, id, hint) == Multicast("registered", name, id, hint, d, Listening)

-----------------------------------------------------------------------------
(* Pieces of the allocator *)

NoHints == [i \in Slot |-> Free]

(* mpr_local_dev_probe_name: try ordinal n, whatever happened before, and  *)
(* leave the datagrams in rest on the bus.                                 *)
ProbeName(d, n, id, listeners, rest) ==
  /\ val' = [val EXCEPT ![d] = n]
  /\ collision_count' = [collision_count EXCEPT ![d] = 0]
  /\ count_age' = [count_age EXCEPT ![d] = 0]
  /\ hints' = [hints EXCEPT ![d] = NoHints]
  /\ bus' = rest \cup Probes(d, n, id, listeners)

CountOn(n, bound) == n + 1     \* mistake: an age that never saturates

UpTo(n, bound) == IF n < bound THEN n + 1 ELSE n

(* One more contender for the name was heard of. *)
CountCollision(d) ==
  /\ collision_count' = [collision_count EXCEPT ![d] = UpTo(@, MaxCollisions)]
  /\ count_age' = [count_age EXCEPT ![d] = 0]

(* i is where a scan of the slots for P stops: in P, or past the last slot. *)
StopsAt(i, P) ==
  /\ i = NumHints \/ i \in P
  /\ \A j \in P : i <= j

Offerable(d) == {i \in Slot : hints[d][i] = Free \/ hints[d][i] > HintLife}
Unhinted(d)  == {i \in Slot : hints[d][i] = Free}

SetSlot(h, i, v) == [j \in Slot |-> IF j = i THEN v ELSE h[j]]

-----------------------------------------------------------------------------
(* A device is created, and mpr_net_add_dev probes ordinal 1 *)

Join(d) ==
  /\ ~up[d]
  /\ up' = [up EXCEPT ![d] = TRUE]
  /\ \E id \in RandomIds :
       /\ random_id' = [random_id EXCEPT ![d] = id]
       /\ ProbeName(d, 1, id, Listening \cup {d}, bus)
  /\ UNCHANGED <<locked, online, registered, known, departures, faults>>

-----------------------------------------------------------------------------
(* check_registration, called on every poll: what check_collisions says *)

ReprobeOnline(d) ==     \* mistake: asks again only if the bus was seen to work
  /\ up[d] /\ ~registered[d] /\ ~locked[d]
  /\ online[d] /\ count_age[d] >= Offline
  /\ ProbeName(d, val[d], random_id[d], Listening, bus)
  /\ UNCHANGED <<up, locked, online, registered, random_id, known, departures, faults>>

(* No own probe ever came back: the bus does not work (yet), ask again. *)
Reprobe(d) ==
  /\ up[d] /\ ~registered[d] /\ ~locked[d]
  /\ ~online[d] /\ count_age[d] >= Offline
  /\ ProbeName(d, val[d], random_id[d], Listening, bus)
  /\ UNCHANGED <<up, locked, online, registered, random_id, known, departures, faults>>

(* The name is contested: leave for another one, jumping over the ordinals *)
(* suggested to others, a random distance ahead.                           *)
Move(d) ==
  /\ up[d] /\ ~registered[d] /\ ~locked[d]
  /\ online[d] /\ count_age[d] >= Settle /\ collision_count[d] > 1
  /\ \E i \in 0 .. NumHints, r \in 0 .. (collision_count[d] - 1) :
       LET n == val[d] + i + 1 + r
       IN  /\ StopsAt(i, Unhinted(d))
           /\ n <= MaxOrdinal
           /\ ProbeName(d, n, random_id[d], Listening, bus)
  /\ UNCHANGED <<up, locked, online, registered, random_id, known, departures, faults>>

QuietDespiteRival(d) ==     \* mistake: off by one
  online[d] /\ count_age[d] >= Quiet /\ collision_count[d] < 3

QuietName(d) ==
  online[d] /\ count_age[d] >= Quiet /\ collision_count[d] < 2

RegisterContested(d) ==     \* mistake: a contested name is taken
  /\ up[d] /\ ~registered[d]
  /\ locked[d] \/ (online[d] /\ count_age[d] >= Quiet)
  /\ locked' = [locked EXCEPT ![d] = TRUE]
  /\ registered' = [registered EXCEPT ![d] = TRUE]
  /\ bus' = bus \cup Replies(d, val[d], NoId, NoHint)
  /\ UNCHANGED <<up, val, collision_count, count_age, hints, online, random_id,
                 known, departures, faults>>

(* The quiet period went by, or the allocator is locked from before a      *)
(* restart: on_registered, and tell everyone.                              *)
Register(d) ==
  /\ up[d] /\ ~registered[d]
  /\ locked[d] \/ QuietName(d)
  /\ locked' = [locked EXCEPT ![d] = TRUE]
  /\ registered' = [registered EXCEPT ![d] = TRUE]
  /\ bus' = bus \cup Replies(d, val[d], NoId, NoHint)
  /\ UNCHANGED <<up, val, collision_count, count_age, hints, online, random_id,
                 known, departures, faults>>

-----------------------------------------------------------------------------
(* handler_name_probe *)

(* A locked device, and one whose random id is smaller, defends the name   *)
(* and suggests the first ordinal of its block that is not reserved.       *)
Defend(d, m) ==
  /\ locked[d] \/ m.temp_id > random_id[d]
  /\ \E i \in 0 .. NumHints :
       /\ StopsAt(i, Offerable(d))
       /\ hints' = [hints EXCEPT ![d] = SetSlot(@, i, 0)]
       /\ bus' = (bus \ {m})
                   \cup Replies(d, m.name, m.temp_id, val[d] + i + 1)
  /\ UNCHANGED <<val, collision_count, count_age, locked, online>>

(* Any other device counts a collision; its own probe is the first one. *)
Contend(d, m) ==
  /\ ~(locked[d] \/ m.temp_id > random_id[d])
  /\ CountCollision(d)
  /\ online' = [online EXCEPT ![d] = @ \/ m.temp_id = random_id[d]]
  /\ bus' = bus \ {m}
  /\ UNCHANGED <<val, hints, locked>>

(* The probed name is one the graph knows as a remote device. *)
SpeakForRemote(d, m) ==
  /\ bus' = (bus \ {m}) \cup Replies(d, m.name, NoId, NoHint)
  /\ UNCHANGED allocator

(* The record found first decides who answers. *)
SeesRemote(d, n) == n \in known[d] /\ (d \in RemoteFirst \/ val[d] # n)

ReceiveProbe(d, m) ==
  /\ up[d] /\ m \in bus /\ m.dst = d /\ m.type = "probe"
  /\ \/ SeesRemote(d, m.name) /\ SpeakForRemote(d, m)
     \/ ~SeesRemote(d, m.name) /\ m.name = val[d]
          /\ (Defend(d, m) \/ Contend(d, m))
     \/ ~SeesRemote(d, m.name) /\ m.name # val[d]
          /\ bus' = bus \ {m} /\ UNCHANGED allocator
  /\ UNCHANGED <<up, registered, random_id, known, departures, faults>>

-----------------------------------------------------------------------------
(* handler_name_registered, mpr_local_dev_handler_name *)

(* A locked device keeps its block of suggestions up to date: the name is  *)
(* in use, and the hint has just been suggested to somebody.               *)
NoteInBlock(d, m) ==
  LET h == SetSlot(hints[d], m.name - val[d] - 1, Taken)
  IN  IF m.hint = NoHint THEN h ELSE SetSlot(h, m.hint - val[d] - 1, 0)

Suggested(d, m) == m.temp_id = random_id[d] /\ m.hint > 0 /\ m.hint # val[d]

ObeyEverySuggestion(d, m) ==     \* mistake: a locked device follows hints too
  /\ up[d] /\ m \in bus /\ m.dst = d /\ m.type = "registered"
  /\ IF m.name = val[d] /\ Suggested(d, m) /\ m.hint <= MaxOrdinal
     THEN ProbeName(d, m.hint, random_id[d], Listening, bus \ {m})
     ELSE /\ hints' = IF locked[d] THEN [hints EXCEPT ![d] = NoteInBlock(d, m)] ELSE hints
          /\ bus' = bus \ {m}
          /\ UNCHANGED <<val, collision_count, count_age>>
  /\ UNCHANGED <<up, locked, online, registered, random_id, known, departures, faults>>

ReceiveRegistered(d, m) ==
  /\ up[d] /\ m \in bus /\ m.dst = d /\ m.type = "registered"
  /\ \/ /\ locked[d]
        /\ hints' = [hints EXCEPT ![d] = NoteInBlock(d, m)]
        /\ bus' = bus \ {m}
        /\ UNCHANGED <<val, collision_count, count_age>>
     \/ /\ ~locked[d] /\ m.name = val[d] /\ m.temp_id < random_id[d]
        /\ CountCollision(d)
        /\ bus' = bus \ {m}
        /\ UNCHANGED <<val, hints>>
     \/ /\ ~locked[d] /\ m.name = val[d] /\ Suggested(d, m)
        /\ m.hint <= MaxOrdinal
        /\ ProbeName(d, m.hint, random_id[d], Listening, bus \ {m})
     \/ /\ ~locked[d]
        /\ m.name = val[d] => m.temp_id >= random_id[d] /\ ~Suggested(d, m)
        /\ bus' = bus \ {m}
        /\ UNCHANGED <<val, collision_count, count_age, hints>>
  /\ UNCHANGED <<up, locked, online, registered, random_id, known, departures, faults>>

-----------------------------------------------------------------------------
(* Leaving *)

(* Everything the process knew is gone with it. *)
Depart(d) ==
  /\ up[d] /\ departures < MaxDepartures
  /\ departures' = departures + 1
  /\ up' = [up EXCEPT ![d] = FALSE]
  /\ registered' = [registered EXCEPT ![d] = FALSE]
  /\ locked' = [locked EXCEPT ![d] = FALSE]
  /\ online' = [online EXCEPT ![d] = FALSE]
  /\ val' = [val EXCEPT ![d] = 1]
  /\ collision_count' = [collision_count EXCEPT ![d] = 0]
  /\ count_age' = [count_age EXCEPT ![d] = 0]
  /\ hints' = [hints EXCEPT ![d] = NoHints]
  /\ random_id' = [random_id EXCEPT ![d] = 0]
  /\ known' = [known EXCEPT ![d] = {}]
  /\ UNCHANGED faults

(* mpr_dev_free: a registered device says so. *)
Leave(d) ==
  /\ Depart(d)
  /\ bus' = {m \in bus : m.dst # d} \cup
            (IF registered[d]
             THEN Multicast("logout", val[d], NoId, NoHint, d, Listening \ {d})
             ELSE {})

(* The process dies without a word. *)
Crash(d) == Depart(d) /\ bus' = {m \in bus : m.dst # d}

(* handler_logout, mpr_local_dev_handler_logout: drop the record, and let a *)
(* locked device suggest the ordinal again.                                 *)
ReceiveLogout(d, m) ==
  /\ up[d] /\ m \in bus /\ m.dst = d /\ m.type = "logout"
  /\ IF m.name = val[d] /\ ~SeesRemote(d, m.name)
     THEN UNCHANGED <<known, hints>>     \* it names the local device: ignored
     ELSE /\ known' = [known EXCEPT ![d] = @ \ {m.name}]
          /\ hints' = IF locked[d]
                      THEN [hints EXCEPT ![d] = SetSlot(@, m.name - val[d] - 1, Free)]
                      ELSE hints
  /\ bus' = bus \ {m}
  /\ UNCHANGED <<up, val, collision_count, count_age, locked, online, registered,
                 random_id, departures, faults>>

-----------------------------------------------------------------------------
(* Records of remote devices: /sync and /device messages make them, unless *)
(* the local device bears the name, and mpr_graph_housekeeping drops those *)
(* of devices that have been silent.  A graph that the program made before *)
(* its device has its records first.                                       *)

HasGraph(d) == d \in Observers /\ (up[d] \/ d \in RemoteFirst)

Learn(d, e) ==
  /\ HasGraph(d) /\ d # e /\ up[e] /\ registered[e]
  /\ val[e] \notin known[d]
  /\ up[d] => val[d] # val[e]
  /\ known' = [known EXCEPT ![d] = @ \cup {val[e]}]
  /\ UNCHANGED <<up, allocator, registered, random_id, bus, departures, faults>>

Expire(d, n) ==
  /\ n \in known[d]
  /\ ~ \E e \in Dev : up[e] /\ registered[e] /\ val[e] = n
  /\ known' = [known EXCEPT ![d] = @ \ {n}]
  /\ UNCHANGED <<up, allocator, registered, random_id, bus, departures, faults>>

-----------------------------------------------------------------------------
(* Time passes when the bus is quiet: every process polls at least once a  *)
(* tick and a datagram takes less than one.                                *)

Tick ==
  /\ bus = {}
  /\ count_age' = [d \in Dev |-> IF up[d] /\ ~locked[d]
                                 THEN UpTo(count_age[d], Offline) ELSE count_age[d]]
  /\ hints' = [d \in Dev |-> [i \in Slot |->
                 IF hints[d][i] < 0 THEN hints[d][i] ELSE UpTo(hints[d][i], HintLife + 1)]]
  /\ UNCHANGED <<up, val, collision_count, locked, online, registered, random_id,
                 known, bus, departures, faults>>

-----------------------------------------------------------------------------
(* What the network and the program may add *)

(* A datagram is lost on its way to one listener. *)
Lose(m) ==
  /\ m \in bus /\ faults < MaxFaults
  /\ faults' = faults + 1
  /\ bus' = bus \ {m}
  /\ UNCHANGED <<up, allocator, registered, random_id, known, departures>>

(* mpr_graph_set_interface: mpr_net_init opens the bus again and adds the  *)
(* device a second time, which leaves locked and online as they are.       *)
SetInterface(d) ==
  /\ up[d] /\ faults < MaxFaults
  /\ faults' = faults + 1
  /\ registered' = [registered EXCEPT ![d] = FALSE]
  /\ \E id \in RandomIds :
       /\ random_id' = [random_id EXCEPT ![d] = id]
       /\ ProbeName(d, 1, id, Listening, {m \in bus : m.dst # d})
  /\ UNCHANGED <<up, locked, online, known, departures>>

-----------------------------------------------------------------------------
Init ==
  /\ up = [d \in Dev |-> FALSE]
  /\ val = [d \in Dev |-> 1]
  /\ collision_count = [d \in Dev |-> 0]
  /\ count_age = [d \in Dev |-> 0]
  /\ hints = [d \in Dev |-> NoHints]
  /\ locked = [d \in Dev |-> FALSE]
  /\ online = [d \in Dev |-> FALSE]
  /\ registered = [d \in Dev |-> FALSE]
  /\ random_id = [d \in Dev |-> 0]
  /\ known = [d \in Dev |-> {}]
  /\ bus = {}
  /\ departures = 0
  /\ faults = 0

Poll(d)    == Reprobe(d) \/ Move(d) \/ Register(d)
Receive(d) == \E m \in bus :
                ReceiveProbe(d, m) \/ ReceiveRegistered(d, m) \/ ReceiveLogout(d, m)

Next ==
  \/ Tick
  \/ \E d \in Dev : Join(d) \/ Poll(d) \/ Receive(d) \/ Leave(d) \/ Crash(d)
  \/ \E d, e \in Dev : Learn(d, e)
  \/ \E d \in Dev : \E n \in known[d] : Expire(d, n)

NextWithLoss == Next \/ \E m \in bus : Lose(m)

NextWithRestart == Next \/ \E d \in Dev : SetInterface(d)

Fairness ==
  /\ WF_vars(Tick)
  /\ \A d \in Dev : WF_vars(Poll(d)) /\ WF_vars(Receive(d))
  /\ \A d \in Dev : WF_vars(\E n \in known[d] : Expire(d, n))

Spec            == Init /\ [][Next]_vars
FairSpec        == Spec /\ Fairness
SpecWithLoss    == Init /\ [][NextWithLoss]_vars /\ Fairness
SpecWithRestart == Init /\ [][NextWithRestart]_vars
=============================================================================
