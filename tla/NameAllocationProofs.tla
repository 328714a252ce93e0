------------------------ MODULE NameAllocationProofs ------------------------
(***************************************************************************)
(* Theorems about NameAllocation, for any number of devices and any choice *)
(* of random ids: registered names are unique as long as the bus delivers  *)
(* within a tick.                                                          *)
(***************************************************************************)
EXTENDS NameAllocationProps, TLAPS

LEMMA Constants_ ==
  /\ MaxOrdinal \in Nat /\ MaxOrdinal >= 1 /\ NumHints \in Nat
  /\ MaxCollisions \in Nat /\ MaxCollisions >= 2
  /\ MaxDepartures \in Nat /\ MaxFaults \in Nat
  /\ Settle \in Nat /\ Quiet \in Nat /\ HintLife \in Nat /\ Offline \in Nat
  /\ Settle >= 1 /\ Quiet >= 1 /\ HintLife >= 1 /\ Offline >= 1
  /\ RandomIds \subseteq Nat
BY BoundsAssumption, TimesAssumption, RandomIdsAssumption

-----------------------------------------------------------------------------
(* Type correctness *)

(* What is multicast is well formed. *)
LEMMA MulticastType ==
  ASSUME NEW type \in {"probe", "registered", "logout"}, NEW name \in Ordinal,
         NEW temp_id \in RandomIds \cup {NoId}, NEW hint \in Ordinal \cup {NoHint},
         NEW src \in Dev, NEW listeners \in SUBSET Dev
  PROVE  Multicast(type, name, temp_id, hint, src, listeners) \subseteq Datagram
BY DEF Multicast, Datagram

(* A probe of an ordinal in range keeps the allocator and the bus typed. *)
LEMMA ProbeNameType ==
  ASSUME TypeOK, NEW d \in Dev, NEW n \in 1 .. MaxOrdinal, NEW id \in RandomIds,
         NEW listeners \in SUBSET Dev, NEW rest \in SUBSET bus,
         ProbeName(d, n, id, listeners, rest)
  PROVE  /\ val' \in [Dev -> 1 .. MaxOrdinal]
         /\ collision_count' \in [Dev -> 0 .. MaxCollisions]
         /\ count_age' \in [Dev -> 0 .. Offline]
         /\ hints' \in [Dev -> [Slot -> {Free, Taken} \cup HintAge]]
         /\ bus' \subseteq Datagram
<1>1. n \in Ordinal
  BY Constants_ DEF Ordinal
<1>2. Probes(d, n, id, listeners) \subseteq Datagram
  BY <1>1, MulticastType DEF Probes, NoHint
<1>3. NoHints \in [Slot -> {Free, Taken} \cup HintAge]
  BY DEF NoHints
<1>4. bus' \subseteq Datagram
  BY <1>2 DEF ProbeName, TypeOK
<1>5. val' \in [Dev -> 1 .. MaxOrdinal]
  BY DEF ProbeName, TypeOK
<1>6. collision_count' \in [Dev -> 0 .. MaxCollisions]
  BY Constants_ DEF ProbeName, TypeOK
<1>7. count_age' \in [Dev -> 0 .. Offline]
  BY Constants_ DEF ProbeName, TypeOK
<1>8. hints' \in [Dev -> [Slot -> {Free, Taken} \cup HintAge]]
  BY <1>3 DEF ProbeName, TypeOK
<1> QED BY <1>4, <1>5, <1>6, <1>7, <1>8

(* Noting something in one slot keeps the slots typed. *)
LEMMA SetSlotType ==
  ASSUME NEW h \in [Slot -> {Free, Taken} \cup HintAge], NEW i,
         NEW v \in {Free, Taken, 0}
  PROVE  SetSlot(h, i, v) \in [Slot -> {Free, Taken} \cup HintAge]
<1>1. v \in {Free, Taken} \cup HintAge
  BY Constants_ DEF HintAge
<1> QED BY <1>1 DEF SetSlot

(* Counting a collision keeps the counter and its clock typed. *)
LEMMA CountCollisionType ==
  ASSUME TypeOK, NEW d \in Dev, CountCollision(d)
  PROVE  /\ collision_count' \in [Dev -> 0 .. MaxCollisions]
         /\ count_age' \in [Dev -> 0 .. Offline]
<1>1. UpTo(collision_count[d], MaxCollisions) \in 0 .. MaxCollisions
  BY Constants_ DEF UpTo, TypeOK
<1>2. collision_count' \in [Dev -> 0 .. MaxCollisions]
  BY <1>1 DEF CountCollision, TypeOK
<1>3. count_age' \in [Dev -> 0 .. Offline]
  BY Constants_ DEF CountCollision, TypeOK
<1> QED BY <1>2, <1>3

LEMMA InitType == Init => TypeOK
<1> SUFFICES ASSUME Init PROVE TypeOK
  OBVIOUS
<1>1. hints \in [Dev -> [Slot -> {Free, Taken} \cup HintAge]]
  BY DEF Init, NoHints
<1>2. val \in [Dev -> 1 .. MaxOrdinal]
  BY Constants_ DEF Init
<1>3. collision_count \in [Dev -> 0 .. MaxCollisions] /\ count_age \in [Dev -> 0 .. Offline]
  BY Constants_ DEF Init
<1>4. departures \in 0 .. MaxDepartures /\ faults \in 0 .. MaxFaults
  BY Constants_ DEF Init
<1> QED BY <1>1, <1>2, <1>3, <1>4 DEF Init, TypeOK

(* What is answered to a probe, and announced, is well formed. *)
LEMMA RepliesType ==
  ASSUME TypeOK, NEW d \in Dev, NEW name \in Ordinal,
         NEW id \in RandomIds \cup {NoId}, NEW hint \in Ordinal \cup {NoHint}
  PROVE  Replies(d, name, id, hint) \subseteq Datagram
BY MulticastType DEF Replies, Listening

LEMMA JoinType == ASSUME TypeOK, NEW d \in Dev, Join(d) PROVE TypeOK'
<1>1. PICK id \in RandomIds :
        /\ random_id' = [random_id EXCEPT ![d] = id]
        /\ ProbeName(d, 1, id, Listening \cup {d}, bus)
  BY DEF Join
<1>2. Listening \cup {d} \in SUBSET Dev /\ 1 \in 1 .. MaxOrdinal
  BY Constants_ DEF Listening
<1>3. /\ val' \in [Dev -> 1 .. MaxOrdinal]
      /\ collision_count' \in [Dev -> 0 .. MaxCollisions]
      /\ count_age' \in [Dev -> 0 .. Offline]
      /\ hints' \in [Dev -> [Slot -> {Free, Taken} \cup HintAge]]
      /\ bus' \subseteq Datagram
  BY <1>1, <1>2, ProbeNameType
<1> QED BY <1>1, <1>3 DEF Join, TypeOK

(* A poll and a hint make a device that is up probe another ordinal. *)
LEMMA ProbeStepType ==
  ASSUME TypeOK, NEW d \in Dev, up[d], random_id[d] \in RandomIds,
         NEW n \in 1 .. MaxOrdinal, NEW rest \in SUBSET bus,
         ProbeName(d, n, random_id[d], Listening, rest),
         UNCHANGED <<up, locked, online, registered, random_id, known, departures, faults>>
  PROVE  TypeOK'
<1>1. Listening \in SUBSET Dev
  BY DEF Listening
<1>2. /\ val' \in [Dev -> 1 .. MaxOrdinal]
      /\ collision_count' \in [Dev -> 0 .. MaxCollisions]
      /\ count_age' \in [Dev -> 0 .. Offline]
      /\ hints' \in [Dev -> [Slot -> {Free, Taken} \cup HintAge]]
      /\ bus' \subseteq Datagram
  BY <1>1, ProbeNameType
<1> QED BY <1>2 DEF TypeOK

-----------------------------------------------------------------------------
(* Devices that are up have drawn a random id; what is not up holds nothing. *)
UpToDate ==
  \A d \in Dev : /\ up[d] => random_id[d] \in RandomIds
                 /\ locked[d] => up[d]
                 /\ registered[d] => locked[d]

Typed == TypeOK /\ UpToDate

LEMMA ReprobeType == ASSUME Typed, NEW d \in Dev, Reprobe(d) PROVE TypeOK'
<1>1. up[d] /\ random_id[d] \in RandomIds /\ val[d] \in 1 .. MaxOrdinal
  BY DEF Reprobe, Typed, UpToDate, TypeOK
<1> QED BY <1>1, ProbeStepType DEF Reprobe, Typed

LEMMA MoveType == ASSUME Typed, NEW d \in Dev, Move(d) PROVE TypeOK'
<1>1. PICK i \in 0 .. NumHints, r \in 0 .. (collision_count[d] - 1) :
        /\ val[d] + i + 1 + r <= MaxOrdinal
        /\ ProbeName(d, val[d] + i + 1 + r, random_id[d], Listening, bus)
  BY DEF Move
<1>2. val[d] + i + 1 + r \in 1 .. MaxOrdinal
  BY <1>1, Constants_ DEF Typed, TypeOK
<1>3. up[d] /\ random_id[d] \in RandomIds
  BY DEF Move, Typed, UpToDate
<1> QED BY <1>1, <1>2, <1>3, ProbeStepType DEF Move, Typed

LEMMA RegisterType == ASSUME Typed, NEW d \in Dev, Register(d) PROVE TypeOK'
<1>1. val[d] \in Ordinal /\ NoId \in RandomIds \cup {NoId} /\ NoHint \in Ordinal \cup {NoHint}
  BY Constants_ DEF Typed, TypeOK, Ordinal
<1>2. Replies(d, val[d], NoId, NoHint) \subseteq Datagram
  BY <1>1, RepliesType DEF Typed
<1> QED BY <1>2 DEF Register, Typed, TypeOK

LEMMA ReceiveProbeType ==
  ASSUME Typed, NEW d \in Dev, NEW m \in bus, ReceiveProbe(d, m)
  PROVE  TypeOK'
<1>1. m \in Datagram /\ m.type = "probe" /\ UNCHANGED <<up, registered, random_id, known, departures, faults>>
  BY DEF ReceiveProbe, Typed, TypeOK
<1>2. m.name \in Ordinal /\ m.temp_id \in RandomIds \cup {NoId}
  BY <1>1 DEF Datagram
<1>3. CASE SpeakForRemote(d, m)
  <2>1. Replies(d, m.name, NoId, NoHint) \subseteq Datagram
    BY <1>2, RepliesType DEF Typed
  <2> QED BY <1>1, <1>3, <2>1 DEF SpeakForRemote, allocator, Typed, TypeOK
<1>4. CASE Defend(d, m)
  <2>1. PICK i \in 0 .. NumHints :
          /\ hints' = [hints EXCEPT ![d] = SetSlot(@, i, 0)]
          /\ bus' = (bus \ {m}) \cup Replies(d, m.name, m.temp_id, val[d] + i + 1)
    BY <1>4 DEF Defend
  <2>2. val[d] + i + 1 \in Ordinal
    BY Constants_ DEF Typed, TypeOK, Ordinal
  <2>3. Replies(d, m.name, m.temp_id, val[d] + i + 1) \subseteq Datagram
    BY <1>2, <2>2, RepliesType DEF Typed
  <2>4. SetSlot(hints[d], i, 0) \in [Slot -> {Free, Taken} \cup HintAge]
    BY SetSlotType DEF Typed, TypeOK
  <2>5. hints' \in [Dev -> [Slot -> {Free, Taken} \cup HintAge]]
    BY <2>1, <2>4 DEF Typed, TypeOK
  <2>6. bus' \subseteq Datagram
    BY <2>1, <2>3 DEF Typed, TypeOK
  <2> QED BY <1>1, <1>4, <2>5, <2>6 DEF Defend, Typed, TypeOK
<1>5. CASE Contend(d, m)
  <2>1. /\ collision_count' \in [Dev -> 0 .. MaxCollisions]
        /\ count_age' \in [Dev -> 0 .. Offline]
    BY <1>5, CountCollisionType DEF Contend, Typed
  <2>2. (online[d] \/ m.temp_id = random_id[d]) \in BOOLEAN
    BY DEF Typed, TypeOK
  <2>3. online' \in [Dev -> BOOLEAN]
    BY <1>5, <2>2 DEF Contend, Typed, TypeOK
  <2> QED BY <1>1, <1>5, <2>1, <2>3 DEF Contend, Typed, TypeOK
<1>6. CASE bus' = bus \ {m} /\ UNCHANGED allocator
  BY <1>1, <1>6 DEF allocator, Typed, TypeOK
<1> QED BY <1>3, <1>4, <1>5, <1>6 DEF ReceiveProbe

LEMMA ReceiveRegisteredType ==
  ASSUME Typed, NEW d \in Dev, NEW m \in bus, ReceiveRegistered(d, m)
  PROVE  TypeOK'
<1>1. /\ up[d] /\ m \in Datagram
      /\ UNCHANGED <<up, locked, online, registered, random_id, known, departures, faults>>
  BY DEF ReceiveRegistered, Typed, TypeOK
<1>2. CASE /\ hints' = [hints EXCEPT ![d] = NoteInBlock(d, m)]
           /\ bus' = bus \ {m}
           /\ UNCHANGED <<val, collision_count, count_age>>
  <2>1. SetSlot(hints[d], m.name - val[d] - 1, Taken) \in [Slot -> {Free, Taken} \cup HintAge]
    BY SetSlotType DEF Typed, TypeOK
  <2>2. NoteInBlock(d, m) \in [Slot -> {Free, Taken} \cup HintAge]
    BY <2>1, SetSlotType DEF NoteInBlock
  <2> QED BY <1>1, <1>2, <2>2 DEF Typed, TypeOK
<1>3. CASE CountCollision(d) /\ bus' = bus \ {m} /\ UNCHANGED <<val, hints>>
  <2>1. /\ collision_count' \in [Dev -> 0 .. MaxCollisions]
        /\ count_age' \in [Dev -> 0 .. Offline]
    BY <1>3, CountCollisionType DEF Typed
  <2> QED BY <1>1, <1>3, <2>1 DEF Typed, TypeOK
<1>4. CASE /\ Suggested(d, m) /\ m.hint <= MaxOrdinal
           /\ ProbeName(d, m.hint, random_id[d], Listening, bus \ {m})
  <2>1. m.hint \in 1 .. MaxOrdinal
    BY <1>1, <1>4, Constants_ DEF Suggested, Datagram, Ordinal, NoHint
  <2>2. random_id[d] \in RandomIds
    BY <1>1 DEF Typed, UpToDate
  <2> QED BY <1>1, <1>4, <2>1, <2>2, ProbeStepType DEF Typed
<1>5. CASE bus' = bus \ {m} /\ UNCHANGED <<val, collision_count, count_age, hints>>
  BY <1>1, <1>5 DEF Typed, TypeOK
<1> QED BY <1>2, <1>3, <1>4, <1>5 DEF ReceiveRegistered

LEMMA DepartType ==
  ASSUME Typed, NEW d \in Dev, Leave(d) \/ Crash(d)
  PROVE  TypeOK'
<1>1. Depart(d)
  BY DEF Leave, Crash
<1>2. NoHints \in [Slot -> {Free, Taken} \cup HintAge]
  BY DEF NoHints
<1>3. hints' \in [Dev -> [Slot -> {Free, Taken} \cup HintAge]]
  BY <1>1, <1>2 DEF Depart, Typed, TypeOK
<1>4. /\ val' \in [Dev -> 1 .. MaxOrdinal]
      /\ collision_count' \in [Dev -> 0 .. MaxCollisions]
      /\ count_age' \in [Dev -> 0 .. Offline]
      /\ departures' \in 0 .. MaxDepartures
  BY <1>1, Constants_ DEF Depart, Typed, TypeOK
<1>5. /\ up' \in [Dev -> BOOLEAN] /\ locked' \in [Dev -> BOOLEAN]
      /\ online' \in [Dev -> BOOLEAN] /\ registered' \in [Dev -> BOOLEAN]
      /\ random_id' \in [Dev -> RandomIds \cup {0}]
      /\ known' \in [Dev -> SUBSET Ordinal]
      /\ faults' \in 0 .. MaxFaults
  BY <1>1 DEF Depart, Typed, TypeOK
<1>6. bus' \subseteq Datagram
  <2>1. val[d] \in Ordinal /\ Listening \ {d} \in SUBSET Dev
    BY Constants_ DEF Typed, TypeOK, Ordinal, Listening
  <2>2. Multicast("logout", val[d], NoId, NoHint, d, Listening \ {d}) \subseteq Datagram
    BY <2>1, MulticastType
  <2> QED BY <2>2 DEF Leave, Crash, Typed, TypeOK
<1> QED BY <1>3, <1>4, <1>5, <1>6 DEF TypeOK

LEMMA ReceiveLogoutType ==
  ASSUME Typed, NEW d \in Dev, NEW m \in bus, ReceiveLogout(d, m)
  PROVE  TypeOK'
<1>1. SetSlot(hints[d], m.name - val[d] - 1, Free) \in [Slot -> {Free, Taken} \cup HintAge]
  BY SetSlotType DEF Typed, TypeOK
<1>2. hints' \in [Dev -> [Slot -> {Free, Taken} \cup HintAge]]
  BY <1>1 DEF ReceiveLogout, Typed, TypeOK
<1>3. known' \in [Dev -> SUBSET Ordinal]
  BY SMTT(30) DEF ReceiveLogout, Typed, TypeOK
<1> QED BY <1>2, <1>3 DEF ReceiveLogout, Typed, TypeOK

LEMMA RecordType ==
  ASSUME Typed, \/ \E d, e \in Dev : Learn(d, e)
                \/ \E d \in Dev : \E n \in known[d] : Expire(d, n)
  PROVE  TypeOK'
<1>1. known' \in [Dev -> SUBSET Ordinal]
  BY Constants_ DEF Learn, Expire, Typed, TypeOK, Ordinal
<1> QED BY <1>1 DEF Learn, Expire, allocator, Typed, TypeOK

LEMMA TickType == ASSUME Typed, Tick PROVE TypeOK'
<1>1. ASSUME NEW d \in Dev PROVE UpTo(count_age[d], Offline) \in 0 .. Offline
  BY Constants_ DEF UpTo, Typed, TypeOK
<1>2. count_age' \in [Dev -> 0 .. Offline]
  BY <1>1 DEF Tick, Typed, TypeOK
<1>3. ASSUME NEW d \in Dev, NEW i \in Slot
      PROVE  (IF hints[d][i] < 0 THEN hints[d][i] ELSE UpTo(hints[d][i], HintLife + 1))
               \in {Free, Taken} \cup HintAge
  <2>1. hints[d][i] \in {Free, Taken} \cup HintAge
    BY DEF Typed, TypeOK
  <2> QED BY <2>1, Constants_ DEF UpTo, Free, Taken, HintAge
<1>4. hints' \in [Dev -> [Slot -> {Free, Taken} \cup HintAge]]
  BY <1>3 DEF Tick
<1> QED BY <1>2, <1>4 DEF Tick, Typed, TypeOK

LEMMA StutterType == ASSUME Typed, UNCHANGED vars PROVE Typed'
BY DEF vars, allocator, Typed, TypeOK, UpToDate

LEMMA NextType == ASSUME Typed, Next PROVE TypeOK'
BY JoinType, ReprobeType, MoveType, RegisterType, ReceiveProbeType,
   ReceiveRegisteredType, ReceiveLogoutType, DepartType, RecordType, TickType
   DEF Next, Poll, Receive, Typed

LEMMA NextUpToDate == ASSUME Typed, Next PROVE UpToDate'
<1> USE DEF Typed, TypeOK, UpToDate
<1>1. CASE Tick
  BY <1>1 DEF Tick
<1>2. ASSUME NEW d \in Dev, Join(d) PROVE UpToDate'
  BY <1>2 DEF Join
<1>3. ASSUME NEW d \in Dev, Poll(d) PROVE UpToDate'
  BY <1>3 DEF Poll, Reprobe, Move, Register
<1>4. ASSUME NEW d \in Dev, Receive(d) PROVE UpToDate'
  <2>1. UNCHANGED <<up, locked, registered, random_id>>
    BY <1>4 DEF Receive, ReceiveProbe, ReceiveRegistered, ReceiveLogout,
                SpeakForRemote, Defend, Contend, allocator
  <2> QED BY <2>1
<1>5. ASSUME NEW d \in Dev, Leave(d) \/ Crash(d) PROVE UpToDate'
  BY ZenonT(60), <1>5 DEF Leave, Crash, Depart
<1>6. ASSUME \/ \E d, e \in Dev : Learn(d, e)
             \/ \E d \in Dev : \E n \in known[d] : Expire(d, n)
      PROVE  UpToDate'
  BY <1>6 DEF Learn, Expire, allocator
<1> QED BY <1>1, <1>2, <1>3, <1>4, <1>5, <1>6 DEF Next

LEMMA InitTyped == Init => Typed
BY InitType DEF Init, Typed, UpToDate

(* In every behaviour every variable has its type. *)
THEOREM TypeCorrect == Spec => []TypeOK
<1>1. Typed /\ [Next]_vars => Typed'
  BY NextType, NextUpToDate, StutterType DEF Typed
<1>2. Typed => TypeOK
  BY DEF Typed
<1> QED BY InitTyped, <1>1, <1>2, PTL DEF Spec

-----------------------------------------------------------------------------
(***************************************************************************)
(* Unique names.  Uniqueness is not inductive: two devices may well probe  *)
(* one ordinal at a time.  What every step preserves is that one of them   *)
(* yields (OneYields): it has counted a rival, or a probe or a refusal     *)
(* that concerns it is still on the bus and its quiet period has not begun *)
(* (time only passes on an empty bus).  That a rival's probe makes two     *)
(* collisions, not one, needs OwnProbeCounts.                              *)
(***************************************************************************)

IInv == Typed /\ OneYields /\ OwnProbeCounts

(* A step of device a: other devices stay as they are, and what the bus    *)
(* carries to them is not lost.                                            *)
StepOf(a) ==
  /\ \A x \in Dev \ {a} :
       /\ up'[x] = up[x] /\ val'[x] = val[x] /\ random_id'[x] = random_id[x]
       /\ collision_count'[x] = collision_count[x]
       /\ count_age'[x] = count_age[x] /\ locked'[x] = locked[x]
  /\ \A m \in bus : m.dst # a => m \in bus'

LEMMA OthersYield ==
  ASSUME NEW a \in Dev, StepOf(a), NEW d \in Dev \ {a}, NEW e \in Dev \ {a}, Yields(d, e)
  PROVE  Yields(d, e)'
<1>1. OwnProbe(d) => OwnProbe(d)'
  BY DEF OwnProbe, StepOf
<1>2. Warned(d, e) => Warned(d, e)'
  BY DEF Warned, StepOf
<1>3. Contested(d) => Contested(d)'
  BY <1>1 DEF Contested, StepOf
<1> QED BY <1>2, <1>3 DEF Yields, StepOf

LEMMA OthersCount ==
  ASSUME NEW a \in Dev, StepOf(a), NEW d \in Dev \ {a}, OwnProbe(d)
  PROVE  OwnProbe(d)'
BY DEF OwnProbe, StepOf

(* It is enough to look at the pairs the device that moved is part of. *)
LEMMA StepOfOne ==
  ASSUME IInv, NEW a \in Dev, StepOf(a),
         up'[a] /\ ~locked'[a] => collision_count'[a] > 0 \/ OwnProbe(a)',
         \A e \in Dev \ {a} : up'[a] /\ up'[e] /\ val'[a] = val'[e]
                             => Yields(a, e)' \/ Yields(e, a)'
  PROVE  OneYields' /\ OwnProbeCounts'
<1>1. ASSUME NEW d \in Dev, NEW e \in Dev, d # e, up'[d], up'[e], val'[d] = val'[e]
      PROVE  Yields(d, e)' \/ Yields(e, d)'
  <2>1. CASE d = a \/ e = a
    BY <1>1, <2>1
  <2>2. CASE d # a /\ e # a
    <3>1. Yields(d, e) \/ Yields(e, d)
      BY <1>1, <2>2 DEF IInv, OneYields, StepOf
    <3> QED BY <3>1, <2>2, OthersYield
  <2> QED BY <2>1, <2>2
<1>2. ASSUME NEW d \in Dev, up'[d], ~locked'[d]
      PROVE  collision_count'[d] > 0 \/ OwnProbe(d)'
  BY <1>2, OthersCount DEF IInv, OwnProbeCounts, StepOf
<1> QED BY <1>1, <1>2 DEF OneYields, OwnProbeCounts

(* The ids that datagrams carry and devices have drawn are integers. *)
LEMMA IdType ==
  ASSUME TypeOK, NEW m \in bus, NEW d \in Dev
  PROVE  m.temp_id \in Int /\ random_id[d] \in Int
<1>1. m \in Datagram
  BY DEF TypeOK
<1>2. m.temp_id \in RandomIds \cup {NoId}
  BY <1>1 DEF Datagram
<1>3. random_id[d] \in RandomIds \cup {0}
  BY DEF TypeOK
<1>4. NoId \in Int
  BY DEF NoId
<1>5. RandomIds \subseteq Int
  BY RandomIdsAssumption
<1>6. m.temp_id \in Int
  BY <1>2, <1>4, <1>5
<1>7. 0 \in Int
  OBVIOUS
<1>8. random_id[d] \in Int
  BY <1>3, <1>5, <1>7, Zenon
<1> QED BY <1>6, <1>8

(* A device that has just probed yields to everyone until it is answered. *)
LEMMA ProbingYields ==
  ASSUME IInv, NEW a \in Dev, NEW n \in 1 .. MaxOrdinal, NEW id \in RandomIds,
         NEW listeners, NEW rest, ProbeName(a, n, id, listeners, rest),
         ~locked[a], UNCHANGED locked,
         random_id' = [random_id EXCEPT ![a] = id],
         up' = [up EXCEPT ![a] = TRUE],
         \A e \in Dev : up'[e] => e \in listeners,
         \A m \in bus : m.dst # a => m \in rest
  PROVE  OneYields' /\ OwnProbeCounts'
<1> USE DEF IInv, Typed, TypeOK
<1>1. StepOf(a)
  BY DEF StepOf, ProbeName
<1>2. val'[a] = n /\ count_age'[a] = 0 /\ random_id'[a] = id /\ ~locked'[a] /\ up'[a]
  BY DEF ProbeName
<1>3. ASSUME NEW e \in Dev, up'[e]
      PROVE  \E m \in bus' : /\ m.type = "probe" /\ m.src = a /\ m.dst = e
                             /\ m.name = n /\ m.temp_id = id
  <2> DEFINE p == [type |-> "probe", name |-> n, temp_id |-> id, hint |-> NoHint,
                   src |-> a, dst |-> e]
  <2>1. p \in Probes(a, n, id, listeners)
    BY <1>3 DEF Probes, Multicast
  <2>2. p \in bus'
    BY <2>1 DEF ProbeName
  <2> QED BY <2>2
<1>4. OwnProbe(a)'
  BY <1>2, <1>3 DEF OwnProbe
<1>5. ASSUME NEW e \in Dev \ {a}, up'[e] PROVE Yields(a, e)'
  BY <1>2, <1>3, <1>5 DEF Yields, Warned
<1> QED BY <1>1, <1>4, <1>5, StepOfOne

LEMMA ProbingSteps ==
  ASSUME IInv, NEW d \in Dev, Join(d) \/ Reprobe(d) \/ Move(d)
  PROVE  OneYields' /\ OwnProbeCounts'
<1> USE DEF IInv, Typed, TypeOK
<1>1. CASE Join(d)
  <2>1. PICK id \in RandomIds :
          /\ random_id' = [random_id EXCEPT ![d] = id]
          /\ ProbeName(d, 1, id, Listening \cup {d}, bus)
    BY <1>1 DEF Join
  <2>2. 1 \in 1 .. MaxOrdinal /\ ~locked[d]
    BY <1>1, Constants_ DEF Join, UpToDate
  <2>3. \A e \in Dev : up'[e] => e \in Listening \cup {d}
    BY <1>1 DEF Join, Listening
  <2> QED BY ZenonT(60), <1>1, <2>1, <2>2, <2>3, ProbingYields DEF Join
<1>2. CASE Reprobe(d) \/ Move(d)
  <2>1. /\ up[d] /\ ~locked[d] /\ UNCHANGED <<up, locked, random_id>>
        /\ random_id[d] \in RandomIds
    BY <1>2 DEF Reprobe, Move, UpToDate
  <2>2. PICK n \in 1 .. MaxOrdinal : ProbeName(d, n, random_id[d], Listening, bus)
    <3>1. CASE Reprobe(d)
      BY <3>1 DEF Reprobe
    <3>2. CASE Move(d)
      <4>1. PICK i \in 0 .. NumHints, r \in 0 .. (collision_count[d] - 1) :
              /\ val[d] + i + 1 + r <= MaxOrdinal
              /\ ProbeName(d, val[d] + i + 1 + r, random_id[d], Listening, bus)
        BY <3>2 DEF Move
      <4>2. val[d] + i + 1 + r \in 1 .. MaxOrdinal
        BY <4>1, Constants_
      <4> QED BY <4>1, <4>2
    <3> QED BY <1>2, <3>1, <3>2
  <2>3. \A e \in Dev : up'[e] => e \in Listening
    BY <2>1 DEF Listening
  <2>4. random_id' = [random_id EXCEPT ![d] = random_id[d]] /\ up' = [up EXCEPT ![d] = TRUE]
    BY <2>1
  <2> QED BY <2>1, <2>2, <2>3, <2>4, ProbingYields
<1> QED BY <1>1, <1>2

LEMMA RegisterYields ==
  ASSUME IInv, NEW d \in Dev, Register(d)
  PROVE  OneYields' /\ OwnProbeCounts'
<1> USE DEF IInv, Typed, TypeOK
<1>1. StepOf(d) /\ locked'[d] /\ bus \subseteq bus'
  BY DEF StepOf, Register
<1>2. ASSUME NEW e \in Dev \ {d}, up'[e], val'[d] = val'[e] PROVE Yields(e, d)'
  <2>1. Yields(d, e) \/ Yields(e, d)
    BY <1>2 DEF Register, OneYields
  <2>2. ~Yields(d, e)
    BY Constants_ DEF Register, QuietName, Yields, Contested, Warned
  <2>3. OwnProbe(e) => OwnProbe(e)'
    BY <1>1 DEF Register, OwnProbe
  <2>4. Warned(e, d) => Warned(e, d)'
    BY <1>1 DEF Register, Warned
  <2>5. Contested(e) => Contested(e)'
    BY <2>3 DEF Register, Contested
  <2> QED BY <2>1, <2>2, <2>4, <2>5 DEF Yields, Register
<1> QED BY <1>1, <1>2, StepOfOne

(* Taking a datagram off the bus hurts nobody's claim to be yielding if    *)
(* the datagram is not one of those its receiver would have to react to.   *)
Idle(d, m) ==
  /\ m.type = "probe" => m.name # val[d] \/ locked[d]
  /\ m.type = "registered" => \/ locked[d] \/ m.name # val[d]
                              \/ m.temp_id # random_id[d] \/ ~(m.hint > val[d])

LEMMA IdleYields ==
  ASSUME IInv, NEW d \in Dev, NEW m \in bus, m.dst = d, Idle(d, m),
         UNCHANGED <<up, val, collision_count, count_age, locked, random_id>>,
         bus \ {m} \subseteq bus',
         m.type = "probe" => m.name # val[d]
  PROVE  OneYields' /\ OwnProbeCounts'
<1> USE DEF IInv, Typed, TypeOK
<1>1. StepOf(d)
  BY DEF StepOf
<1>2. ~locked[d] /\ OwnProbe(d) => OwnProbe(d)'
  BY DEF OwnProbe, Idle
<1>3. ASSUME NEW e \in Dev \ {d}, up[d], up[e], val[d] = val[e]
      PROVE  Yields(d, e)' \/ Yields(e, d)'
  <2>1. OwnProbe(e) => OwnProbe(e)'
    BY DEF OwnProbe
  <2>2. Warned(e, d) => Warned(e, d)'
    BY <1>3 DEF Warned
  <2>3. ~locked[d] /\ Warned(d, e) => Warned(d, e)'
    BY DEF Warned, Idle
  <2> QED BY <1>2, <1>3, <2>1, <2>2, <2>3 DEF OneYields, Yields, Contested
<1> QED BY <1>1, <1>2, <1>3, StepOfOne DEF OwnProbeCounts

(* A defended name: the refusal takes the place of the probe. *)
LEMMA DefendYields ==
  ASSUME IInv, NEW d \in Dev, NEW m \in bus, up[d], m.dst = d, m.type = "probe",
         m.name = val[d], Defend(d, m), UNCHANGED <<up, random_id>>
  PROVE  OneYields' /\ OwnProbeCounts'
<1> USE DEF IInv, Typed, TypeOK
<1>1. PICK i \in 0 .. NumHints :
        bus' = (bus \ {m}) \cup Replies(d, m.name, m.temp_id, val[d] + i + 1)
  BY DEF Defend
<1>2. StepOf(d) /\ UNCHANGED <<val, collision_count, count_age, locked>>
  BY <1>1 DEF StepOf, Defend
<1>3. ~locked[d] => m.temp_id # random_id[d]
  <2>1. random_id[d] \in Int
    BY IdType
  <2>2. m.temp_id \in Int
    BY IdType
  <2>3. ~locked[d] => m.temp_id > random_id[d]
    BY DEF Defend
  <2> HIDE DEF IInv, Typed, TypeOK
  <2> QED BY <2>1, <2>2, <2>3
<1>4. ~locked[d] /\ OwnProbe(d) => OwnProbe(d)'
  BY <1>1, <1>2, <1>3 DEF OwnProbe
<1>5. ASSUME NEW e \in Dev \ {d}, up[e], val[d] = val[e]
      PROVE  Yields(d, e)' \/ Yields(e, d)'
  <2>1. OwnProbe(e) => OwnProbe(e)'
    BY <1>1, <1>2 DEF OwnProbe
  <2>2. Warned(d, e) => Warned(d, e)'
    BY <1>1, <1>2 DEF Warned
  <2>3. Warned(e, d) => Warned(e, d)'
    <3> SUFFICES ASSUME Warned(e, d) PROVE Warned(e, d)'
      OBVIOUS
    <3>1. CASE m.src = e /\ m.temp_id = random_id[e]
      <4> DEFINE r == [type |-> "registered", name |-> m.name, temp_id |-> m.temp_id,
                       hint |-> val[d] + i + 1, src |-> d, dst |-> e]
      <4>1. r \in Replies(d, m.name, m.temp_id, val[d] + i + 1)
        BY <1>5 DEF Replies, Multicast, Listening
      <4>2. r \in bus' /\ r.hint > val[e]
        BY <1>1, <1>5, <4>1
      <4> QED BY <1>2, <1>5, <3>1, <4>2 DEF Warned
    <3>2. CASE ~(m.src = e /\ m.temp_id = random_id[e])
      BY <1>1, <1>2, <3>2 DEF Warned
    <3> QED BY <3>1, <3>2
  <2> QED BY <1>2, <1>4, <1>5, <2>1, <2>2, <2>3 DEF OneYields, Yields, Contested
<1> QED BY <1>2, <1>4, <1>5, StepOfOne DEF OwnProbeCounts

(* A counted rival: with the device's own probe it makes two. *)
LEMMA CountYields ==
  ASSUME IInv, NEW d \in Dev, NEW m \in bus, m.dst = d, ~locked[d],
         CountCollision(d), bus' = bus \ {m},
         UNCHANGED <<up, val, locked, random_id>>,
         m.type = "registered" => m.temp_id # random_id[d]
  PROVE  OneYields' /\ OwnProbeCounts'
<1> USE DEF IInv, Typed, TypeOK
<1>1. StepOf(d)
  BY DEF StepOf, CountCollision
<1>2. count_age'[d] = 0 /\ collision_count[d] \in Nat
  BY DEF CountCollision
<1>3. /\ collision_count'[d] > 0
      /\ collision_count[d] > 0 => collision_count'[d] >= 2
      /\ collision_count[d] = 0 => collision_count'[d] = 1
  BY Constants_ DEF CountCollision, UpTo
<1>4. ASSUME NEW e \in Dev \ {d}, up[d], up[e], val[d] = val[e]
      PROVE  Yields(d, e)' \/ Yields(e, d)'
  <2>1. CASE collision_count[d] > 0
    BY <1>3, <2>1 DEF Yields, Contested
  <2>2. CASE collision_count[d] = 0 /\ m.src # d
    <3>1. OwnProbe(d)
      BY <1>4, <2>2 DEF OwnProbeCounts
    <3>2. OwnProbe(d)'
      BY <2>2, <3>1 DEF OwnProbe
    <3> QED BY <1>2, <1>3, <2>2, <3>2 DEF Yields, Contested
  <2>3. CASE collision_count[d] = 0 /\ m.src = d
    <3>1. OwnProbe(e) => OwnProbe(e)'
      BY DEF OwnProbe
    <3>2. Contested(e) => Contested(e)'
      BY <1>1, <3>1 DEF StepOf, Contested
    <3>3. Warned(e, d) => Warned(e, d)'
      BY <1>1, <1>4, <2>3 DEF StepOf, Warned
    <3>4. Warned(d, e) => Warned(d, e)'
      BY <1>2, <1>4, <2>3 DEF Warned
    <3>5. ~Contested(d)
      BY <2>3 DEF Contested
    <3> QED BY <1>4, <3>2, <3>3, <3>4, <3>5 DEF OneYields, Yields
  <2> QED BY <1>2, <2>1, <2>2, <2>3
<1> QED BY <1>1, <1>3, <1>4, StepOfOne

LEMMA ReceiveProbeYields ==
  ASSUME IInv, RemoteFirst = {}, NEW d \in Dev, NEW m \in bus, ReceiveProbe(d, m)
  PROVE  OneYields' /\ OwnProbeCounts'
<1>1. up[d] /\ m.dst = d /\ m.type = "probe" /\ UNCHANGED <<up, random_id>>
  BY DEF ReceiveProbe
<1>2. CASE m.name # val[d]
  <2>1. Idle(d, m)
    BY <1>1, <1>2 DEF Idle
  <2>2. UNCHANGED allocator /\ bus \ {m} \subseteq bus'
    BY <1>2 DEF ReceiveProbe, SpeakForRemote
  <2> QED BY <1>1, <1>2, <2>1, <2>2, IdleYields DEF allocator
<1>3. CASE m.name = val[d]
  <2>1. ~SeesRemote(d, m.name)
    BY <1>3 DEF SeesRemote
  <2>2. Defend(d, m) \/ Contend(d, m)
    BY <1>3, <2>1 DEF ReceiveProbe
  <2>3. CASE Defend(d, m)
    BY <1>1, <1>3, <2>3, DefendYields
  <2>4. CASE Contend(d, m)
    <3>1. ~locked[d] /\ CountCollision(d) /\ bus' = bus \ {m} /\ UNCHANGED <<val, locked>>
      BY <2>4 DEF Contend
    <3> QED BY <1>1, <3>1, CountYields
  <2> QED BY <2>2, <2>3, <2>4
<1> QED BY <1>2, <1>3

LEMMA ReceiveRegisteredYields ==
  ASSUME IInv, NEW d \in Dev, NEW m \in bus, ReceiveRegistered(d, m)
  PROVE  OneYields' /\ OwnProbeCounts'
<1> USE DEF IInv, Typed, TypeOK
<1>1. /\ up[d] /\ m.dst = d /\ m.type = "registered" /\ m \in Datagram
      /\ UNCHANGED <<up, locked, random_id>>
  BY DEF ReceiveRegistered
<1>2. CASE /\ locked[d] /\ bus' = bus \ {m}
           /\ UNCHANGED <<val, collision_count, count_age>>
  <2>1. Idle(d, m)
    BY <1>1, <1>2 DEF Idle
  <2> QED BY <1>1, <1>2, <2>1, IdleYields
<1>3. CASE /\ ~locked[d] /\ m.name = val[d] /\ m.temp_id < random_id[d]
           /\ CountCollision(d) /\ bus' = bus \ {m} /\ UNCHANGED <<val, hints>>
  <2>1. m.temp_id # random_id[d]
    <3>1. random_id[d] \in Int
      BY IdType
    <3>2. m.temp_id \in Int
      BY IdType
    <3> HIDE DEF IInv, Typed, TypeOK
    <3> QED BY <1>3, <3>1, <3>2
  <2> QED BY <1>1, <1>3, <2>1, CountYields
<1>4. CASE /\ ~locked[d] /\ Suggested(d, m) /\ m.hint <= MaxOrdinal
           /\ ProbeName(d, m.hint, random_id[d], Listening, bus \ {m})
  <2>1. m.hint \in 1 .. MaxOrdinal
    BY <1>1, <1>4, Constants_ DEF Suggested, Datagram, Ordinal, NoHint
  <2>2. random_id[d] \in RandomIds
    BY <1>1 DEF UpToDate
  <2>3. /\ random_id' = [random_id EXCEPT ![d] = random_id[d]]
        /\ up' = [up EXCEPT ![d] = TRUE]
        /\ \A e \in Dev : up'[e] => e \in Listening
        /\ \A x \in bus : x.dst # d => x \in bus \ {m}
    BY <1>1 DEF Listening
  <2> QED BY ZenonT(60), <1>1, <1>4, <2>1, <2>2, <2>3, ProbingYields
<1>5. CASE /\ ~locked[d]
           /\ m.name = val[d] => m.temp_id >= random_id[d] /\ ~Suggested(d, m)
           /\ bus' = bus \ {m} /\ UNCHANGED <<val, collision_count, count_age, hints>>
  <2>1. m.hint > val[d] => m.hint > 0 /\ m.hint # val[d]
    BY <1>1, Constants_ DEF Datagram, Ordinal, NoHint
  <2>2. Idle(d, m)
    BY <1>1, <1>5, <2>1 DEF Idle, Suggested
  <2> QED BY <1>1, <1>5, <2>2, IdleYields
<1> QED BY <1>2, <1>3, <1>4, <1>5 DEF ReceiveRegistered

LEMMA ReceiveLogoutYields ==
  ASSUME IInv, NEW d \in Dev, NEW m \in bus, ReceiveLogout(d, m)
  PROVE  OneYields' /\ OwnProbeCounts'
<1>1. Idle(d, m)
  BY DEF ReceiveLogout, Idle
<1> QED BY <1>1, IdleYields DEF ReceiveLogout

LEMMA DepartYields ==
  ASSUME IInv, NEW d \in Dev, Leave(d) \/ Crash(d)
  PROVE  OneYields' /\ OwnProbeCounts'
<1> USE DEF IInv, Typed, TypeOK
<1>1. StepOf(d) /\ ~up'[d]
  BY DEF StepOf, Leave, Crash, Depart
<1> QED BY <1>1, StepOfOne

(* Learning or forgetting about remote devices, and stuttering. *)
LEMMA SameAllocatorsYield ==
  ASSUME OneYields, OwnProbeCounts, UNCHANGED <<up, allocator, random_id, bus>>
  PROVE  OneYields' /\ OwnProbeCounts'
BY DEF allocator, OneYields, OwnProbeCounts, Yields, Contested, Warned, OwnProbe

LEMMA TickYields ==
  ASSUME IInv, Tick
  PROVE  OneYields' /\ OwnProbeCounts'
<1>1. UNCHANGED <<up, val, collision_count, locked>>
  BY DEF Tick
<1>2. \A d \in Dev : ~OwnProbe(d)
  BY DEF Tick, OwnProbe
<1>3. \A d, e \in Dev : Yields(d, e) => collision_count[d] >= 2 /\ ~locked[d]
  BY <1>2 DEF Tick, Yields, Contested, Warned
<1>4. \A d, e \in Dev : Yields(d, e) => Yields(d, e)'
  BY <1>1, <1>3 DEF Yields, Contested
<1> QED BY <1>1, <1>2, <1>4 DEF IInv, OneYields, OwnProbeCounts

LEMMA NextYields ==
  ASSUME IInv, RemoteFirst = {}, Next
  PROVE  OneYields' /\ OwnProbeCounts'
<1>1. CASE Tick
  BY <1>1, TickYields
<1>2. ASSUME NEW d \in Dev, Join(d) \/ Poll(d) \/ Leave(d) \/ Crash(d)
      PROVE  OneYields' /\ OwnProbeCounts'
  BY <1>2, ProbingSteps, RegisterYields, DepartYields DEF Poll
<1>3. ASSUME NEW d \in Dev, Receive(d)
      PROVE  OneYields' /\ OwnProbeCounts'
  BY <1>3, ReceiveProbeYields, ReceiveRegisteredYields, ReceiveLogoutYields DEF Receive
<1>4. ASSUME \/ \E d, e \in Dev : Learn(d, e)
             \/ \E d \in Dev : \E n \in known[d] : Expire(d, n)
      PROVE  OneYields' /\ OwnProbeCounts'
  BY <1>4, SameAllocatorsYield DEF Learn, Expire, IInv
<1> QED BY <1>1, <1>2, <1>3, <1>4 DEF Next

LEMMA IInvInductive ==
  ASSUME RemoteFirst = {}
  PROVE  (Init => IInv) /\ (IInv /\ [Next]_vars => IInv')
<1>1. Init => IInv
  BY InitTyped DEF Init, IInv, OneYields, OwnProbeCounts
<1>2. ASSUME IInv, Next PROVE IInv'
  BY <1>2, NextType, NextUpToDate, NextYields DEF IInv, Typed
<1>3. ASSUME IInv, UNCHANGED vars PROVE IInv'
  BY <1>3, StutterType, SameAllocatorsYield DEF vars, IInv
<1> QED BY <1>1, <1>2, <1>3

LEMMA IInvUnique == IInv => UniqueNames
BY DEF IInv, Typed, UpToDate, OneYields, Yields, UniqueNames

(* No two registered devices ever have the same name, however many devices *)
(* there are and whatever rand() gives them, if no graph keeps records     *)
(* that precede its own device.                                            *)
THEOREM NamesAreUnique == ASSUME RemoteFirst = {} PROVE Spec => []UniqueNames
<1>1. Init => IInv
  BY IInvInductive
<1>2. IInv /\ [Next]_vars => IInv'
  BY IInvInductive
<1> QED BY <1>1, <1>2, IInvUnique, PTL DEF Spec

-----------------------------------------------------------------------------
(* Registered names do not change, and the protocol implements UniqueNaming *)

(* Only a registration and a departure change who holds what. *)
Quietly == /\ UNCHANGED registered
           /\ \A d \in Dev : registered[d] => val'[d] = val[d]

LEMMA NextHeld ==
  ASSUME Typed, Next
  PROVE  \/ Quietly
         \/ \E d \in Dev : Register(d) \/ Leave(d) \/ Crash(d)
<1> USE DEF Typed, TypeOK, UpToDate
<1>1. CASE Tick
  BY <1>1 DEF Tick, Quietly
<1>2. ASSUME NEW d \in Dev, Join(d) PROVE Quietly
  BY <1>2 DEF Join, ProbeName, Quietly
<1>3. ASSUME NEW d \in Dev, Reprobe(d) \/ Move(d) PROVE Quietly
  BY <1>3 DEF Reprobe, Move, ProbeName, Quietly
<1>4. ASSUME NEW d \in Dev, NEW m \in bus, ReceiveProbe(d, m) PROVE Quietly
  BY <1>4 DEF ReceiveProbe, SpeakForRemote, Defend, Contend, allocator, Quietly
<1>5. ASSUME NEW d \in Dev, NEW m \in bus, ReceiveRegistered(d, m) PROVE Quietly
  BY <1>5 DEF ReceiveRegistered, ProbeName, Quietly
<1>6. ASSUME NEW d \in Dev, NEW m \in bus, ReceiveLogout(d, m) PROVE Quietly
  BY <1>6 DEF ReceiveLogout, Quietly
<1>7. ASSUME \/ \E d, e \in Dev : Learn(d, e)
             \/ \E d \in Dev : \E n \in known[d] : Expire(d, n)
      PROVE  Quietly
  BY <1>7 DEF Learn, Expire, allocator, Quietly
<1> QED BY <1>1, <1>2, <1>3, <1>4, <1>5, <1>6, <1>7 DEF Next, Poll, Receive

(* A registered device keeps its name until it leaves. *)
THEOREM NamesAreKept == Spec => NameKept
<1> DEFINE Kept == \A d \in Dev : registered[d] /\ registered'[d] => val'[d] = val[d]
<1>1. Typed /\ [Next]_vars => Typed'
  BY NextType, NextUpToDate, StutterType DEF Typed
<1>2. ASSUME Typed, Next PROVE Kept
  BY <1>2, NextHeld DEF Quietly, Register, Leave, Crash, Depart, Typed, TypeOK
<1>3. Typed /\ [Next]_vars => [Kept]_vars
  BY <1>2
<1> QED BY InitTyped, <1>1, <1>3, PTL DEF Spec, NameKept

(* A registration claims an ordinal nobody holds. *)
LEMMA RegisterClaims ==
  ASSUME IInv, IInv', NEW d \in Dev, Register(d)
  PROVE  Abstract!Claim(d)
<1> USE DEF IInv, Typed, TypeOK
<1>1. val[d] \in Ordinal /\ ~registered[d] /\ registered'[d]
  BY Constants_ DEF Register, Ordinal
<1>2. held[d] = {} /\ held' = [held EXCEPT ![d] = {val[d]}]
  BY DEF Register, held
<1>3. UniqueNames'
  BY DEF UpToDate, OneYields, Yields, UniqueNames
<1>4. \A e \in Dev : val[d] \notin held[e]
  BY <1>1, <1>3 DEF Register, held, UniqueNames
<1> QED BY <1>1, <1>2, <1>4 DEF Abstract!Claim

LEMMA DepartGivesUp ==
  ASSUME IInv, NEW d \in Dev, Leave(d) \/ Crash(d)
  PROVE  Abstract!GiveUp(d) \/ UNCHANGED held
<1> USE DEF IInv, Typed, TypeOK
<1>1. Depart(d)
  BY DEF Leave, Crash
<1>2. CASE registered[d]
  <2>1. held[d] # {} /\ held' = [held EXCEPT ![d] = {}]
    BY <1>1, <1>2 DEF Depart, held
  <2> QED BY <2>1 DEF Abstract!GiveUp
<1>3. CASE ~registered[d]
  BY <1>1, <1>3 DEF Depart, held
<1> QED BY <1>2, <1>3

(* The protocol implements the claiming of unique names. *)
THEOREM AllocationImplementsUniqueNaming ==
  ASSUME RemoteFirst = {} PROVE Spec => ImplementsUniqueNaming
<1>1. Init => IInv
  BY IInvInductive
<1>2. IInv /\ [Next]_vars => IInv'
  BY IInvInductive
<1>3. Init => Abstract!Init
  BY DEF Init, Abstract!Init, held
<1>4. ASSUME IInv, IInv', Next PROVE [Abstract!Next]_held
  <2>1. CASE Quietly
    BY <2>1 DEF Quietly, held
  <2>2. ASSUME NEW d \in Dev, Register(d) PROVE Abstract!Next
    BY <1>4, <2>2, RegisterClaims DEF Abstract!Next
  <2>3. ASSUME NEW d \in Dev, Leave(d) \/ Crash(d) PROVE [Abstract!Next]_held
    BY <1>4, <2>3, DepartGivesUp DEF Abstract!Next
  <2> QED BY <1>4, <2>1, <2>2, <2>3, NextHeld DEF IInv
<1>5. ASSUME UNCHANGED vars PROVE UNCHANGED held
  BY <1>5 DEF vars, allocator, held
<1>6. IInv /\ IInv' /\ [Next]_vars => [Abstract!Next]_held
  BY <1>4, <1>5
<1>7. Spec => Abstract!Spec
  BY <1>1, <1>2, <1>3, <1>6, PTL DEF Spec, Abstract!Spec
<1> QED BY <1>7 DEF ImplementsUniqueNaming
=============================================================================
