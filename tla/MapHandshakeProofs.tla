------------------------- MODULE MapHandshakeProofs -------------------------
(***************************************************************************)
(* Theorems about MapHandshake, for any choice of programs, callbacks and  *)
(* subscriptions, any number of calls and any number of lost datagrams: an *)
(* end that processes a map knows the other end's address and signal.      *)
(***************************************************************************)
EXTENDS MapHandshakeProps, SequenceTheorems, TLAPS

(* The inductive invariant.  The countdown of map status starts only where *)
(* the link is up and the signal known, and neither is ever taken back; it *)
(* runs only while the record is not active, ended or not.                 *)
Sound(r, up, known) ==
  /\ r \in RecordType
  /\ r.active => r.ready > 0
  /\ r.ready > 0 => up = "up" /\ known

Expr == {Unset, Default} \cup 1 .. MaxCalls

MapMessage ==
  [type : {"map", "mapTo", "mapped", "modify", "unmap"}, id : Nat, version : Nat,
   expr : Expr, sig : {"no", "signal", "slot"}]

Message == MapMessage \cup {AskForDevice, DeviceMsg}

Messages == net \in [Channel -> Seq(Message)]

Records == \A p \in P : Exists(p) => Sound(map[p], link[p], sig[p])

IInv == TypeOK /\ Messages /\ Records

-----------------------------------------------------------------------------
(* Networks *)

(* The other end is an end, and the lines between the two are channels. *)
LEMMA Ends ==
  ASSUME NEW p \in P
  PROVE  /\ Peer(p) \in P
         /\ <<"mesh", p, Peer(p)>> \in Channel /\ <<"bus", p, Peer(p)>> \in Channel
BY DEF Peer, P, Channel

(* The sender and the receiver of a channel are ends. *)
LEMMA ChannelEnds == ASSUME NEW c \in Channel PROVE c[2] \in P /\ c[3] \in P
BY Ends DEF Channel

(* Whatever is sent, the network keeps its type. *)
LEMMA Sent ==
  ASSUME NEW n \in [Channel -> Seq(Message)], NEW p \in P, NEW m \in Message
  PROVE  /\ Multicast(n, p, m) \in [Channel -> Seq(Message)]
         /\ ToPeer(n, p, m) \in [Channel -> Seq(Message)]
         /\ Ask(n, p) \in [Channel -> Seq(Message)]
<1>1. \A c \in Channel : n[c] \in Seq(Message) OBVIOUS
<1>2. AskForDevice \in Message BY DEF Message
<1>3. \A c \in Channel : Append(n[c], m) \in Seq(Message)
  BY <1>1, AppendProperties
<1>4. \A c \in Channel : Append(n[c], AskForDevice) \in Seq(Message)
  BY <1>1, <1>2, AppendProperties
<1>5. Multicast(n, p, m) \in [Channel -> Seq(Message)] BY <1>3 DEF Multicast
<1>6. ToPeer(n, p, m) \in [Channel -> Seq(Message)] BY <1>3, Ends DEF ToPeer
<1>7. Ask(n, p) \in [Channel -> Seq(Message)] BY <1>4, Ends DEF Ask
<1> QED BY <1>5, <1>6, <1>7

(* A message that arrived is well formed, and so is the rest. *)
LEMMA Taken ==
  ASSUME Messages, NEW c \in Channel, net[c] # <<>>
  PROVE  Head(net[c]) \in Message /\ Rest(c) \in [Channel -> Seq(Message)]
<1>1. net[c] \in Seq(Message) BY DEF Messages
<1>2. Head(net[c]) \in Message /\ Tail(net[c]) \in Seq(Message)
  BY <1>1, HeadTailProperties
<1> QED BY <1>2 DEF Rest, Messages

(* A message of the handshake carries the properties of a map. *)
LEMMA TakenMap ==
  ASSUME Messages, NEW c \in Channel,
         Arrived(c, {"map"}) \/ Arrived(c, {"mapTo"}) \/ Arrived(c, {"mapped"})
           \/ Arrived(c, {"modify"}) \/ Arrived(c, {"unmap"})
  PROVE  Head(net[c]) \in MapMessage /\ Rest(c) \in [Channel -> Seq(Message)]
<1>1. net[c] # <<>> BY DEF Arrived
<1>2. Head(net[c]).type \notin {"subscribe", "device"} BY DEF Arrived
<1> QED BY <1>1, <1>2, Taken DEF Message, AskForDevice, DeviceMsg

(* What is told of a record is well formed. *)
LEMMA MapMsgType ==
  ASSUME NEW r \in RecordType, NEW s \in {"no", "signal", "slot"},
         NEW t \in {"map", "mapTo", "mapped", "modify", "unmap"}
  PROVE  MapMsg(t, r, s) \in MapMessage /\ MapMsg(t, r, s) \in Message
BY DEF MapMsg, MapMessage, Message, RecordType, Expr

(* What a handler changes in a message it passes on. *)
LEMMA Passed ==
  ASSUME NEW m \in MapMessage
  PROVE  /\ \A e \in Expr : [m EXCEPT !.expr = e] \in Message
         /\ \A id \in Nat : [m EXCEPT !.id = id] \in Message
         /\ [m EXCEPT !.type = "modify", !.sig = "no"] \in Message
BY DEF MapMessage, Message

-----------------------------------------------------------------------------
(* Records *)

(* A record stays sound when the link comes up or the signal is learnt. *)
LEMMA SoundGrows ==
  ASSUME NEW p \in P, NEW r, NEW s, NEW t, Sound(r, link[p], s), s => t
  PROVE  Sound(r, link[p], t) /\ Sound(r, Asked(p)[p], t)
BY DEF Sound, Asked, P

(* Every operation on a record keeps it sound. *)
LEMMA RevivedSound ==
  ASSUME NEW r, NEW u, NEW k, Sound(r, u, k)
  PROVE  Sound(Revived(r), u, k)
BY DEF Sound, Revived, RecordType

LEMMA RenegotiatedSound ==
  ASSUME NEW r, NEW u, NEW k, Sound(r, u, k)
  PROVE  Sound(Renegotiated(r), u, k)
<1>1. r \in RecordType BY DEF Sound
<1>2. Renegotiated(r) \in RecordType BY <1>1 DEF Renegotiated, RecordType
<1>3. Renegotiated(r).active = FALSE /\ Renegotiated(r).ready = 0
  BY <1>1 DEF Renegotiated, RecordType
<1> QED BY <1>2, <1>3 DEF Sound

LEMMA ActivatedSound ==
  ASSUME NEW r, NEW p \in P, NEW u, NEW k, Sound(r, u, k), r.ready > 0
  PROVE  Sound(Activated(p, r), u, k)
BY DEF Sound, Activated, RecordType

LEMMA PushedFlagSound ==
  ASSUME NEW r, NEW u, NEW k, Sound(r, u, k), NEW b \in BOOLEAN
  PROVE  Sound([r EXCEPT !.pushed = b], u, k) /\ Sound([r EXCEPT !.pushed = @ \/ b], u, k)
BY DEF Sound, RecordType

LEMMA ReleasedSound ==
  ASSUME NEW r, NEW u, NEW k, Sound(r, u, k)
  PROVE  Sound([r EXCEPT !.active = FALSE, !.version = @ + 1, !.pushed = TRUE], u, k)
<1> DEFINE s == [r EXCEPT !.active = FALSE, !.version = @ + 1, !.pushed = TRUE]
<1>1. r \in RecordType /\ r.version + 1 \in Nat BY DEF Sound, RecordType
<1>2. s \in RecordType BY <1>1 DEF RecordType
<1>3. s.active = FALSE /\ s.ready = r.ready BY <1>1 DEF RecordType
<1> HIDE DEF s
<1>4. Sound(s, u, k) BY <1>2, <1>3 DEF Sound
<1> QED BY <1>4 DEF s

LEMMA VersionSound ==
  ASSUME NEW r, NEW u, NEW k, Sound(r, u, k), NEW v \in Nat
  PROVE  Sound([r EXCEPT !.version = v], u, k)
BY DEF Sound, RecordType

LEMMA CheckedSound ==
  ASSUME NEW p \in P, NEW r, NEW k \in BOOLEAN, Sound(r, link[p], k)
  PROVE  Sound(Checked(p, r, k), link[p], k)
<1>1. CASE r.ready = 0 /\ link[p] = "up" /\ k
  <2> DEFINE e == IF p = "src" /\ r.expr = Unset THEN Default ELSE r.expr
  <2>1. r \in RecordType /\ e \in Expr BY DEF Sound, RecordType, Expr
  <2>2. Checked(p, r, k) = [r EXCEPT !.ready = 3, !.expr = e]
    BY <1>1 DEF Checked
  <2> HIDE DEF e
  <2>3. Checked(p, r, k) \in RecordType BY <2>1, <2>2 DEF RecordType, Expr
  <2>4. Checked(p, r, k).ready = 3 BY <2>1, <2>2 DEF RecordType
  <2>5. Checked(p, r, k).ready > 0 BY <2>4
  <2>6. link[p] = "up" /\ k BY <1>1
  <2> HIDE DEF e
  <2> QED BY ONLY <2>3, <2>5, <2>6 DEF Sound
<1>2. CASE ~(r.ready = 0 /\ link[p] = "up" /\ k)
  BY <1>2 DEF Checked
<1> QED BY <1>1, <1>2

LEMMA SetFromSound ==
  ASSUME NEW p \in P, NEW r, NEW k \in BOOLEAN, Sound(r, link[p], k), NEW m \in MapMessage
  PROVE  Sound(SetFrom(p, r, m, k), link[p], k)
<1> DEFINE q == [Revived(r) EXCEPT !.version = m.version,
                                   !.expr = IF m.expr = Unset THEN @ ELSE m.expr]
<1>1. Sound(Revived(r), link[p], k) BY RevivedSound
<1>2. Sound(q, link[p], k)
  BY <1>1 DEF Sound, RecordType, MapMessage, Expr
<1> HIDE DEF q
<1>3. Sound(Checked(p, q, k), link[p], k) BY <1>2, CheckedSound
<1> QED BY <1>3 DEF SetFrom, q

LEMMA AgedSound ==
  ASSUME NEW r, NEW u, NEW k, Sound(r, u, k), ~r.active
  PROVE  Sound(Aged(r), u, k)
<1>1. CASE r.ready > 0 BY <1>1 DEF Aged, Sound, RecordType
<1>2. CASE ~(r.ready > 0) BY <1>2 DEF Aged, Sound, RecordType
<1> QED BY <1>1, <1>2

(* A new record promises nothing yet. *)
LEMMA NewSound ==
  ASSUME next_id \in Nat, NEW p \in P, NEW id \in Nat, NEW u, NEW k
  PROVE  Sound(NewRecord(p, id), u, k)
BY DEF Sound, NewRecord, RecordType

(* The record a handler works on is sound. *)
LEMMA RecordSound ==
  ASSUME IInv, NEW p \in P, NEW m \in MapMessage, NEW mayAdd \in BOOLEAN,
         Found(p, m, mayAdd) # "no"
  PROVE  /\ Sound(Record(p, m, Found(p, m, mayAdd)), link[p], sig[p])
         /\ Found(p, m, mayAdd) \in {"by id", "by name", "new"}
         /\ Found(p, m, mayAdd) \in {"by id", "by name"} => Exists(p)
<1>1. m.id \in Nat BY DEF MapMessage
<1>2. CASE Found(p, m, mayAdd) = "by id"
  <2>1. Exists(p) BY <1>2 DEF Found
  <2>2. Sound(map[p], link[p], sig[p]) BY <2>1 DEF IInv, Records
  <2>3. Sound(Renegotiated(map[p]), link[p], sig[p]) BY <2>2, RenegotiatedSound
  <2> QED BY <1>2, <2>1, <2>2, <2>3 DEF Record
<1>3. CASE Found(p, m, mayAdd) = "by name"
  <2>1. Exists(p) BY <1>3 DEF Found
  <2> QED BY <1>3, <2>1 DEF IInv, Records, Record
<1>4. CASE Found(p, m, mayAdd) = "new"
  <2>1. Sound(NewRecord(p, m.id), link[p], sig[p]) BY <1>1, NewSound DEF IInv, TypeOK
  <2> QED BY <1>4, <2>1 DEF Record
<1> QED BY <1>2, <1>3, <1>4 DEF Found

(* A push keeps the record sound and the network typed. *)
LEMMA PushedSound ==
  ASSUME NEW p \in P, NEW r, NEW e \in Expr, NEW k \in BOOLEAN,
         NEW n \in [Channel -> Seq(Message)], Sound(r, link[p], k)
  PROVE  /\ Sound(Pushed(p, r, e, k, n).rec, link[p], k)
         /\ Pushed(p, r, e, k, n).out \in [Channel -> Seq(Message)]
<1> DEFINE s == [r EXCEPT !.version = @ + 1]
           t == Checked(p, s, k)
<1>1. r.version + 1 \in Nat BY DEF Sound, RecordType
<1>2. Sound(s, link[p], k) BY <1>1, VersionSound
<1>3. s.version = r.version + 1 BY DEF Sound, RecordType
<1> HIDE DEF s
<1>4. Sound(t, link[p], k) BY <1>2, CheckedSound
<1>5. t.version = s.version BY <1>2 DEF Checked, Sound, RecordType
<1> HIDE DEF t
<1>6. s \in RecordType /\ t \in RecordType BY <1>2, <1>4 DEF Sound
<1>7. CASE r.active /\ ~r.removed
  <2>1. [MapMsg("modify", s, "no") EXCEPT !.expr = e] \in Message
    BY <1>6, MapMsgType, Passed
  <2> DEFINE out == Multicast(n, p, [MapMsg("modify", s, "no") EXCEPT !.expr = e])
  <2>2. Pushed(p, r, e, k, n) = [rec |-> [s EXCEPT !.pushed = TRUE], out |-> out]
    BY <1>7 DEF Pushed, s
  <2>3. Sound([s EXCEPT !.pushed = TRUE], link[p], k) BY <1>2, PushedFlagSound
  <2>4. out \in [Channel -> Seq(Message)] BY <2>1, Sent
  <2> HIDE DEF out
  <2> QED BY <2>2, <2>3, <2>4
<1>8. CASE ~(r.active /\ ~r.removed) /\ t.fresh
  <2> DEFINE g == MapMsg("map", t, IF p = "src" THEN "slot" ELSE "no")
             m == [g EXCEPT !.expr = IF e = Unset THEN @ ELSE e]
  <2>1. m \in Message
    <3>1. g \in MapMessage BY <1>6, MapMsgType
    <3> HIDE DEF g
    <3>2. g.expr \in Expr BY <3>1 DEF MapMessage
    <3> QED BY <3>1, <3>2, Passed
  <2>2. Pushed(p, r, e, k, n) =
          [rec |-> [t EXCEPT !.pushed = TRUE], out |-> Multicast(n, p, m)]
    BY <1>8 DEF Pushed, s, t
  <2> HIDE DEF m
  <2>3. Sound([t EXCEPT !.pushed = TRUE], link[p], k) BY <1>4, PushedFlagSound
  <2>4. Multicast(n, p, m) \in [Channel -> Seq(Message)] BY <2>1, Sent
  <2> QED BY <2>2, <2>3, <2>4
<1>9. CASE ~(r.active /\ ~r.removed) /\ ~t.fresh
  <2>1. Pushed(p, r, e, k, n) = [rec |-> [t EXCEPT !.version = @ - 1], out |-> n]
    BY <1>9 DEF Pushed, s, t
  <2>2. t.version - 1 \in Nat BY <1>3, <1>5 DEF Sound, RecordType
  <2> QED BY <1>4, <2>1, <2>2, VersionSound
<1> QED BY <1>7, <1>8, <1>9

(* A push does not activate the record. *)
LEMMA PushedActive ==
  ASSUME NEW p \in P, NEW r, NEW e, NEW k \in BOOLEAN, NEW n,
         Sound(r, link[p], k), ~r.active
  PROVE  ~Pushed(p, r, e, k, n).rec.active
<1> DEFINE s == [r EXCEPT !.version = @ + 1]
           t == Checked(p, s, k)
<1>1. r.version + 1 \in Nat BY DEF Sound, RecordType
<1>2. Sound(s, link[p], k) BY <1>1, VersionSound
<1>3. ~s.active BY DEF Sound, RecordType
<1> HIDE DEF s
<1>4. t \in RecordType BY <1>2, CheckedSound DEF Sound
<1>5. ~t.active BY <1>2, <1>3 DEF Checked, Sound, RecordType
<1> HIDE DEF t
<1>6. s \in RecordType BY <1>2 DEF Sound
<1>7. CASE t.fresh BY <1>4, <1>5, <1>7 DEF Pushed, RecordType, s, t
<1>8. CASE ~t.fresh BY <1>4, <1>5, <1>8 DEF Pushed, RecordType, s, t
<1> QED BY <1>7, <1>8

-----------------------------------------------------------------------------
(* Steps *)

(* What making a record entails keeps the types, and takes back no link. *)
LEMMA NumberedType ==
  ASSUME TypeOK, NEW p, NEW how, Numbered(p, how)
  PROVE  next_id' \in Nat
BY DEF TypeOK, Numbered

LEMMA LinkedType ==
  ASSUME TypeOK, NEW p \in P, NEW how, Linked(p, how)
  PROVE  /\ link' \in [P -> {"none", "asked", "up"}]
         /\ \A q \in P \ {p} : link'[q] = link[q]
         /\ link[p] = "up" => link'[p] = "up"
BY DEF TypeOK, Linked, Asked

LEMMA AskedIfType ==
  ASSUME NEW n \in [Channel -> Seq(Message)], NEW p \in P, NEW how
  PROVE  AskedIf(n, p, how) \in [Channel -> Seq(Message)]
<1>1. AskForDevice \in Message BY DEF Message
<1> QED BY <1>1, Sent DEF AskedIf

(* Changing the record of one end, and what that end knows, is all that a  *)
(* step does to the records.                                               *)
LEMMA OneRecord ==
  ASSUME TypeOK, Records, NEW p \in P, NEW r, map' = [map EXCEPT ![p] = r],
         r = NoMap \/ Sound(r, link'[p], sig'[p]),
         link' \in [P -> {"none", "asked", "up"}], sig' \in [P -> BOOLEAN],
         \A q \in P \ {p} : link'[q] = link[q] /\ sig'[q] = sig[q]
  PROVE  map' \in [P -> RecordType \cup {NoMap}] /\ Records'
<1>1. r \in RecordType \cup {NoMap} BY DEF Sound
<1>2. map \in [P -> RecordType \cup {NoMap}] BY DEF TypeOK
<1>3. map' \in [P -> RecordType \cup {NoMap}] BY <1>1, <1>2
<1>4. ASSUME NEW q \in P, map'[q] # NoMap PROVE Sound(map'[q], link'[q], sig'[q])
  <2>1. CASE q = p BY <1>2, <1>4, <2>1
  <2>2. CASE q # p
    <3>1. map'[q] = map[q] BY <1>2, <2>2
    <3>2. Sound(map[q], link[q], sig[q]) BY <1>4, <3>1 DEF Records, Exists
    <3> QED BY <2>2, <3>1, <3>2
  <2> QED BY <2>1, <2>2
<1> QED BY <1>3, <1>4 DEF Records, Exists

(* An end that learns, whatever it does to its record, keeps the promise   *)
(* of a record that was sound before.                                      *)
LEMMA Learns ==
  ASSUME NEW r, NEW u, NEW s, NEW v, NEW t, Sound(r, u, s), u = "up" => v = "up", s => t
  PROVE  Sound(r, v, t)
BY DEF Sound

(* The programs' calls *)

LEMMA CreateStep == ASSUME IInv, NEW p \in P, Create(p) PROVE IInv'
<1> DEFINE how == IF Exists(p) THEN "by name" ELSE "new"
           r == IF ~Exists(p) THEN NewRecord(p, 0)
                ELSE IF Ended(map[p]) THEN [Renegotiated(map[p]) EXCEPT !.version = @ + 1]
                ELSE map[p]
           k == sig[p] \/ how = "new"
           n == AskedIf(net, p, how)
           s == Pushed(p, r, Unset, k, n)
<1>1. /\ map' = [map EXCEPT ![p] = s.rec] /\ net' = s.out
      /\ Numbered(p, how) /\ Linked(p, how)
      /\ sig' = [sig EXCEPT ![p] = k]
      /\ staged' = [staged EXCEPT ![p] = @ \/ how = "new"]
      /\ wish' = "map" /\ calls' = calls + 1 /\ UNCHANGED <<due, losses>>
  BY DEF Create, Call
<1>2. Sound(r, link[p], k)
  <2>1. CASE ~Exists(p) BY <2>1, NewSound DEF IInv, TypeOK
  <2>2. CASE Exists(p)
    <3>1. Sound(map[p], link[p], sig[p]) BY <2>2 DEF IInv, Records
    <3>2. Sound(map[p], link[p], k) BY <3>1 DEF Sound
    <3>3. Sound(Renegotiated(map[p]), link[p], k) BY <3>2, RenegotiatedSound
    <3>4. Renegotiated(map[p]).version + 1 \in Nat BY <3>3 DEF Sound, RecordType
    <3>5. Sound([Renegotiated(map[p]) EXCEPT !.version = @ + 1], link[p], k)
      BY <3>3, <3>4, VersionSound
    <3> QED BY <2>2, <3>2, <3>5
  <2> QED BY <2>1, <2>2
<1>3. n \in [Channel -> Seq(Message)] BY AskedIfType DEF IInv, Messages
<1>4. k \in BOOLEAN /\ Unset \in Expr BY DEF IInv, TypeOK, Expr
<1>5. sig[p] => k OBVIOUS
<1> HIDE DEF how, r, k, n
<1>6. Sound(s.rec, link[p], k) /\ s.out \in [Channel -> Seq(Message)]
  BY <1>2, <1>3, <1>4, PushedSound
<1> HIDE DEF s
<1>7. /\ link' \in [P -> {"none", "asked", "up"}]
      /\ \A q \in P \ {p} : link'[q] = link[q]
      /\ link[p] = "up" => link'[p] = "up"
  BY <1>1, LinkedType DEF IInv
<1>8. /\ sig' \in [P -> BOOLEAN] /\ sig'[p] = k
      /\ \A q \in P \ {p} : sig'[q] = sig[q]
  BY <1>1, <1>4 DEF IInv, TypeOK
<1>9. Sound(s.rec, link'[p], sig'[p]) BY <1>6, <1>7, <1>8, Learns
<1>10. map' \in [P -> RecordType \cup {NoMap}] /\ Records'
  BY <1>1, <1>7, <1>8, <1>9, OneRecord DEF IInv
<1>11. next_id' \in Nat BY <1>1, NumberedType DEF IInv
<1>12. staged' \in [P -> BOOLEAN] BY <1>1 DEF IInv, TypeOK
<1>13. TypeOK' BY <1>1, <1>7, <1>8, <1>10, <1>11, <1>12 DEF IInv, TypeOK
<1> QED BY <1>1, <1>6, <1>10, <1>13 DEF IInv, Messages

LEMMA EditStep == ASSUME IInv, NEW p \in P, Edit(p) PROVE IInv'
<1> DEFINE r == [map[p] EXCEPT !.version = @ + 1]
           s == Pushed(p, r, calls + 1, sig[p], net)
<1>1. /\ Exists(p) /\ calls < MaxCalls
      /\ map' = [map EXCEPT ![p] = s.rec] /\ net' = s.out
      /\ wish' = "edit" /\ calls' = calls + 1
      /\ UNCHANGED <<link, sig, staged, next_id, due, losses>>
  BY DEF Edit, Call
<1>2. Sound(r, link[p], sig[p])
  <2>1. Sound(map[p], link[p], sig[p]) BY <1>1 DEF IInv, Records
  <2>2. map[p].version + 1 \in Nat BY <2>1 DEF Sound, RecordType
  <2> QED BY <2>1, <2>2, VersionSound
<1>3. calls + 1 \in Expr /\ sig[p] \in BOOLEAN /\ net \in [Channel -> Seq(Message)]
  BY <1>1, BoundsAssumption DEF IInv, TypeOK, Messages, Expr
<1> HIDE DEF r
<1>4. Sound(s.rec, link[p], sig[p]) /\ s.out \in [Channel -> Seq(Message)]
  BY <1>2, <1>3, PushedSound
<1> HIDE DEF s
<1>5. map' \in [P -> RecordType \cup {NoMap}] /\ Records'
  BY <1>1, <1>4, OneRecord DEF IInv, TypeOK
<1>6. TypeOK' BY <1>1, <1>5 DEF IInv, TypeOK
<1> QED BY <1>1, <1>4, <1>5, <1>6 DEF IInv, Messages

LEMMA ReleaseStep == ASSUME IInv, NEW p \in P, Release(p) PROVE IInv'
<1> DEFINE r == [map[p] EXCEPT !.active = FALSE, !.version = @ + 1, !.pushed = TRUE]
<1>1. /\ Exists(p) /\ map' = [map EXCEPT ![p] = r]
      /\ net' = Multicast(net, p, MapMsg("unmap", r, "no"))
      /\ wish' = p /\ calls' = calls + 1
      /\ UNCHANGED <<link, sig, staged, next_id, due, losses>>
  BY DEF Release, Call
<1>2. Sound(map[p], link[p], sig[p]) BY <1>1 DEF IInv, Records
<1>3. Sound(r, link[p], sig[p]) BY <1>2, ReleasedSound
<1> HIDE DEF r
<1>4. r \in RecordType BY <1>3 DEF Sound
<1>5. net' \in [Channel -> Seq(Message)] BY <1>1, <1>4, MapMsgType, Sent DEF IInv, Messages
<1>6. map' \in [P -> RecordType \cup {NoMap}] /\ Records'
  BY <1>1, <1>3, OneRecord DEF IInv, TypeOK
<1>7. TypeOK' BY <1>1, <1>6 DEF IInv, TypeOK
<1> QED BY <1>5, <1>6, <1>7 DEF IInv, Messages

-----------------------------------------------------------------------------
(* Handlers *)

(* A step that leaves the records and what the ends know alone. *)
LEMMA NoRecord ==
  ASSUME IInv, UNCHANGED <<map, link, sig, staged, due, next_id, wish, calls>>,
         net' \in [Channel -> Seq(Message)], losses' \in Nat
  PROVE  IInv'
<1>1. TypeOK' BY DEF IInv, TypeOK
<1>2. Records' BY DEF IInv, Records, Exists
<1> QED BY <1>1, <1>2 DEF IInv, Messages

(* A handler that changes one record, and what its end knows, within the   *)
(* promise.                                                                *)
LEMMA Handled ==
  ASSUME IInv, NEW p \in P, NEW how, NEW r, NEW k \in BOOLEAN,
         map' = [map EXCEPT ![p] = r], Sound(r, link[p], k),
         sig' = [sig EXCEPT ![p] = k], Linked(p, how), Numbered(p, how),
         net' \in [Channel -> Seq(Message)], UNCHANGED <<staged, due, wish, calls, losses>>
  PROVE  IInv'
<1>1. /\ link' \in [P -> {"none", "asked", "up"}]
      /\ \A q \in P \ {p} : link'[q] = link[q]
      /\ link[p] = "up" => link'[p] = "up"
  BY LinkedType DEF IInv
<1>2. /\ sig' \in [P -> BOOLEAN] /\ sig'[p] = k
      /\ \A q \in P \ {p} : sig'[q] = sig[q]
  BY DEF IInv, TypeOK
<1>3. Sound(r, link'[p], sig'[p]) BY <1>1, <1>2, Learns
<1>4. map' \in [P -> RecordType \cup {NoMap}] /\ Records'
  BY <1>1, <1>2, <1>3, OneRecord DEF IInv
<1>5. next_id' \in Nat BY NumberedType DEF IInv
<1>6. TypeOK' BY <1>1, <1>2, <1>4, <1>5 DEF IInv, TypeOK
<1> QED BY <1>4, <1>6 DEF IInv, Messages

(* The same where the end learns nothing and makes no record. *)
LEMMA Changed ==
  ASSUME IInv, NEW p \in P, NEW r, map' = [map EXCEPT ![p] = r],
         r = NoMap \/ Sound(r, link[p], sig[p]),
         net' \in [Channel -> Seq(Message)], UNCHANGED <<link, sig, next_id, wish, calls, losses>>,
         staged' \in [P -> BOOLEAN], due' \subseteq P
  PROVE  IInv'
<1>1. map' \in [P -> RecordType \cup {NoMap}] /\ Records'
  BY OneRecord DEF IInv, TypeOK
<1>2. TypeOK' BY <1>1 DEF IInv, TypeOK
<1> QED BY <1>1, <1>2 DEF IInv, Messages

(* A message never makes an end forget the signal. *)
LEMMA KnowsType ==
  ASSUME TypeOK, NEW p \in P, NEW r, NEW m
  PROVE  Knows(p, r, m) \in BOOLEAN /\ sig[p] \in BOOLEAN /\ (sig[p] => Knows(p, r, m))
<1>1. sig[p] \in BOOLEAN BY DEF TypeOK
<1>2. Knows(p, r, m) \in BOOLEAN BY DEF Knows
<1>3. sig[p] => Knows(p, r, m) BY DEF Knows
<1> QED BY <1>1, <1>2, <1>3

LEMMA OnMapStep ==
  ASSUME IInv, NEW p \in P, NEW m \in MapMessage, NEW n \in [Channel -> Seq(Message)],
         OnMap(p, m, n), UNCHANGED <<staged, due, wish, calls, losses>>
  PROVE  IInv'
<1> DEFINE how == Found(p, m, TRUE)
           r == Revived(Record(p, m, how))
           k == Knows(p, r, m)
           s == SetFrom(p, r, m, k)
           asked == AskedIf(n, p, how)
<1>1. CASE p = "src" \/ how = "no"
  <2>1. net' = n /\ UNCHANGED <<map, link, sig, next_id>> BY <1>1 DEF OnMap
  <2> QED BY <2>1, NoRecord DEF IInv, TypeOK
<1>2. CASE ~(p = "src" \/ how = "no")
  <2>1. /\ Numbered(p, how) /\ Linked(p, how)
        /\ IF r.active
           THEN /\ map' = [map EXCEPT ![p] = r]
                /\ net' = ToPeer(n, p, [m EXCEPT !.type = "modify", !.sig = "no"])
                /\ UNCHANGED sig
           ELSE /\ map' = [map EXCEPT ![p] = [s EXCEPT !.pushed = @ \/ link[p] = "up"]]
                /\ sig' = [sig EXCEPT ![p] = k]
                /\ net' = IF link[p] = "up"
                          THEN ToPeer(asked, p, MapMsg("mapTo", s, "signal")) ELSE asked
    BY <1>2 DEF OnMap
  <2>2. Sound(Record(p, m, how), link[p], sig[p]) BY <1>2, RecordSound
  <2>3. Sound(r, link[p], sig[p]) BY <2>2, RevivedSound
  <2>4. k \in BOOLEAN /\ (sig[p] => k) /\ sig[p] \in BOOLEAN BY KnowsType DEF IInv
  <2>5. asked \in [Channel -> Seq(Message)] BY AskedIfType
  <2> HIDE DEF how, r, k, asked
  <2>6. CASE r.active
    <3> DEFINE o == [m EXCEPT !.type = "modify", !.sig = "no"]
    <3>0. o \in Message BY Passed
    <3>1. net' = ToPeer(n, p, o) BY <2>1, <2>6
    <3> HIDE DEF o
    <3>4. net' \in [Channel -> Seq(Message)] BY <3>0, <3>1, Sent
    <3>2. sig' = [sig EXCEPT ![p] = sig[p]] BY <2>1, <2>6 DEF IInv, TypeOK
    <3>3. map' = [map EXCEPT ![p] = r] BY <2>1, <2>6
    <3> QED BY <2>1, <2>3, <2>4, <3>2, <3>3, <3>4, Handled
  <2>7. CASE ~r.active
    <3>1. Sound(r, link[p], k) BY <2>3, <2>4, Learns
    <3>2. Sound(s, link[p], k) BY <2>4, <3>1, SetFromSound
    <3> HIDE DEF s
    <3> DEFINE t == [s EXCEPT !.pushed = @ \/ link[p] = "up"]
    <3>3. Sound(t, link[p], k)
      <4>1. (link[p] = "up") \in BOOLEAN OBVIOUS
      <4> QED BY <3>2, <4>1, PushedFlagSound
    <3>4. s \in RecordType BY <3>2 DEF Sound
    <3>5. MapMsg("mapTo", s, "signal") \in Message BY <3>4, MapMsgType
    <3>6. net' \in [Channel -> Seq(Message)] BY <2>1, <2>5, <2>7, <3>5, Sent
    <3>7. map' = [map EXCEPT ![p] = t] /\ sig' = [sig EXCEPT ![p] = k]
      BY <2>1, <2>7
    <3> HIDE DEF t
    <3> QED BY <2>1, <2>4, <3>3, <3>6, <3>7, Handled
  <2> QED BY <2>6, <2>7
<1> QED BY <1>1, <1>2

LEMMA ReceiveMapStep ==
  ASSUME IInv, NEW c \in Channel, ReceiveMap(c[3], c)
  PROVE  IInv'
<1>1. c[3] \in P BY ChannelEnds
<1>2. /\ Arrived(c, {"map"}) /\ OnMap(c[3], Head(net[c]), Rest(c))
      /\ UNCHANGED <<staged, due, wish, calls, losses>>
  BY DEF ReceiveMap
<1>3. Head(net[c]) \in MapMessage /\ Rest(c) \in [Channel -> Seq(Message)]
  BY <1>2, TakenMap DEF IInv
<1> QED BY <1>1, <1>2, <1>3, OnMapStep

LEMMA ReceiveMapToStep ==
  ASSUME IInv, NEW p \in P, NEW c \in Channel, ReceiveMapTo(p, c)
  PROVE  IInv'
<1> DEFINE m == Head(net[c])
           how == Found(p, m, TRUE)
           r == Revived(Record(p, m, how))
           s == IF r.active THEN r ELSE SetFrom(p, r, m, TRUE)
<1>1. /\ Arrived(c, {"mapTo"}) /\ sig' = [sig EXCEPT ![p] = TRUE]
      /\ UNCHANGED <<staged, due, wish, calls, losses>>
      /\ IF how = "no" THEN net' = Rest(c) /\ UNCHANGED <<map, link, next_id>>
         ELSE /\ Numbered(p, how) /\ Linked(p, how)
              /\ map' = [map EXCEPT ![p] = [s EXCEPT !.pushed = @ \/ s.ready > 0]]
              /\ net' = IF s.ready > 0 THEN ToPeer(Rest(c), p, MapMsg("mapped", s, "signal"))
                                       ELSE AskedIf(Rest(c), p, how)
  BY DEF ReceiveMapTo
<1>2. m \in MapMessage /\ Rest(c) \in [Channel -> Seq(Message)]
  BY <1>1, TakenMap DEF IInv
<1> HIDE DEF m
<1>3. CASE how = "no"
  <2>1. /\ net' \in [Channel -> Seq(Message)]
        /\ UNCHANGED <<map, link, next_id, staged, due, wish, calls, losses>>
    BY <1>1, <1>2, <1>3
  <2>2. sig' \in [P -> BOOLEAN] /\ \A q \in P : sig[q] => sig'[q]
    BY <1>1 DEF IInv, TypeOK
  <2>3. Records' BY <2>1, <2>2, Learns DEF IInv, Records, Exists
  <2>4. TypeOK' BY <2>1, <2>2 DEF IInv, TypeOK
  <2> QED BY <2>1, <2>3, <2>4 DEF IInv, Messages
<1>4. CASE how # "no"
  <2>1. Sound(Record(p, m, how), link[p], sig[p]) BY <1>2, <1>4, RecordSound
  <2>2. Sound(r, link[p], sig[p]) BY <2>1, RevivedSound
  <2>3. Sound(r, link[p], TRUE) BY <2>2, Learns
  <2> HIDE DEF how, r
  <2>4. Sound(s, link[p], TRUE)
    <3>1. Sound(SetFrom(p, r, m, TRUE), link[p], TRUE) BY <1>2, <2>3, SetFromSound
    <3> QED BY <2>3, <3>1
  <2> HIDE DEF s
  <2>5. Sound([s EXCEPT !.pushed = @ \/ s.ready > 0], link[p], TRUE)
    <3>1. (s.ready > 0) \in BOOLEAN OBVIOUS
    <3> QED BY <2>4, <3>1, PushedFlagSound
  <2>6. s \in RecordType BY <2>4 DEF Sound
  <2>7. MapMsg("mapped", s, "signal") \in Message BY <2>6, MapMsgType
  <2>8. net' \in [Channel -> Seq(Message)] BY <1>1, <1>2, <1>4, <2>7, Sent, AskedIfType
  <2> QED BY <1>1, <1>4, <2>5, <2>8, Handled
<1> QED BY <1>3, <1>4

LEMMA ReceiveMappedStep ==
  ASSUME IInv, NEW p \in P, NEW c \in Channel, ReceiveMapped(p, c)
  PROVE  IInv'
<1> DEFINE m    == Head(net[c])
           once == Found(p, m, FALSE)
           how  == IF once = "no" /\ p \in Subscribers THEN Found(p, m, TRUE) ELSE once
           r    == Record(p, m, how)
           k    == sig[p] \/ m.sig = "signal" \/ (p = "dst" /\ Knows(p, r, m))
           s    == IF p = "src" THEN Checked(p, r, k) ELSE SetFrom(p, r, m, k)
           activates == s.ready > 0 /\ ~s.active
           t    == IF activates THEN Activated(p, s) ELSE s
           f    == [t EXCEPT !.pushed = @ \/ activates]
<1>1. /\ Arrived(c, {"mapped"}) /\ UNCHANGED <<staged, due, wish, calls, losses>>
      /\ IF how = "no"
         THEN /\ sig' = [sig EXCEPT ![p] = @ \/ m.sig = "signal"]
              /\ net' = Rest(c)
              /\ UNCHANGED <<map, link, next_id>>
         ELSE /\ sig' = [sig EXCEPT ![p] = k]
              /\ Numbered(p, how) /\ Linked(p, how)
              /\ map' = [map EXCEPT ![p] = f]
              /\ net' = IF activates THEN ToPeer(Rest(c), p, MapMsg("mapped", t, "slot"))
                                     ELSE AskedIf(Rest(c), p, how)
  BY DEF ReceiveMapped
<1>2. m \in MapMessage /\ Rest(c) \in [Channel -> Seq(Message)]
  BY <1>1, TakenMap DEF IInv
<1> HIDE DEF m
<1>3. CASE how = "no"
  <2>1. /\ net' \in [Channel -> Seq(Message)]
        /\ UNCHANGED <<map, link, next_id, staged, due, wish, calls, losses>>
    BY <1>1, <1>2, <1>3
  <2>2. sig' \in [P -> BOOLEAN] /\ \A q \in P : sig[q] => sig'[q]
    <3>1. sig' = [sig EXCEPT ![p] = sig[p] \/ m.sig = "signal"] BY <1>1, <1>3
    <3>2. (sig[p] \/ m.sig = "signal") \in BOOLEAN OBVIOUS
    <3> QED BY <3>1, <3>2 DEF IInv, TypeOK
  <2>3. Records' BY <2>1, <2>2, Learns DEF IInv, Records, Exists
  <2>4. TypeOK' BY <2>1, <2>2 DEF IInv, TypeOK
  <2> QED BY <2>1, <2>3, <2>4 DEF IInv, Messages
<1>4. CASE how # "no"
  <2>1. Sound(r, link[p], sig[p])
    <3>1. CASE once = "no" /\ p \in Subscribers BY <1>2, <1>4, <3>1, RecordSound
    <3>2. CASE ~(once = "no" /\ p \in Subscribers) BY <1>2, <1>4, <3>2, RecordSound
    <3> QED BY <3>1, <3>2
  <2>2. k \in BOOLEAN OBVIOUS
  <2>3. sig[p] => k OBVIOUS
  <2> HIDE DEF how, r, k, once
  <2>4. Sound(r, link[p], k) BY <2>1, <2>3, Learns
  <2>5. Sound(s, link[p], k)
    <3>1. Sound(Checked(p, r, k), link[p], k) BY <2>2, <2>4, CheckedSound
    <3>2. Sound(SetFrom(p, r, m, k), link[p], k) BY <1>2, <2>2, <2>4, SetFromSound
    <3> QED BY <3>1, <3>2
  <2>6. activates \in BOOLEAN OBVIOUS
  <2>7. activates => s.ready > 0 OBVIOUS
  <2> HIDE DEF s, activates
  <2>8. Sound(t, link[p], k) BY <2>5, <2>7, ActivatedSound
  <2> HIDE DEF t
  <2>9. Sound(f, link[p], k) BY <2>6, <2>8, PushedFlagSound
  <2>10. MapMsg("mapped", t, "slot") \in Message BY <2>8, MapMsgType DEF Sound
  <2>11. net' \in [Channel -> Seq(Message)]
    BY <1>1, <1>2, <1>4, <2>10, Sent, AskedIfType
  <2> HIDE DEF f
  <2>12. /\ sig' = [sig EXCEPT ![p] = k] /\ Numbered(p, how) /\ Linked(p, how)
         /\ map' = [map EXCEPT ![p] = f]
    BY <1>1, <1>4
  <2> QED BY <1>1, <2>2, <2>9, <2>11, <2>12, Handled
<1> QED BY <1>3, <1>4

LEMMA ReceiveModifyStep ==
  ASSUME IInv, NEW p \in P, NEW c \in Channel, ReceiveModify(p, c)
  PROVE  IInv'
<1> DEFINE m == Head(net[c])
           how == Found(p, m, FALSE)
           r == Revived(map[p])
           s == SetFrom(p, r, m, sig[p])
<1>1. /\ Arrived(c, {"modify"}) /\ UNCHANGED <<staged, due, wish, calls, losses>>
      /\ IF how = "no" THEN OnMap(p, m, Rest(c))
         ELSE /\ IF ~map[p].active THEN net' = Rest(c) /\ UNCHANGED map
                 ELSE IF p = "dst" THEN net' = Rest(c) /\ map' = [map EXCEPT ![p] = r]
                 ELSE /\ map' = [map EXCEPT ![p] = s]
                      /\ net' = IF ~Stale(r, m) /\ Updated(r, m)
                                THEN ToPeer(Rest(c), p, MapMsg("mapped", s, "slot"))
                                ELSE Rest(c)
              /\ UNCHANGED <<link, sig, next_id>>
  BY DEF ReceiveModify
<1>2. m \in MapMessage /\ Rest(c) \in [Channel -> Seq(Message)]
  BY <1>1, TakenMap DEF IInv
<1>3. CASE how = "no" BY <1>1, <1>2, <1>3, OnMapStep
<1>4. CASE how # "no"
  <2>1. Exists(p) BY <1>4 DEF Found
  <2>2. Sound(map[p], link[p], sig[p]) BY <2>1 DEF IInv, Records
  <2>3. Sound(r, link[p], sig[p]) BY <2>2, RevivedSound
  <2>4. sig[p] \in BOOLEAN BY DEF IInv, TypeOK
  <2> HIDE DEF m, how, r
  <2>5. Sound(s, link[p], sig[p]) BY <1>2, <2>3, <2>4, SetFromSound
  <2> HIDE DEF s
  <2>6. MapMsg("mapped", s, "slot") \in Message BY <2>5, MapMsgType DEF Sound
  <2>7. /\ net' \in [Channel -> Seq(Message)]
        /\ UNCHANGED <<link, sig, next_id, wish, calls, losses, staged, due>>
    BY <1>1, <1>2, <1>4, <2>6, Sent
  <2>8. staged' \in [P -> BOOLEAN] /\ due' \subseteq P BY <2>7 DEF IInv, TypeOK
  <2>9. CASE map' = map BY <2>7, <2>9, NoRecord DEF IInv, TypeOK
  <2>10. CASE map' = [map EXCEPT ![p] = r] BY <2>3, <2>7, <2>8, <2>10, Changed
  <2>11. CASE map' = [map EXCEPT ![p] = s] BY <2>5, <2>7, <2>8, <2>11, Changed
  <2> QED BY <1>1, <1>4, <2>9, <2>10, <2>11
<1> QED BY <1>3, <1>4

LEMMA ReceiveUnmapStep ==
  ASSUME IInv, NEW p \in P, NEW c \in Channel, ReceiveUnmap(p, c)
  PROVE  IInv'
<1> DEFINE m == Head(net[c])
           r == [map[p] EXCEPT !.removed = TRUE, !.expired = TRUE]
<1>1. /\ Arrived(c, {"unmap"})
      /\ UNCHANGED <<link, sig, staged, due, next_id, wish, calls, losses>>
  BY DEF ReceiveUnmap
<1>2. m \in MapMessage /\ Rest(c) \in [Channel -> Seq(Message)]
  BY <1>1, TakenMap DEF IInv
<1>3. staged' \in [P -> BOOLEAN] /\ due' \subseteq P BY <1>1 DEF IInv, TypeOK
<1>4. CASE Found(p, m, FALSE) = "no" \/ map[p].removed \/ Stale(map[p], m)
  <2>1. net' = Rest(c) /\ UNCHANGED map BY <1>4 DEF ReceiveUnmap
  <2> QED BY <1>1, <1>2, <2>1, NoRecord DEF IInv, TypeOK
<1>5. CASE ~(Found(p, m, FALSE) = "no" \/ map[p].removed \/ Stale(map[p], m))
  <2>1. /\ map' = [map EXCEPT ![p].removed = TRUE, ![p].expired = TRUE]
        /\ net' = IF p = "dst" /\ link[p] = "up"
                  THEN ToPeer(Rest(c), p, [m EXCEPT !.id = map[p].id]) ELSE Rest(c)
    BY <1>5 DEF ReceiveUnmap
  <2>2. Exists(p) BY <1>5 DEF Found
  <2>3. Sound(map[p], link[p], sig[p]) BY <2>2 DEF IInv, Records
  <2>4. Sound(r, link[p], sig[p]) BY <2>3 DEF Sound, RecordType
  <2>5. map' = [map EXCEPT ![p] = r] BY <2>1 DEF IInv, TypeOK
  <2>6. map[p].id \in Nat BY <2>3 DEF Sound, RecordType
  <2>7. [m EXCEPT !.id = map[p].id] \in Message BY <1>2, <2>6, Passed
  <2>8. net' \in [Channel -> Seq(Message)] BY <1>2, <2>1, <2>7, Sent
  <2> HIDE DEF r, m
  <2> QED BY <1>1, <1>3, <2>4, <2>5, <2>8, Changed
<1> QED BY <1>4, <1>5

LEMMA ReceiveAskStep ==
  ASSUME IInv, NEW p \in P, NEW c \in Channel, ReceiveAsk(p, c)
  PROVE  IInv'
<1>1. Rest(c) \in [Channel -> Seq(Message)] BY Taken DEF ReceiveAsk, Arrived, IInv
<1>2. DeviceMsg \in Message BY DEF Message
<1>3. net' \in [Channel -> Seq(Message)] BY <1>1, <1>2, Sent DEF ReceiveAsk
<1> QED BY <1>3, NoRecord DEF ReceiveAsk, IInv, TypeOK

LEMMA ReceiveDeviceStep ==
  ASSUME IInv, NEW p \in P, NEW c \in Channel, ReceiveDevice(p, c)
  PROVE  IInv'
<1> DEFINE r == [map[p] EXCEPT !.pushed = TRUE]
<1>1. Rest(c) \in [Channel -> Seq(Message)] BY Taken DEF ReceiveDevice, Arrived, IInv
<1>2. /\ link' \in [P -> {"none", "asked", "up"}]
      /\ \A q \in P \ {p} : link'[q] = link[q]
      /\ link[p] = "up" => link'[p] = "up"
  BY DEF ReceiveDevice, IInv, TypeOK
<1>3. UNCHANGED <<sig, staged, due, next_id, wish, calls, losses>> BY DEF ReceiveDevice
<1>4. sig' \in [P -> BOOLEAN] /\ \A q \in P \ {p} : sig'[q] = sig[q]
  BY <1>3 DEF IInv, TypeOK
<1>5. CASE link[p] = "asked" /\ Exists(p)
  <2>1. /\ net' = ToPeer(Rest(c), p, MapMsg("mapTo", map[p], "signal"))
        /\ map' = [map EXCEPT ![p].pushed = TRUE]
    BY <1>5 DEF ReceiveDevice
  <2>2. Sound(map[p], link[p], sig[p]) BY <1>5 DEF IInv, Records
  <2>3. Sound(r, link[p], sig[p]) BY <2>2, PushedFlagSound
  <2>4. MapMsg("mapTo", map[p], "signal") \in Message BY <2>2, MapMsgType DEF Sound
  <2>5. net' \in [Channel -> Seq(Message)] BY <1>1, <2>1, <2>4, Sent
  <2>6. map' = [map EXCEPT ![p] = r] BY <2>1 DEF IInv, TypeOK
  <2> HIDE DEF r
  <2>7. Sound(r, link'[p], sig'[p]) BY <1>2, <1>3, <2>3, Learns
  <2>8. map' \in [P -> RecordType \cup {NoMap}] /\ Records'
    BY <1>2, <1>4, <2>6, <2>7, OneRecord DEF IInv
  <2>9. TypeOK' BY <1>2, <1>3, <2>8 DEF IInv, TypeOK
  <2> QED BY <2>5, <2>8, <2>9 DEF IInv, Messages
<1>6. CASE ~(link[p] = "asked" /\ Exists(p))
  <2>1. net' = Rest(c) /\ UNCHANGED map BY <1>6 DEF ReceiveDevice
  <2>2. ASSUME NEW q \in P, map'[q] # NoMap PROVE Sound(map'[q], link'[q], sig'[q])
    <3>1. Sound(map[q], link[q], sig[q]) BY <2>1, <2>2 DEF IInv, Records, Exists
    <3>2. link[q] = "up" => link'[q] = "up" BY <1>2
    <3> QED BY <1>3, <2>1, <3>1, <3>2, Learns
  <2>3. Records' BY <2>2 DEF Records, Exists
  <2>4. TypeOK' BY <1>2, <1>3, <2>1 DEF IInv, TypeOK
  <2> QED BY <1>1, <2>1, <2>3, <2>4 DEF IInv, Messages
<1> QED BY <1>5, <1>6

-----------------------------------------------------------------------------
(* Housekeeping, losses and time *)

LEMMA HousekeepingStep ==
  ASSUME IInv, NEW p \in P, Housekeeping(p)
  PROVE  IInv'
<1>1. staged' \in [P -> BOOLEAN] /\ UNCHANGED <<map, link, sig, net, due, next_id, wish, calls, losses>>
  BY DEF Housekeeping, IInv, TypeOK
<1>2. TypeOK' BY <1>1 DEF IInv, TypeOK
<1>3. Records' BY <1>1 DEF IInv, Records, Exists
<1> QED BY <1>1, <1>2, <1>3 DEF IInv, Messages

LEMMA CleanupStep ==
  ASSUME IInv, NEW p \in P, Cleanup(p)
  PROVE  IInv'
<1> DEFINE t == Checked(p, map[p], sig[p])
           s == Pushed(p, t, Unset, sig[p], net)
           old == IF map[p].pushed THEN map[p] ELSE t
           entry == staged[p] /\ Exists(p) /\ ~Ended(map[p]) /\ ~map[p].active
<1>1. /\ UNCHANGED <<link, sig, next_id, wish, calls, losses>>
      /\ staged' \in [P -> BOOLEAN] /\ due' \subseteq P
  <2>1. due' = due \ {p} /\ UNCHANGED <<link, sig, next_id, wish, calls, losses>>
    BY DEF Cleanup
  <2>2. staged' = staged \/ staged' = [staged EXCEPT ![p] = FALSE] BY DEF Cleanup
  <2> QED BY <2>1, <2>2 DEF IInv, TypeOK
<1>2. \/ UNCHANGED <<map, net>>
      \/ map' = [map EXCEPT ![p] = NoMap] /\ UNCHANGED net
      \/ entry /\ map' = [map EXCEPT ![p] = Aged(s.rec)] /\ net' = s.out
      \/ entry /\ map' = [map EXCEPT ![p] = Aged(old)] /\ UNCHANGED net
  BY DEF Cleanup, IInv, TypeOK
<1>3. net \in [Channel -> Seq(Message)] BY DEF IInv, Messages
<1>4. CASE UNCHANGED <<map, net>>
  <2>1. TypeOK' BY <1>1, <1>4 DEF IInv, TypeOK
  <2>2. Records' BY <1>1, <1>4 DEF IInv, Records, Exists
  <2> QED BY <1>4, <2>1, <2>2 DEF IInv, Messages
<1>5. CASE map' = [map EXCEPT ![p] = NoMap] /\ UNCHANGED net
  BY <1>1, <1>3, <1>5, Changed
<1>6. ASSUME entry
      PROVE  /\ Sound(Aged(s.rec), link[p], sig[p]) /\ s.out \in [Channel -> Seq(Message)]
             /\ Sound(Aged(old), link[p], sig[p])
  <2>1. Sound(map[p], link[p], sig[p]) /\ ~map[p].active
    BY <1>6 DEF IInv, Records
  <2>2. sig[p] \in BOOLEAN /\ Unset \in Expr BY DEF IInv, TypeOK, Expr
  <2>3. Sound(t, link[p], sig[p]) BY <2>1, <2>2, CheckedSound
  <2>4. ~t.active BY <2>1 DEF Checked, Sound, RecordType
  <2> HIDE DEF t
  <2>5. Sound(s.rec, link[p], sig[p]) /\ s.out \in [Channel -> Seq(Message)]
    BY <1>3, <2>2, <2>3, PushedSound
  <2>6. ~s.rec.active BY <2>2, <2>3, <2>4, PushedActive
  <2>7. Sound(old, link[p], sig[p]) /\ ~old.active BY <2>1, <2>3, <2>4
  <2> HIDE DEF s, old
  <2> QED BY <2>5, <2>6, <2>7, AgedSound
<1> HIDE DEF s, old, entry
<1>7. CASE entry /\ map' = [map EXCEPT ![p] = Aged(s.rec)] /\ net' = s.out
  BY <1>1, <1>6, <1>7, Changed
<1>8. CASE entry /\ map' = [map EXCEPT ![p] = Aged(old)] /\ UNCHANGED net
  BY <1>1, <1>3, <1>6, <1>8, Changed
<1> QED BY <1>2, <1>4, <1>5, <1>7, <1>8

LEMMA LoseStep ==
  ASSUME IInv, NEW c \in Channel, Lose(c)
  PROVE  IInv'
<1>1. net' \in [Channel -> Seq(Message)] BY Taken DEF Lose, IInv
<1>2. losses' \in Nat BY DEF Lose, IInv, TypeOK
<1> QED BY <1>1, <1>2, NoRecord DEF Lose

LEMMA TickStep == ASSUME IInv, Tick PROVE IInv'
<1>1. due' = P /\ UNCHANGED <<map, link, sig, staged, net, next_id, wish, calls, losses>>
  BY DEF Tick
<1>2. TypeOK' BY <1>1 DEF IInv, TypeOK
<1>3. Records' BY <1>1 DEF IInv, Records, Exists
<1> QED BY <1>1, <1>2, <1>3 DEF IInv, Messages

-----------------------------------------------------------------------------
(* The theorems *)

LEMMA InitIInv == ASSUME Init PROVE IInv
<1>1. TypeOK BY DEF Init, TypeOK
<1>2. Messages
  <2>1. <<>> \in Seq(Message) BY EmptySeq
  <2> QED BY <2>1 DEF Init, Messages
<1>3. Records BY DEF Init, Records, Exists
<1> QED BY <1>1, <1>2, <1>3 DEF IInv

LEMMA NextIInv == ASSUME IInv, [Next]_vars PROVE IInv'
<1>1. CASE Tick BY <1>1, TickStep
<1>2. ASSUME NEW p \in P, Create(p) \/ Edit(p) \/ Release(p) PROVE IInv'
  BY <1>2, CreateStep, EditStep, ReleaseStep
<1>3. ASSUME NEW p \in P, Housekeeping(p) \/ Cleanup(p) PROVE IInv'
  BY <1>3, HousekeepingStep, CleanupStep
<1>4. ASSUME NEW c \in Channel, Receive(c) PROVE IInv'
  <2>1. c[3] \in P BY ChannelEnds
  <2> QED BY <1>4, <2>1, ReceiveMapStep, ReceiveMapToStep, ReceiveMappedStep,
             ReceiveModifyStep, ReceiveUnmapStep, ReceiveAskStep, ReceiveDeviceStep
          DEF Receive
<1>5. ASSUME NEW c \in Channel, Lose(c) PROVE IInv' BY <1>5, LoseStep
<1>6. CASE UNCHANGED vars
  <2>1. TypeOK' BY <1>6 DEF vars, IInv, TypeOK
  <2>2. Records' BY <1>6 DEF vars, IInv, Records, Exists
  <2> QED BY <1>6, <2>1, <2>2 DEF vars, IInv, Messages
<1> QED BY <1>1, <1>2, <1>3, <1>4, <1>5, <1>6 DEF Next

(* The inductive invariant holds throughout. *)
LEMMA Inductive == Spec => []IInv
<1>1. Init => IInv BY InitIInv
<1>2. IInv /\ [Next]_vars => IInv' BY NextIInv
<1> QED BY <1>1, <1>2, PTL DEF Spec

(* Every variable of the handshake keeps its type, so the countdown of map *)
(* status takes no value but 3, 1 and 0, whatever messages are lost.       *)
THEOREM TypeCorrect == Spec => []TypeOK
<1>1. IInv => TypeOK BY DEF IInv
<1> QED BY <1>1, Inductive, PTL

(* An end that processes a map has the address of the other and knows the  *)
(* type of its signal, in every behaviour of any two ends.                 *)
THEOREM ActiveMapsAreReady == Spec => []ActiveIsReady
<1>1. ASSUME IInv, NEW p \in P, Active(p)
      PROVE  map[p].ready > 0 /\ link[p] = "up" /\ sig[p]
  BY <1>1 DEF IInv, Records, Sound, Active
<1>2. IInv => ActiveIsReady BY <1>1 DEF ActiveIsReady
<1> QED BY <1>2, Inductive, PTL

=============================================================================
