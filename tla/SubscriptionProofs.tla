------------------------- MODULE SubscriptionProofs -------------------------
(***************************************************************************)
(* What holds of subscriptions for any number of graphs, any kinds and any *)
(* leases, whatever is lost and whoever restarts: a device has one lease   *)
(* for a graph at most, and none is kept past its end.                     *)
(*                                                                         *)
(* That there is one lease at most is not inductive by itself only because *)
(* entries move: what drops the leases that have run out keeps the others  *)
(* apart (lemma PurgedKeeps), and so does the removal of one.  That no     *)
(* lease is kept past its end needs that the device has looked at them     *)
(* before time goes on, and likewise that graphs have renewed theirs.      *)
(***************************************************************************)
EXTENDS SubscriptionProps, SequenceTheorems, FiniteSetTheorems, TLAPS

AllWords == {"all", "device", "signals", "inputs", "outputs",
             "maps", "incoming_maps", "outgoing_maps"}
Leases == {NoLease, 0} \cup Asked
Requests == [type : {"subscribe", "who"}, words : SUBSET AllWords, lease : Leases]
States == [flags : Flags, version : Versions]

(* what is under way *)
ChannelsOK ==
  /\ toDevice \in [Graph -> Seq(Requests)]
  /\ bus \in [Graph -> Seq({SyncMsg, LogoutMsg})]
  /\ mesh \in [Graph -> Seq(States)]

(* Who polled in this tick has no lease that needed it. *)
Polled ==
  /\ \A g \in Graph \ due : ~RenewalDue(g)
  /\ up /\ "device" \notin due => \A i \in DOMAIN subscribers : subscribers[i].left >= 0
  /\ ~up => subscribers = <<>>

(* One entry at most for a graph. *)
Apart(s) == \A i, j \in DOMAIN s : s[i].graph = s[j].graph => i = j

Inv == TypeOK /\ ChannelsOK /\ Polled /\ Apart(subscribers)

-----------------------------------------------------------------------------
(* What is kept when leases have run out *)

(* The elements of a finite set of numbers can be counted off, each once. *)
LEMMA CountedOff ==
  ASSUME NEW K, IsFiniteSet(K), K \subseteq Nat
  PROVE  /\ \A i \in K : Cardinality({j \in K : j <= i}) \in 1 .. Cardinality(K)
         /\ \A i, k \in K :
              i # k => Cardinality({j \in K : j <= i}) # Cardinality({j \in K : j <= k})
         /\ \A n \in 1 .. Cardinality(K) : \E i \in K : Cardinality({j \in K : j <= i}) = n
<1> DEFINE Upto(i) == {j \in K : j <= i}
           rank == [i \in K |-> Cardinality(Upto(i))]
           c == Cardinality(K)
<1>1. c \in Nat
  BY FS_CardinalityType
<1>2. \A i \in K : IsFiniteSet(Upto(i)) /\ Cardinality(Upto(i)) <= c /\ Cardinality(Upto(i)) \in Nat
  <2> SUFFICES ASSUME NEW i \in K
               PROVE  IsFiniteSet(Upto(i)) /\ Cardinality(Upto(i)) <= c /\ Cardinality(Upto(i)) \in Nat
    OBVIOUS
  <2>1. Upto(i) \in SUBSET K
    OBVIOUS
  <2> HIDE DEF Upto
  <2> QED
    BY <2>1, FS_Subset, FS_CardinalityType
<1>3. \A i \in K : Cardinality(Upto(i)) # 0
  <2>1. \A i \in K : i \in Upto(i)
    OBVIOUS
  <2> HIDE DEF Upto
  <2> QED
    BY <1>2, <2>1, FS_EmptySet
<1>4. rank \in [K -> 1 .. c]
  <2> HIDE DEF Upto
  <2> QED
    BY <1>1, <1>2, <1>3
<1>5. ASSUME NEW i \in K, NEW k \in K, i < k
      PROVE  Cardinality(Upto(i)) # Cardinality(Upto(k))
  <2>1. Upto(i) \in SUBSET Upto(k) /\ k \in Upto(k) /\ k \notin Upto(i)
    <3>1. i \in Nat /\ k \in Nat /\ k <= k /\ ~(k <= i)
      BY <1>5
    <3>2. \A j \in K : j <= i => j <= k
      BY <1>5
    <3> QED
      BY <3>1, <3>2
  <2>2. IsFiniteSet(Upto(k))
    BY <1>2
  <2> HIDE DEF Upto
  <2> QED
    BY <2>1, <2>2, FS_Subset
<1>6. \A i, k \in K : i # k => rank[i] # rank[k]
  <2> SUFFICES ASSUME NEW i \in K, NEW k \in K, i # k
               PROVE  rank[i] # rank[k]
    OBVIOUS
  <2>1. i < k \/ k < i
    OBVIOUS
  <2> HIDE DEF Upto
  <2> QED
    BY <1>5, <2>1
<1> HIDE DEF rank
<1>7. rank \in Injection(K, 1 .. c)
  BY <1>4, <1>6 DEF Injection, IsInjective
<1>8. IsFiniteSet(1 .. c) /\ Cardinality(1 .. c) = c
  BY <1>1, FS_Interval
<1>9. rank \in Surjection(K, 1 .. c)
  BY <1>7, <1>8, FS_Injection
<1>10. \A n \in 1 .. c : \E i \in K : rank[i] = n
  BY <1>9 DEF Surjection
<1>11. \A i \in K : rank[i] = Cardinality(Upto(i)) /\ rank[i] \in 1 .. c
  BY <1>4 DEF rank
<1> QED
  BY <1>6, <1>10, <1>11

LEMMA NthIs ==
  ASSUME TypeOK
  PROVE  /\ Cardinality(Kept) \in Nat
         /\ \A n \in 1 .. Cardinality(Kept) : Nth(n) \in Kept
         /\ \A n, m \in 1 .. Cardinality(Kept) : Nth(n) = Nth(m) => n = m
         /\ \A i \in Kept : \E n \in 1 .. Cardinality(Kept) : Nth(n) = i
<1>1. Len(subscribers) \in Nat /\ DOMAIN subscribers = 1 .. Len(subscribers)
  BY LenProperties DEF TypeOK
<1>2. Kept \subseteq 1 .. Len(subscribers) /\ Kept \subseteq Nat
  BY <1>1 DEF Kept
<1>3. IsFiniteSet(Kept) /\ Cardinality(Kept) \in Nat
  <2>1. IsFiniteSet(1 .. Len(subscribers))
    BY <1>1, FS_Interval
  <2>2. IsFiniteSet(Kept)
    BY <1>2, <2>1, FS_Subset
  <2> QED
    BY <2>2, FS_CardinalityType
<1>4. ASSUME NEW n \in 1 .. Cardinality(Kept)
      PROVE  Nth(n) \in Kept /\ Cardinality({j \in Kept : j <= Nth(n)}) = n
  <2>1. \E i \in Kept : Cardinality({j \in Kept : j <= i}) = n
    BY <1>2, <1>3, CountedOff
  <2> QED
    BY <2>1, Zenon DEF Nth
<1>5. ASSUME NEW i \in Kept
      PROVE  \E n \in 1 .. Cardinality(Kept) : Nth(n) = i
  <2> DEFINE rank(k) == Cardinality({j \in Kept : j <= k})
  <2>1. rank(i) \in 1 .. Cardinality(Kept)
    BY <1>2, <1>3, CountedOff
  <2>2. \A k \in Kept : rank(k) = rank(i) => k = i
    <3>1. \A j, k \in Kept :
            j # k => Cardinality({x \in Kept : x <= j}) # Cardinality({x \in Kept : x <= k})
      BY <1>2, <1>3, CountedOff, Zenon
    <3> QED
      BY <3>1, Zenon
  <2>3. Nth(rank(i)) \in Kept /\ rank(Nth(rank(i))) = rank(i)
    BY <1>4, <2>1
  <2> HIDE DEF rank
  <2> QED
    BY <2>1, <2>2, <2>3
<1> QED
  BY <1>3, <1>4, <1>5

(* Purged keeps the leases that have not run out and no other, and keeps *)
(* entries apart.                                                        *)
LEMMA PurgedKeeps ==
  ASSUME TypeOK
  PROVE  /\ Purged \in Seq(Entries)
         /\ Range(Purged) = {e \in Range(subscribers) : Valid(e)}
         /\ \A n \in DOMAIN Purged :
              \E i \in DOMAIN subscribers : Purged[n] = subscribers[i] /\ Valid(subscribers[i])
         /\ Apart(subscribers) => Apart(Purged)
<1>1. DOMAIN Purged = 1 .. Cardinality(Kept) /\ Cardinality(Kept) \in Nat
  BY NthIs DEF Purged
<1>2. ASSUME NEW n \in DOMAIN Purged
      PROVE  /\ Nth(n) \in DOMAIN subscribers /\ Purged[n] = subscribers[Nth(n)]
             /\ Valid(subscribers[Nth(n)]) /\ Purged[n] \in Entries
  <2>1. Nth(n) \in Kept
    BY <1>1, NthIs
  <2>2. Nth(n) \in DOMAIN subscribers /\ Valid(subscribers[Nth(n)])
    BY <2>1 DEF Kept
  <2>3. subscribers[Nth(n)] \in Entries
    BY <2>2, LenProperties, ElementOfSeq DEF TypeOK
  <2> QED
    BY <1>1, <2>2, <2>3 DEF Purged
<1>3. Purged \in Seq(Entries)
  <2>1. Purged \in [1 .. Cardinality(Kept) -> Entries]
    BY <1>1, <1>2 DEF Purged
  <2> QED
    BY <1>1, <2>1
<1>4. ASSUME Apart(subscribers)
      PROVE  Apart(Purged)
  <2> SUFFICES ASSUME NEW n \in DOMAIN Purged, NEW m \in DOMAIN Purged,
                      Purged[n].graph = Purged[m].graph
               PROVE  n = m
    BY DEF Apart
  <2>1. Nth(n) = Nth(m)
    BY <1>2, <1>4 DEF Apart
  <2> QED
    BY <1>1, <2>1, NthIs
<1>5. \A i \in DOMAIN subscribers :
        Valid(subscribers[i]) => \E n \in DOMAIN Purged : Purged[n] = subscribers[i]
  BY <1>1, <1>2, NthIs DEF Kept
<1>6. Range(Purged) = {e \in Range(subscribers) : Valid(e)}
  BY <1>2, <1>5 DEF Range
<1> QED
  BY <1>2, <1>3, <1>4, <1>6

-----------------------------------------------------------------------------
(* Requests and the graph's record of its subscription *)

Subs == [flags : Flags, left : -Timeout .. AutosubInterval]

LEMMA LeasesAre ==
  /\ AutosubInterval \in Nat \ {0} /\ Buffer \in Nat \ {0} /\ Timeout \in Nat \ {0}
  /\ Buffer < AutosubInterval /\ Asked \subseteq Nat \ {0} /\ Leases \subseteq Int
  /\ NoLease \in -Timeout .. AutosubInterval
  /\ AutosubInterval - Buffer \in -Timeout .. AutosubInterval
  /\ AutosubInterval - Buffer - Timeout \in -Timeout .. AutosubInterval
  /\ ~(AutosubInterval - Buffer <= -Timeout)
  /\ ~(AutosubInterval - Buffer - Timeout <= -Timeout)
<1>1. /\ AutosubInterval \in Nat \ {0} /\ Buffer \in Nat \ {0} /\ Timeout \in Nat \ {0}
      /\ Buffer < AutosubInterval /\ TempLeases \subseteq Nat \ {0}
  BY LeaseAssumption
<1> QED
  BY <1>1 DEF Asked, Leases, NoLease

LEMMA RequestIs ==
  ASSUME NEW flags \in Flags, NEW lease \in Leases
  PROVE  Request(flags, lease) \in Requests
<1>1. Words(flags) \subseteq AllWords
  BY DEF Words, AllWords
<1> QED
  BY <1>1 DEF Request, Requests

LEMMA WhoIs == Who \in Requests
BY DEF Who, Requests, Leases

LEMMA SentRequests ==
  ASSUME toDevice \in [Graph -> Seq(Requests)], NEW g \in Graph, NEW ms \in Seq(Requests),
         SendRequests(g, ms)
  PROVE  toDevice' \in [Graph -> Seq(Requests)]
<1>1. toDevice[g] \o ms \in Seq(Requests)
  BY ConcatProperties
<1> QED
  BY <1>1 DEF SendRequests

LEMMA SentRequest ==
  ASSUME toDevice \in [Graph -> Seq(Requests)], NEW g \in Graph, NEW m \in Requests,
         SendRequest(g, m)
  PROVE  toDevice' \in [Graph -> Seq(Requests)]
<1>1. <<m>> \in Seq(Requests)
  OBVIOUS
<1> QED
  BY <1>1, SentRequests DEF SendRequest

(* A graph that makes, renews or drops its subscription has none left that *)
(* needs renewal, and the others are as they were.                         *)
LEMMA SubReplaced ==
  ASSUME TypeOK, NEW g \in Graph, NEW s \in Subs, ~(s # NoSub /\ s.left <= -Timeout),
         sub' = [sub EXCEPT ![g] = s]
  PROVE  /\ sub' \in [Graph -> Subs] /\ ~RenewalDue(g)'
         /\ \A h \in Graph : RenewalDue(h)' => RenewalDue(h)
<1>1. sub \in [Graph -> Subs]
  BY DEF TypeOK, Subs
<1>2. sub' \in [Graph -> Subs] /\ sub'[g] = s /\ \A h \in Graph \ {g} : sub'[h] = sub[h]
  BY <1>1
<1>3. ~RenewalDue(g)' /\ \A h \in Graph \ {g} : RenewalDue(h)' => RenewalDue(h)
  BY <1>2 DEF RenewalDue, IsSubscribed
<1> QED
  BY <1>2, <1>3

LEMMA NoSubIs == NoSub \in Subs /\ {} \in Flags
BY LeasesAre DEF NoSub, Subs, Flags

LEMMA Dropped ==
  ASSUME TypeOK, ChannelsOK, NEW g \in Graph, Drop(g)
  PROVE  /\ sub' \in [Graph -> Subs] /\ toDevice' \in [Graph -> Seq(Requests)] /\ ~RenewalDue(g)'
         /\ \A h \in Graph : RenewalDue(h)' => RenewalDue(h)
<1>1. sub' = [sub EXCEPT ![g] = NoSub] /\ SendRequest(g, Request({}, 0))
  BY DEF Drop
<1>2. Request({}, 0) \in Requests
  BY NoSubIs, RequestIs DEF Leases
<1>3. toDevice' \in [Graph -> Seq(Requests)]
  BY <1>1, <1>2, SentRequest DEF ChannelsOK
<1> QED
  BY <1>1, <1>3, NoSubIs, SubReplaced

LEMMA Renewing ==
  ASSUME NEW flags \in Flags
  PROVE  /\ Autorenewed(flags) \in Subs /\ ~(Autorenewed(flags).left <= -Timeout)
         /\ Request(flags, AutosubInterval) \in Requests
<1>1. AutosubInterval \in Leases
  BY DEF Leases, Asked
<1>2. Request(flags, AutosubInterval) \in Requests
  BY <1>1, RequestIs
<1> QED
  BY <1>2, LeasesAre DEF Autorenewed, Subs

LEMMA KeptAlive ==
  ASSUME TypeOK, ChannelsOK, NEW g \in Graph, NEW flags \in Flags, KeepAlive(g, flags)
  PROVE  /\ sub' \in [Graph -> Subs] /\ toDevice' \in [Graph -> Seq(Requests)]
         /\ \A h \in Graph : RenewalDue(h)' => RenewalDue(h)
<1>1. CASE sub[g].flags = flags
  BY <1>1 DEF KeepAlive, TypeOK, ChannelsOK, Subs, RenewalDue, IsSubscribed
<1>2. CASE sub[g].flags # flags
  <2>1. sub' = [sub EXCEPT ![g] = Autorenewed(flags)] /\ SendRequest(g, Request(flags, AutosubInterval))
    BY <1>2 DEF KeepAlive
  <2>2. toDevice' \in [Graph -> Seq(Requests)]
    BY <2>1, Renewing, SentRequest DEF ChannelsOK
  <2> QED
    BY <2>1, <2>2, Renewing, SubReplaced
<1> QED
  BY <1>1, <1>2

LEMMA FlagSetsAre == \A flags \in FlagSets \cup {{}} : flags \in Flags
BY KindsAssumption DEF Flags, AllSigs, AllMaps

LEMMA ParsedIs ==
  ASSUME NEW words
  PROVE  Parsed(words) \in Flags
<1>1. \A w : MeaningOf(w) \subseteq {"device"} \cup AllSigs \cup AllMaps
  BY DEF MeaningOf, AllSigs, AllMaps
<1> QED
  BY <1>1 DEF Parsed, Flags

-----------------------------------------------------------------------------
(* The device's list *)

LEMMA ListIs ==
  ASSUME TypeOK
  PROVE  /\ subscribers \in Seq(Entries) /\ Len(subscribers) \in Nat
         /\ DOMAIN subscribers = 1 .. Len(subscribers)
         /\ \A i \in DOMAIN subscribers : subscribers[i] \in Entries
BY LenProperties, ElementOfSeq DEF TypeOK

LEMMA EntryIs ==
  ASSUME NEW g \in Graph, NEW flags \in Flags, flags # {}, NEW lease \in Asked
  PROVE  /\ [graph |-> g, flags |-> flags, left |-> lease] \in Entries
         /\ [graph |-> g, flags |-> flags, left |-> lease].left >= 0
<1>1. lease \in Nat /\ lease \in -1 .. lease
  BY LeasesAre
<1> QED
  BY <1>1 DEF Entries

(* An entry after a tick *)
LEMMA EntryLeft ==
  ASSUME NEW e \in Entries, e.left >= 0
  PROVE  /\ [e EXCEPT !.left = @ - 1] \in Entries
         /\ [e EXCEPT !.left = @ - 1].graph = e.graph
<1>1. PICK most \in Asked : e.left \in -1 .. most
  BY DEF Entries
<1>2. e.left - 1 \in -1 .. most
  BY <1>1, LeasesAre
<1> DEFINE L == UNION {-1 .. m : m \in Asked}
<1>3. e.left - 1 \in L
  BY <1>1, <1>2
<1>4. Entries = [graph : Graph, flags : Flags \ {{}}, left : L]
  BY DEF Entries
<1> HIDE DEF L
<1> QED
  BY <1>3, <1>4

(* What the purge leaves is as it should be, whoever polled. *)
LEMMA PurgedIs ==
  ASSUME Inv
  PROVE  /\ Purged \in Seq(Entries) /\ Apart(Purged)
         /\ \A n \in DOMAIN Purged : Purged[n].left >= 0
         /\ subscribers = <<>> => Purged = <<>>
<1>1. TypeOK /\ Apart(subscribers)
  BY DEF Inv
<1>2. \A n \in DOMAIN Purged : Purged[n].left >= 0
  BY <1>1, PurgedKeeps DEF Valid
<1>3. ASSUME subscribers = <<>>
      PROVE  Purged = <<>>
  <2>1. DOMAIN subscribers = {}
    BY <1>3
  <2>2. DOMAIN Purged = {}
    BY <1>1, <2>1, PurgedKeeps
  <2> QED
    BY <1>1, <2>2, PurgedKeeps, LenProperties, EmptySeq
<1> QED
  BY <1>1, <1>2, <1>3, PurgedKeeps

(* The entry of a graph goes: the others stay apart. *)
LEMMA RemovedIs ==
  ASSUME Inv, NEW i \in DOMAIN subscribers
  PROVE  LET rest == RemoveAt(subscribers, i) IN
         /\ rest \in Seq(Entries) /\ Apart(rest)
         /\ \A n \in DOMAIN rest : \E j \in DOMAIN subscribers : rest[n] = subscribers[j]
         /\ Range(rest) = {e \in Range(subscribers) : e.graph # subscribers[i].graph}
<1> DEFINE s == subscribers
           l == Len(s)
           a == SubSeq(s, 1, i - 1)
           b == SubSeq(s, i + 1, l)
           rest == RemoveAt(s, i)
           Old(n) == IF n < i THEN n ELSE n + 1
<1>1. s \in Seq(Entries) /\ l \in Nat /\ i \in 1 .. l /\ DOMAIN s = 1 .. l
      /\ \A j \in 1 .. l : s[j] \in Entries
  BY ListIs DEF Inv
<1>2. /\ a \in Seq(Entries) /\ Len(a) = i - 1
      /\ \A n \in 1 .. i - 1 : a[n] = s[n]
  <2>1. /\ a \in Seq(Entries) /\ Len(a) = IF 1 <= i - 1 THEN (i - 1) - 1 + 1 ELSE 0
        /\ \A n \in 1 .. (i - 1) - 1 + 1 : a[n] = s[1 + n - 1]
    <3>1. 1 \in Int /\ i - 1 \in Int /\ \A j \in 1 .. i - 1 : s[j] \in Entries
      BY <1>1
    <3> HIDE DEF s
    <3> QED
      BY <3>1, SubSeqProperties
  <2>2. (i - 1) - 1 + 1 = i - 1 /\ (IF 1 <= i - 1 THEN (i - 1) - 1 + 1 ELSE 0) = i - 1
        /\ \A n \in 1 .. i - 1 : 1 + n - 1 = n
    BY <1>1
  <2> HIDE DEF a, s
  <2> QED
    BY <2>1, <2>2
<1>3. /\ b \in Seq(Entries) /\ Len(b) = l - i
      /\ \A n \in 1 .. l - i : b[n] = s[n + i]
  <2>1. /\ b \in Seq(Entries) /\ Len(b) = IF i + 1 <= l THEN l - (i + 1) + 1 ELSE 0
        /\ \A n \in 1 .. l - (i + 1) + 1 : b[n] = s[(i + 1) + n - 1]
    <3>1. i + 1 \in Int /\ l \in Int /\ \A j \in i + 1 .. l : s[j] \in Entries
      BY <1>1
    <3> HIDE DEF s, l
    <3> QED
      BY <3>1, SubSeqProperties
  <2>2. l - (i + 1) + 1 = l - i /\ (IF i + 1 <= l THEN l - (i + 1) + 1 ELSE 0) = l - i
        /\ \A n \in 1 .. l - i : (i + 1) + n - 1 = n + i
    BY <1>1
  <2> HIDE DEF b, s, l
  <2> QED
    BY <2>1, <2>2
<1>4. rest = a \o b
  BY DEF RemoveAt
<1> HIDE DEF a, b, s, l, rest
<1>5. /\ rest \in Seq(Entries) /\ Len(rest) = Len(a) + Len(b)
      /\ \A n \in 1 .. Len(a) + Len(b) : rest[n] = IF n <= Len(a) THEN a[n] ELSE b[n - Len(a)]
  BY <1>2, <1>3, <1>4, ConcatProperties
<1>6. Len(a) + Len(b) = l - 1
  BY <1>1, <1>2, <1>3
<1>7. DOMAIN rest = 1 .. l - 1
  BY <1>5, <1>6, LenProperties
<1>8. ASSUME NEW n \in 1 .. l - 1
      PROVE  Old(n) \in 1 .. l /\ rest[n] = s[Old(n)]
  <2>1. n \in 1 .. Len(a) + Len(b) /\ Old(n) \in 1 .. l
    BY <1>1, <1>6
  <2>2. CASE n < i
    <3>1. n <= Len(a) /\ n \in 1 .. i - 1
      BY <1>1, <1>2, <2>2
    <3> QED
      BY <1>2, <1>5, <2>1, <2>2, <3>1
  <2>3. CASE ~(n < i)
    <3>1. ~(n <= Len(a)) /\ n - Len(a) \in 1 .. l - i /\ (n - Len(a)) + i = n + 1
      BY <1>1, <1>2, <2>3
    <3> QED
      BY <1>3, <1>5, <2>1, <2>3, <3>1
  <2> QED
    BY <2>2, <2>3
<1>9. \A n, m \in 1 .. l - 1 : Old(n) = Old(m) => n = m
  BY <1>1
<1>10. Apart(s)
  BY DEF Inv, s
<1>11. Apart(rest)
  <2> SUFFICES ASSUME NEW n \in 1 .. l - 1, NEW m \in 1 .. l - 1, rest[n].graph = rest[m].graph
               PROVE  n = m
    BY <1>7 DEF Apart
  <2>1. Old(n) = Old(m)
    BY <1>1, <1>8, <1>10 DEF Apart
  <2> HIDE DEF Old
  <2> QED
    BY <1>9, <2>1
<1>12. \A n \in DOMAIN rest : \E j \in DOMAIN s : j # i /\ rest[n] = s[j]
  <2>1. \A n \in 1 .. l - 1 : Old(n) # i
    BY <1>1
  <2> HIDE DEF Old
  <2> QED
    BY <1>1, <1>7, <1>8, <2>1
<1>13. \A j \in DOMAIN s : j # i => \E n \in DOMAIN rest : rest[n] = s[j]
  <2> SUFFICES ASSUME NEW j \in 1 .. l, j # i
               PROVE  \E n \in 1 .. l - 1 : rest[n] = s[j]
    BY <1>1, <1>7
  <2> DEFINE n == IF j < i THEN j ELSE j - 1
  <2>1. n \in 1 .. l - 1 /\ Old(n) = j
    BY <1>1
  <2> HIDE DEF n, Old
  <2> QED
    BY <1>8, <2>1
<1>14. Range(rest) = {e \in Range(s) : e.graph # s[i].graph}
  <2>1. \A j \in DOMAIN s : s[j].graph # s[i].graph <=> j # i
    BY <1>1, <1>10 DEF Apart
  <2> QED
    BY <1>12, <1>13, <2>1 DEF Range
<1> QED
  BY <1>5, <1>11, <1>12, <1>14 DEF rest, s

-----------------------------------------------------------------------------
(* What is left to show of a step at a graph, and of one at the device *)

LEMMA AtGraph ==
  ASSUME Inv, UNCHANGED <<deviceVars, due>>,
         known' \in [Graph -> BOOLEAN], synced' \in [Graph -> {Never} \cup 0 .. Timeout],
         autosub' \in [Graph -> Flags], view' \in [Graph -> Versions],
         sub' \in [Graph -> Subs], ChannelsOK',
         \A h \in Graph : RenewalDue(h)' => RenewalDue(h)
  PROVE  Inv'
<1>1. UNCHANGED <<up, version, dirty, subscribers, due>>
  BY DEF deviceVars
<1>2. TypeOK'
  BY <1>1 DEF Inv, TypeOK, Subs
<1>3. Polled'
  BY <1>1 DEF Inv, Polled
<1>4. Apart(subscribers')
  BY <1>1 DEF Inv
<1> QED
  BY <1>2, <1>3, <1>4 DEF Inv, Apart

LEMMA AtDevice ==
  ASSUME Inv, UNCHANGED graphVars, due' \subseteq Graph \cup {"device"}, due \ {"device"} \subseteq due',
         up' \in BOOLEAN, version' \in Versions, dirty' \subseteq {"device"} \cup Sigs,
         subscribers' \in Seq(Entries), Apart(subscribers'), ChannelsOK',
         up' /\ "device" \notin due' => \A i \in DOMAIN subscribers' : subscribers'[i].left >= 0,
         ~up' => subscribers' = <<>>
  PROVE  Inv'
<1>1. UNCHANGED <<known, synced, sub, autosub, view>>
  BY DEF graphVars
<1>2. TypeOK'
  BY <1>1 DEF Inv, TypeOK
<1>3. ASSUME NEW g \in Graph \ due'
      PROVE  ~RenewalDue(g)'
  <2>1. g \in Graph \ due
    BY GraphAssumption
  <2> QED
    BY <1>1, <2>1 DEF Inv, Polled, RenewalDue, IsSubscribed
<1>4. Polled'
  BY <1>3 DEF Polled
<1> QED
  BY <1>2, <1>4 DEF Inv, Apart

LEMMA Popped ==
  ASSUME NEW T, NEW f \in [Graph -> Seq(T)], NEW g \in Graph, f[g] # <<>>
  PROVE  [f EXCEPT ![g] = Tail(@)] \in [Graph -> Seq(T)]
<1>1. Tail(f[g]) \in Seq(T)
  BY HeadTailProperties
<1> QED
  BY <1>1

LEMMA PutIn ==
  ASSUME NEW T, NEW f \in [Graph -> Seq(T)], NEW g \in Graph, NEW m \in T
  PROVE  [f EXCEPT ![g] = Append(@, m)] \in [Graph -> Seq(T)]
<1>1. Append(f[g], m) \in Seq(T)
  BY AppendProperties
<1> QED
  BY <1>1

LEMMA PutInAll ==
  ASSUME ChannelsOK, NEW m \in {SyncMsg, LogoutMsg}, ToAll(m)
  PROVE  bus' \in [Graph -> Seq({SyncMsg, LogoutMsg})]
<1>1. \A g \in Graph : Append(bus[g], m) \in Seq({SyncMsg, LogoutMsg})
  BY AppendProperties DEF ChannelsOK
<1> QED
  BY <1>1 DEF ToAll

LEMMA StateIs ==
  ASSUME TypeOK, NEW flags \in Flags
  PROVE  StateMsg(flags) \in States
BY DEF TypeOK, StateMsg, States

-----------------------------------------------------------------------------
(* Steps at a graph *)

LEMMA SubscribeStep ==
  ASSUME Inv, NEW g \in Graph, NEW flags \in FlagSets \cup {{}},
         NEW lease \in TempLeases \cup {0, NoLease}, Subscribe(g, flags, lease)
  PROVE  Inv'
<1>1. TypeOK /\ ChannelsOK /\ flags \in Flags /\ lease \in Leases
  BY FlagSetsAre DEF Inv, Leases, Asked
<1>2. UNCHANGED <<known, synced, autosub, view, deviceVars, bus, mesh, due>>
  BY DEF Subscribe
<1>3. /\ sub' \in [Graph -> Subs] /\ toDevice' \in [Graph -> Seq(Requests)]
      /\ \A h \in Graph : RenewalDue(h)' => RenewalDue(h)
  <2>1. CASE Drop(g)
    BY <1>1, <2>1, Dropped
  <2>2. CASE KeepAlive(g, flags)
    BY <1>1, <2>2, KeptAlive
  <2>3. CASE SendRequest(g, Request(flags, lease)) /\ UNCHANGED sub
    <3>1. toDevice' \in [Graph -> Seq(Requests)]
      BY <1>1, <2>3, RequestIs, SentRequest DEF ChannelsOK
    <3> QED
      BY <1>1, <2>3, <3>1 DEF TypeOK, Subs, RenewalDue, IsSubscribed
  <2> QED
    BY <2>1, <2>2, <2>3 DEF Subscribe
<1>4. ChannelsOK'
  BY <1>1, <1>2, <1>3 DEF ChannelsOK
<1> QED
  BY <1>1, <1>2, <1>3, <1>4, AtGraph DEF TypeOK

LEMMA AutosubscribeStep ==
  ASSUME Inv, NEW g \in Graph, NEW flags \in FlagSets \cup {{}}, Autosubscribe(g, flags)
  PROVE  Inv'
<1>1. TypeOK /\ ChannelsOK /\ flags \in Flags
  BY FlagSetsAre DEF Inv
<1>2. /\ UNCHANGED <<known, synced, view, deviceVars, bus, mesh, due>>
      /\ autosub' = [autosub EXCEPT ![g] = flags]
  BY DEF Autosubscribe
<1>3. autosub' \in [Graph -> Flags]
  BY <1>1, <1>2 DEF TypeOK
<1>4. /\ sub' \in [Graph -> Subs] /\ toDevice' \in [Graph -> Seq(Requests)]
      /\ \A h \in Graph : RenewalDue(h)' => RenewalDue(h)
  <2>1. CASE Drop(g)
    BY <1>1, <2>1, Dropped
  <2>2. CASE UNCHANGED <<sub, toDevice>>
    BY <1>1, <2>2 DEF TypeOK, ChannelsOK, Subs, RenewalDue, IsSubscribed
  <2>3. CASE SendRequest(g, Who) /\ UNCHANGED sub
    <3>1. toDevice' \in [Graph -> Seq(Requests)]
      BY <1>1, <2>3, WhoIs, SentRequest DEF ChannelsOK
    <3> QED
      BY <1>1, <2>3, <3>1 DEF TypeOK, Subs, RenewalDue, IsSubscribed
  <2>4. CASE /\ sub' = [sub EXCEPT ![g] = Autorenewed(flags)]
             /\ SendRequests(g, <<Request(flags, AutosubInterval), Who>>)
    <3>1. <<Request(flags, AutosubInterval), Who>> \in Seq(Requests)
      BY <1>1, WhoIs, Renewing
    <3>2. toDevice' \in [Graph -> Seq(Requests)]
      BY <1>1, <2>4, <3>1, SentRequests DEF ChannelsOK
    <3> QED
      BY <1>1, <2>4, <3>2, Renewing, SubReplaced
  <2>5. CASE /\ sub' = [sub EXCEPT ![g].flags = flags] /\ SendRequest(g, Who)
             /\ IsSubscribed(sub[g])
    <3>1. toDevice' \in [Graph -> Seq(Requests)]
      BY <1>1, <2>5, WhoIs, SentRequest DEF ChannelsOK
    <3>2. /\ sub \in [Graph -> Subs] /\ sub[g] \in Subs
          /\ \A s \in Subs : [s EXCEPT !.flags = flags] \in Subs
                              /\ [s EXCEPT !.flags = flags].left = s.left
      BY <1>1 DEF TypeOK, Subs
    <3>3. /\ sub' \in [Graph -> Subs] /\ sub'[g].left = sub[g].left
          /\ \A h \in Graph \ {g} : sub'[h] = sub[h]
      BY <2>5, <3>2
    <3>4. \A h \in Graph : RenewalDue(h)' => RenewalDue(h)
      BY <2>5, <3>3 DEF RenewalDue, IsSubscribed
    <3> QED
      BY <3>1, <3>3, <3>4
  <2> QED
    BY <2>1, <2>2, <2>3, <2>4, <2>5 DEF Autosubscribe
<1>5. ChannelsOK'
  BY <1>1, <1>2, <1>4 DEF ChannelsOK
<1> QED
  BY <1>1, <1>2, <1>3, <1>4, <1>5, AtGraph DEF TypeOK

LEMMA ForgottenIs ==
  ASSUME TypeOK, NEW g \in Graph, Forget(g)
  PROVE  /\ known' \in [Graph -> BOOLEAN] /\ synced' \in [Graph -> {Never} \cup 0 .. Timeout]
         /\ view' \in [Graph -> Versions]
<1>1. NoView \in Versions
  <2>1. -1 \in -1 .. MaxChanges
    BY BoundsAssumption
  <2> QED
    BY <2>1 DEF NoView, Versions
<1> QED
  BY <1>1 DEF TypeOK, Forget

LEMMA ReceiveSyncStep ==
  ASSUME Inv, NEW g \in Graph, ReceiveSync(g)
  PROVE  Inv'
<1>1. TypeOK /\ ChannelsOK
  BY DEF Inv
<1>2. /\ UNCHANGED <<known, autosub, view, deviceVars, mesh, due>>
      /\ bus[g] # <<>> /\ bus' = [bus EXCEPT ![g] = Tail(@)]
  BY DEF ReceiveSync
<1>3. bus' \in [Graph -> Seq({SyncMsg, LogoutMsg})]
  BY <1>1, <1>2, Popped DEF ChannelsOK
<1>4. synced' \in [Graph -> {Never} \cup 0 .. Timeout]
  <2>1. 0 \in 0 .. Timeout
    BY LeasesAre
  <2> QED
    BY <1>1, <2>1 DEF ReceiveSync, TypeOK
<1>5. /\ sub' \in [Graph -> Subs] /\ toDevice' \in [Graph -> Seq(Requests)]
      /\ \A h \in Graph : RenewalDue(h)' => RenewalDue(h)
  <2>1. CASE KeepAlive(g, autosub[g])
    BY <1>1, <2>1, KeptAlive DEF TypeOK
  <2>2. CASE UNCHANGED <<sub, toDevice>>
    BY <1>1, <2>2 DEF TypeOK, ChannelsOK, Subs, RenewalDue, IsSubscribed
  <2>3. CASE SendRequest(g, Request({"device"}, NoLease)) /\ UNCHANGED sub
    <3>1. {"device"} \in Flags /\ NoLease \in Leases
      BY DEF Flags, Leases
    <3>2. toDevice' \in [Graph -> Seq(Requests)]
      BY <1>1, <2>3, <3>1, RequestIs, SentRequest DEF ChannelsOK
    <3> QED
      BY <1>1, <2>3, <3>2 DEF TypeOK, Subs, RenewalDue, IsSubscribed
  <2> QED
    BY <2>1, <2>2, <2>3 DEF ReceiveSync
<1>6. ChannelsOK'
  BY <1>1, <1>2, <1>3, <1>5 DEF ChannelsOK
<1> QED
  BY <1>1, <1>2, <1>4, <1>5, <1>6, AtGraph DEF TypeOK

LEMMA ReceiveLogoutStep ==
  ASSUME Inv, NEW g \in Graph, ReceiveLogout(g)
  PROVE  Inv'
<1>1. TypeOK /\ ChannelsOK
  BY DEF Inv
<1>2. /\ UNCHANGED <<autosub, deviceVars, mesh, due>>
      /\ bus[g] # <<>> /\ bus' = [bus EXCEPT ![g] = Tail(@)]
  BY DEF ReceiveLogout
<1>3. bus' \in [Graph -> Seq({SyncMsg, LogoutMsg})]
  BY <1>1, <1>2, Popped DEF ChannelsOK
<1>4. /\ known' \in [Graph -> BOOLEAN] /\ synced' \in [Graph -> {Never} \cup 0 .. Timeout]
      /\ view' \in [Graph -> Versions]
  <2>1. CASE known[g]
    BY <1>1, <2>1, ForgottenIs DEF ReceiveLogout
  <2>2. CASE ~known[g]
    BY <1>1, <2>2 DEF ReceiveLogout, TypeOK
  <2> QED
    BY <2>1, <2>2
<1>5. /\ sub' \in [Graph -> Subs] /\ toDevice' \in [Graph -> Seq(Requests)]
      /\ \A h \in Graph : RenewalDue(h)' => RenewalDue(h)
  <2>1. CASE Drop(g)
    BY <1>1, <2>1, Dropped
  <2>2. CASE UNCHANGED <<sub, toDevice>>
    BY <1>1, <2>2 DEF TypeOK, ChannelsOK, Subs, RenewalDue, IsSubscribed
  <2> QED
    BY <2>1, <2>2 DEF ReceiveLogout
<1>6. ChannelsOK'
  BY <1>1, <1>2, <1>3, <1>5 DEF ChannelsOK
<1> QED
  BY <1>1, <1>2, <1>4, <1>5, <1>6, AtGraph DEF TypeOK

LEMMA ReceiveStateStep ==
  ASSUME Inv, NEW g \in Graph, ReceiveState(g)
  PROVE  Inv'
<1> DEFINE m == Head(mesh[g])
           news == {k \in m.flags : k \in Sigs \/ (k = "device" /\ AcceptsDevice(g))}
<1>1. TypeOK /\ ChannelsOK
  BY DEF Inv
<1>2. /\ UNCHANGED <<autosub, deviceVars, bus, due>>
      /\ mesh[g] # <<>> /\ mesh' = [mesh EXCEPT ![g] = Tail(@)]
      /\ known' = [known EXCEPT ![g] = @ \/ news # {}]
      /\ synced' = IF "device" \in news THEN [synced EXCEPT ![g] = 0] ELSE synced
      /\ view' = [view EXCEPT ![g] = [k \in Kinds |-> IF k \in news THEN m.version[k] ELSE @[k]]]
      /\ KeepAlive(g, autosub[g]) \/ UNCHANGED <<sub, toDevice>>
  BY DEF ReceiveState
<1>3. mesh' \in [Graph -> Seq(States)] /\ m \in States
  BY <1>1, <1>2, Popped, HeadTailProperties DEF ChannelsOK
<1>4. m.version \in Versions
  BY <1>3 DEF States
<1> HIDE DEF m, news
<1>5. known' \in [Graph -> BOOLEAN]
  <2>1. (known[g] \/ news # {}) \in BOOLEAN
    OBVIOUS
  <2> QED
    BY <1>1, <1>2, <2>1 DEF TypeOK
<1>6. synced' \in [Graph -> {Never} \cup 0 .. Timeout]
  <2>1. 0 \in 0 .. Timeout
    BY LeasesAre
  <2> QED
    BY <1>1, <1>2, <2>1 DEF TypeOK
<1>7. view' \in [Graph -> Versions]
  <2> DEFINE w == [k \in Kinds |-> IF k \in news THEN m.version[k] ELSE view[g][k]]
  <2>1. w \in Versions
    BY <1>1, <1>4 DEF TypeOK, Versions
  <2>2. view' = [view EXCEPT ![g] = w]
    BY <1>1, <1>2 DEF TypeOK
  <2> HIDE DEF w
  <2> QED
    BY <1>1, <2>1, <2>2 DEF TypeOK
<1>8. /\ sub' \in [Graph -> Subs] /\ toDevice' \in [Graph -> Seq(Requests)]
      /\ \A h \in Graph : RenewalDue(h)' => RenewalDue(h)
  <2>1. CASE KeepAlive(g, autosub[g])
    BY <1>1, <2>1, KeptAlive DEF TypeOK
  <2>2. CASE UNCHANGED <<sub, toDevice>>
    BY <1>1, <2>2 DEF TypeOK, ChannelsOK, Subs, RenewalDue, IsSubscribed
  <2> QED
    BY <1>2, <2>1, <2>2
<1>9. ChannelsOK'
  BY <1>1, <1>2, <1>3, <1>8 DEF ChannelsOK
<1> QED
  BY <1>1, <1>2, <1>5, <1>6, <1>7, <1>8, <1>9, AtGraph DEF TypeOK

LEMMA HousekeepingStep ==
  ASSUME Inv, NEW g \in Graph, Housekeeping(g)
  PROVE  Inv'
<1>1. TypeOK /\ ChannelsOK /\ Polled
  BY DEF Inv
<1>2. UNCHANGED <<autosub, up, version, dirty, subscribers, bus, mesh>> /\ due' = due \ {g}
  BY DEF Housekeeping, deviceVars
<1>3. /\ known' \in [Graph -> BOOLEAN] /\ synced' \in [Graph -> {Never} \cup 0 .. Timeout]
      /\ view' \in [Graph -> Versions]
      /\ sub' \in [Graph -> Subs] /\ toDevice' \in [Graph -> Seq(Requests)]
      /\ \A h \in Graph : RenewalDue(h)' => RenewalDue(h)
      /\ ~RenewalDue(g)'
  <2>1. CASE Forget(g) /\ Drop(g)
    BY <1>1, <2>1, ForgottenIs, Dropped
  <2>2. CASE /\ SendRequest(g, Request(sub[g].flags, AutosubInterval))
             /\ sub' = [sub EXCEPT ![g].left = AutosubInterval - Buffer - Timeout]
             /\ UNCHANGED <<known, synced, view>>
    <3> DEFINE left == AutosubInterval - Buffer - Timeout
               s == [flags |-> sub[g].flags, left |-> left]
    <3>1. /\ sub \in [Graph -> Subs] /\ sub[g] \in Subs /\ sub[g].flags \in Flags
          /\ left \in -Timeout .. AutosubInterval /\ ~(left <= -Timeout)
      BY <1>1, LeasesAre DEF TypeOK, Subs
    <3>2. sub' = [sub EXCEPT ![g].left = left]
      BY <2>2
    <3> HIDE DEF left
    <3>3. s \in Subs /\ s.left = left
      BY <3>1 DEF Subs
    <3>4. [sub[g] EXCEPT !.left = left] = s
      BY <3>1 DEF Subs
    <3>5. sub' = [sub EXCEPT ![g] = s]
      <4> HIDE DEF s
      <4> QED
        BY <3>1, <3>2, <3>4
    <3> HIDE DEF s
    <3>6. /\ sub' \in [Graph -> Subs] /\ ~RenewalDue(g)'
          /\ \A h \in Graph : RenewalDue(h)' => RenewalDue(h)
      BY <1>1, <3>1, <3>3, <3>5, SubReplaced
    <3>7. toDevice' \in [Graph -> Seq(Requests)]
      BY <1>1, <2>2, <3>1, Renewing, SentRequest DEF ChannelsOK
    <3> QED
      BY <1>1, <2>2, <3>6, <3>7 DEF TypeOK
  <2>3. CASE ~RenewalDue(g) /\ UNCHANGED <<known, synced, view, sub, toDevice>>
    BY <1>1, <2>3 DEF TypeOK, ChannelsOK, Subs, RenewalDue, IsSubscribed
  <2> QED
    BY <2>1, <2>2, <2>3 DEF Housekeeping
<1>4. TypeOK'
  BY <1>1, <1>2, <1>3 DEF TypeOK, Subs
<1>5. ChannelsOK'
  BY <1>1, <1>2, <1>3 DEF ChannelsOK
<1>6. "device" \in due <=> "device" \in due'
  BY <1>2, GraphAssumption
<1>7. Polled'
  BY <1>1, <1>2, <1>3, <1>6 DEF Polled
<1>8. Apart(subscribers)'
  BY <1>2 DEF Inv, Apart
<1> QED
  BY <1>4, <1>5, <1>7, <1>8 DEF Inv

-----------------------------------------------------------------------------
(* Steps of the device *)

LEMMA StartStep ==
  ASSUME Inv, Start
  PROVE  Inv'
<1>1. /\ up' = TRUE /\ due' = due \cup {"device"} /\ ~up /\ TypeOK /\ ChannelsOK
      /\ UNCHANGED <<graphVars, version, dirty, subscribers, toDevice, bus, mesh>>
  BY DEF Start, Inv, netVars
<1>2. ChannelsOK'
  BY <1>1 DEF ChannelsOK
<1>3. due' \subseteq Graph \cup {"device"} /\ due \ {"device"} \subseteq due' /\ "device" \in due'
  BY <1>1 DEF TypeOK
<1>4. Apart(subscribers')
  BY <1>1 DEF Inv
<1> QED
  BY <1>1, <1>2, <1>3, <1>4, AtDevice DEF TypeOK

LEMMA ChangeStep ==
  ASSUME Inv, NEW k \in Kinds, Change(k)
  PROVE  Inv'
<1>1. /\ TypeOK /\ ChannelsOK /\ Polled /\ Apart(subscribers)
      /\ k \in {"device"} \cup Sigs /\ version[k] < MaxChanges
      /\ version' = [version EXCEPT ![k] = @ + 1] /\ dirty' = dirty \cup {k, "device"}
      /\ UNCHANGED <<graphVars, up, subscribers, toDevice, bus, mesh, due>>
  BY DEF Change, Inv, netVars
<1>2. version' \in Versions
  <2>1. version[k] \in -1 .. MaxChanges /\ version[k] + 1 \in -1 .. MaxChanges
    BY <1>1, BoundsAssumption DEF TypeOK, Versions
  <2> QED
    BY <1>1, <2>1 DEF TypeOK, Versions
<1>3. dirty' \subseteq {"device"} \cup Sigs
  BY <1>1 DEF TypeOK
<1>4. ChannelsOK'
  BY <1>1 DEF ChannelsOK
<1>5. TypeOK'
  BY <1>1, <1>2, <1>3 DEF TypeOK, graphVars
<1>6. Polled'
  BY <1>1 DEF Polled, RenewalDue, IsSubscribed, graphVars
<1>7. Apart(subscribers)'
  BY <1>1 DEF Apart
<1> QED
  BY <1>4, <1>5, <1>6, <1>7 DEF Inv

LEMMA RewriteStep ==
  ASSUME Inv, Rewrite
  PROVE  Inv'
<1>1. /\ TypeOK /\ ChannelsOK /\ Polled /\ Apart(subscribers)
      /\ dirty' = dirty \ {"device"}
      /\ UNCHANGED <<graphVars, up, version, subscribers, toDevice, bus, mesh, due>>
  BY DEF Rewrite, Inv, netVars
<1>2. dirty' \subseteq {"device"} \cup Sigs
  BY <1>1 DEF TypeOK
<1>3. ChannelsOK'
  BY <1>1 DEF ChannelsOK
<1>4. TypeOK'
  BY <1>1, <1>2 DEF TypeOK, graphVars
<1>5. Polled'
  BY <1>1 DEF Polled, RenewalDue, IsSubscribed, graphVars
<1>6. Apart(subscribers)'
  BY <1>1 DEF Apart
<1> QED
  BY <1>3, <1>4, <1>5, <1>6 DEF Inv

(* The purge, with or without polling. *)
LEMMA PurgeStep ==
  ASSUME Inv, up, UNCHANGED <<graphVars, up, version>>, subscribers' = Purged,
         due' \subseteq due, due \ {"device"} \subseteq due',
         dirty' \subseteq dirty, ChannelsOK'
  PROVE  Inv'
<1>1. TypeOK
  BY DEF Inv
<1>2. /\ Purged \in Seq(Entries) /\ Apart(Purged)
      /\ \A n \in DOMAIN Purged : Purged[n].left >= 0
  BY PurgedIs
<1>3. dirty' \subseteq {"device"} \cup Sigs /\ due' \subseteq Graph \cup {"device"}
  BY <1>1 DEF TypeOK
<1>4. up' \in BOOLEAN /\ version' \in Versions /\ up'
  BY <1>1 DEF TypeOK
<1> QED
  BY <1>2, <1>3, <1>4, AtDevice

LEMMA InformStep ==
  ASSUME Inv, Inform
  PROVE  Inv'
<1>1. /\ TypeOK /\ ChannelsOK
      /\ up /\ UNCHANGED <<graphVars, up, version, toDevice, bus, due>> /\ dirty' = {}
      /\ subscribers' = Purged
      /\ mesh' = [g \in Graph |-> IF NewsFor(g) # {}
                                  THEN Append(mesh[g], StateMsg(NewsFor(g))) ELSE mesh[g]]
  BY DEF Inform, Inv
<1>2. \A g \in Graph : NewsFor(g) \in Flags
  BY DEF NewsFor, Flags, Sigs, AllSigs
<1>3. ASSUME NEW g \in Graph
      PROVE  (IF NewsFor(g) # {} THEN Append(mesh[g], StateMsg(NewsFor(g))) ELSE mesh[g]) \in Seq(States)
  <2>1. StateMsg(NewsFor(g)) \in States /\ mesh[g] \in Seq(States)
    BY <1>1, <1>2, StateIs DEF ChannelsOK
  <2> QED
    BY <2>1, AppendProperties
<1>4. mesh' \in [Graph -> Seq(States)]
  BY <1>1, <1>3
<1>5. ChannelsOK'
  BY <1>1, <1>4 DEF ChannelsOK
<1> QED
  BY <1>1, <1>5, PurgeStep

LEMMA PushStep ==
  ASSUME Inv, Push
  PROVE  Inv'
<1>1. /\ TypeOK /\ ChannelsOK
      /\ up /\ UNCHANGED <<graphVars, up, version, toDevice, bus, due>> /\ dirty' = dirty \ {"device"}
      /\ subscribers' = Purged
      /\ mesh' = [g \in Graph |-> IF IsInterested(g, {"device"})
                                  THEN Append(mesh[g], StateMsg({"device"})) ELSE mesh[g]]
  BY DEF Push, Inv
<1>2. StateMsg({"device"}) \in States
  BY <1>1, StateIs DEF Flags
<1>3. ASSUME NEW g \in Graph
      PROVE  (IF IsInterested(g, {"device"}) THEN Append(mesh[g], StateMsg({"device"})) ELSE mesh[g])
                \in Seq(States)
  <2>1. mesh[g] \in Seq(States)
    BY <1>1 DEF ChannelsOK
  <2> QED
    BY <1>2, <2>1, AppendProperties
<1>4. mesh' \in [Graph -> Seq(States)]
  BY <1>1, <1>3
<1>5. ChannelsOK'
  BY <1>1, <1>4 DEF ChannelsOK
<1> QED
  BY <1>1, <1>5, PurgeStep

LEMMA PingStep ==
  ASSUME Inv, Ping
  PROVE  Inv'
<1>1. /\ ChannelsOK
      /\ up /\ UNCHANGED <<graphVars, up, version, dirty, toDevice, mesh>>
      /\ subscribers' = Purged /\ due' = due \ {"device"} /\ ToAll(SyncMsg)
  BY DEF Ping, Inv
<1>2. bus' \in [Graph -> Seq({SyncMsg, LogoutMsg})]
  BY <1>1, PutInAll
<1>3. ChannelsOK'
  BY <1>1, <1>2 DEF ChannelsOK
<1> QED
  BY <1>1, <1>3, PurgeStep

LEMMA GoneStep ==
  ASSUME Inv, Logout \/ Crash
  PROVE  Inv'
<1>1. /\ TypeOK /\ ChannelsOK
      /\ UNCHANGED <<graphVars, version, mesh>>
      /\ up' = FALSE /\ subscribers' = <<>> /\ dirty' = {} /\ due' = due \ {"device"}
      /\ toDevice' = [g \in Graph |-> <<>>]
      /\ ToAll(LogoutMsg) \/ UNCHANGED bus
  BY DEF Logout, Crash, Gone, Inv
<1>2. bus' \in [Graph -> Seq({SyncMsg, LogoutMsg})]
  BY <1>1, PutInAll DEF ChannelsOK
<1>3. toDevice' \in [Graph -> Seq(Requests)]
  BY <1>1, EmptySeq
<1>4. ChannelsOK'
  BY <1>1, <1>2, <1>3 DEF ChannelsOK
<1>5. subscribers' \in Seq(Entries) /\ Apart(subscribers')
  BY <1>1, EmptySeq DEF Apart
<1>6. due' \subseteq Graph \cup {"device"} /\ due \ {"device"} \subseteq due'
  BY <1>1 DEF TypeOK
<1> QED
  BY <1>1, <1>4, <1>5, <1>6, AtDevice DEF TypeOK

(* The state is sent, or it is not. *)
LEMMA BroughtUpToDate ==
  ASSUME TypeOK, ChannelsOK, NEW g \in Graph, NEW flags \in Flags, BringUpToDate(g, flags)
  PROVE  mesh' \in [Graph -> Seq(States)] /\ dirty' \subseteq {"device"} \cup Sigs
<1>1. (flags \cup {"device"}) \cap Kinds \in Flags
  BY DEF Flags
<1>2. StateMsg((flags \cup {"device"}) \cap Kinds) \in States
  BY <1>1, StateIs
<1>3. mesh' \in [Graph -> Seq(States)]
  BY <1>2, PutIn DEF BringUpToDate, ChannelsOK
<1> QED
  BY <1>3 DEF BringUpToDate, TypeOK

LEMMA EndLeaseIs ==
  ASSUME Inv, NEW g \in Graph, NEW i \in PositionOf(g), NEW flags \in Flags, EndLease(g, i, flags)
  PROVE  /\ mesh' \in [Graph -> Seq(States)] /\ dirty' \subseteq {"device"} \cup Sigs
         /\ subscribers' \in Seq(Entries) /\ Apart(subscribers')
         /\ \A n \in DOMAIN subscribers' : \E j \in DOMAIN subscribers : subscribers'[n] = subscribers[j]
         /\ Range(subscribers') = {e \in Range(subscribers) : e.graph # g}
<1> DEFINE new  == flags \ subscribers[i].flags
           rest == RemoveAt(subscribers, i)
           next == IF i <= Len(rest) THEN rest[i].graph ELSE g
<1>1. /\ TypeOK /\ ChannelsOK /\ i \in DOMAIN subscribers /\ i \in Nat \ {0}
      /\ subscribers[i].graph = g
  BY ListIs DEF Inv, PositionOf
<1>2. /\ rest \in Seq(Entries) /\ Apart(rest)
      /\ \A n \in DOMAIN rest : \E j \in DOMAIN subscribers : rest[n] = subscribers[j]
      /\ Range(rest) = {e \in Range(subscribers) : e.graph # g}
  BY <1>1, RemovedIs
<1>3. new \in Flags
  BY DEF Flags
<1>4. /\ subscribers' = rest
      /\ IF new = {} THEN UNCHANGED <<mesh, dirty>> ELSE BringUpToDate(next, new)
  BY DEF EndLease
<1> HIDE DEF rest, new
<1>5. next \in Graph
  <2>1. CASE i <= Len(rest)
    <3>1. i \in 1 .. Len(rest)
      BY <1>1, <1>2, <2>1, LenProperties
    <3>2. rest[i] \in Entries
      BY <1>2, <3>1, ElementOfSeq
    <3> QED
      BY <2>1, <3>2 DEF Entries
  <2> QED
    BY <2>1
<1> HIDE DEF next
<1>6. mesh' \in [Graph -> Seq(States)] /\ dirty' \subseteq {"device"} \cup Sigs
  <2>1. CASE new = {}
    BY <1>1, <1>4, <2>1 DEF ChannelsOK, TypeOK
  <2>2. CASE new # {}
    BY <1>1, <1>3, <1>4, <1>5, <2>2, BroughtUpToDate
  <2> QED
    BY <2>1, <2>2
<1> QED
  BY <1>2, <1>4, <1>6

LEMMA RenewIs ==
  ASSUME Inv, NEW g \in Graph, NEW i \in PositionOf(g), NEW flags \in Flags, flags # {},
         NEW lease \in Asked, Renew(g, i, flags, lease)
  PROVE  /\ mesh' \in [Graph -> Seq(States)] /\ dirty' \subseteq {"device"} \cup Sigs
         /\ subscribers' \in Seq(Entries) /\ Apart(subscribers')
         /\ DOMAIN subscribers' = DOMAIN subscribers /\ subscribers'[i].left >= 0
         /\ \A n \in DOMAIN subscribers \ {i} : subscribers'[n] = subscribers[n]
         /\ Range(subscribers') = {e \in Range(subscribers) : e.graph # g}
                                    \cup {[graph |-> g, flags |-> flags, left |-> lease]}
<1> DEFINE e == [graph |-> g, flags |-> flags, left |-> lease]
           new == flags \ subscribers[i].flags
<1>1. /\ TypeOK /\ ChannelsOK /\ Apart(subscribers) /\ i \in DOMAIN subscribers
      /\ subscribers[i].graph = g
      /\ subscribers \in Seq(Entries) /\ DOMAIN subscribers = 1 .. Len(subscribers)
  BY ListIs DEF Inv, PositionOf
<1>2. e \in Entries /\ e.left >= 0 /\ e.graph = g
  BY EntryIs
<1>3. new \in Flags
  BY DEF Flags
<1>4. /\ subscribers' = [subscribers EXCEPT ![i] = e]
      /\ IF new = {} THEN UNCHANGED <<mesh, dirty>> ELSE BringUpToDate(g, new)
  BY DEF Renew
<1> HIDE DEF e, new
<1>5. /\ subscribers' \in Seq(Entries) /\ DOMAIN subscribers' = DOMAIN subscribers
      /\ subscribers'[i] = e /\ \A n \in DOMAIN subscribers \ {i} : subscribers'[n] = subscribers[n]
  BY <1>1, <1>2, <1>4, ExceptSeq
<1>6. \A n \in DOMAIN subscribers : subscribers'[n].graph = subscribers[n].graph
  BY <1>1, <1>2, <1>5
<1>7. Apart(subscribers')
  BY <1>1, <1>5, <1>6 DEF Apart
<1>8. mesh' \in [Graph -> Seq(States)] /\ dirty' \subseteq {"device"} \cup Sigs
  <2>1. CASE new = {}
    BY <1>1, <1>4, <2>1 DEF ChannelsOK, TypeOK
  <2>2. CASE new # {}
    BY <1>1, <1>3, <1>4, <2>2, BroughtUpToDate
  <2> QED
    BY <2>1, <2>2
<1>9. Range(subscribers') = {x \in Range(subscribers) : x.graph # g} \cup {e}
  <2>1. \A n \in DOMAIN subscribers : subscribers[n].graph # g <=> n # i
    BY <1>1 DEF Apart
  <2> QED
    BY <1>1, <1>5, <2>1 DEF Range
<1> QED
  BY <1>2, <1>5, <1>7, <1>8, <1>9 DEF e

LEMMA AdmitIs ==
  ASSUME Inv, NEW g \in Graph, NEW flags \in Flags, NEW lease \in Leases,
         lease = NoLease \/ PositionOf(g) = {}, Admit(g, flags, lease)
  PROVE  /\ mesh' \in [Graph -> Seq(States)] /\ dirty' \subseteq {"device"} \cup Sigs
         /\ subscribers' \in Seq(Entries) /\ Apart(subscribers')
         /\ \A n \in DOMAIN subscribers' :
              \/ subscribers'[n].left >= 0
              \/ \E j \in DOMAIN subscribers : subscribers'[n] = subscribers[j]
         /\ ~(lease > 0 /\ flags # {}) => subscribers' = subscribers
         /\ lease > 0 /\ flags # {} =>
              Range(subscribers') = Range(subscribers) \cup {[graph |-> g, flags |-> flags, left |-> lease]}
<1>1. /\ TypeOK /\ ChannelsOK /\ Apart(subscribers)
      /\ subscribers \in Seq(Entries) /\ DOMAIN subscribers = 1 .. Len(subscribers)
      /\ Len(subscribers) \in Nat
  BY ListIs DEF Inv
<1>2. mesh' \in [Graph -> Seq(States)] /\ dirty' \subseteq {"device"} \cup Sigs
  <2>1. CASE flags = {}
    BY <1>1, <2>1 DEF Admit, ChannelsOK, TypeOK
  <2>2. CASE flags # {}
    BY <1>1, <2>2, BroughtUpToDate DEF Admit
  <2> QED
    BY <2>1, <2>2
<1>3. CASE ~(lease > 0 /\ flags # {})
  <2>1. subscribers' = subscribers
    BY <1>3 DEF Admit
  <2> QED
    BY <1>1, <1>2, <1>3, <2>1
<1>4. CASE lease > 0 /\ flags # {}
  <2> DEFINE e == [graph |-> g, flags |-> flags, left |-> lease]
  <2>1. lease \in Asked /\ lease # NoLease
    BY <1>4 DEF Leases, NoLease
  <2>2. e \in Entries /\ e.left >= 0 /\ e.graph = g
    BY <1>4, <2>1, EntryIs
  <2>3. subscribers' = <<e>> \o subscribers
    BY <1>4 DEF Admit
  <2> HIDE DEF e
  <2>4. <<e>> \in Seq(Entries) /\ Len(<<e>>) = 1 /\ <<e>>[1] = e
    BY <2>2
  <2>5. /\ subscribers' \in Seq(Entries) /\ Len(subscribers') = 1 + Len(subscribers)
        /\ \A n \in 1 .. 1 + Len(subscribers) :
             subscribers'[n] = IF n <= 1 THEN <<e>>[n] ELSE subscribers[n - 1]
    BY <1>1, <2>3, <2>4, ConcatProperties
  <2>6. DOMAIN subscribers' = 1 .. 1 + Len(subscribers)
    BY <2>5, LenProperties
  <2>7. ASSUME NEW n \in DOMAIN subscribers'
        PROVE  \/ n = 1 /\ subscribers'[n] = e
               \/ n # 1 /\ n - 1 \in DOMAIN subscribers /\ subscribers'[n] = subscribers[n - 1]
    BY <1>1, <2>4, <2>5, <2>6
  <2>8. \A j \in DOMAIN subscribers : subscribers[j].graph # g
    BY <2>1 DEF PositionOf
  <2>9. Apart(subscribers')
    <3> SUFFICES ASSUME NEW n \in DOMAIN subscribers', NEW m \in DOMAIN subscribers',
                        subscribers'[n].graph = subscribers'[m].graph
                 PROVE  n = m
      BY DEF Apart
    <3>1. CASE n = 1 \/ m = 1
      BY <2>2, <2>7, <2>8, <3>1
    <3>2. CASE n # 1 /\ m # 1
      <4>1. n - 1 = m - 1
        BY <1>1, <2>7, <3>2 DEF Apart
      <4> QED
        BY <1>1, <2>6, <4>1
    <3> QED
      BY <3>1, <3>2
  <2>10. /\ 1 \in DOMAIN subscribers' /\ subscribers'[1] = e
         /\ \A j \in DOMAIN subscribers :
              j + 1 \in DOMAIN subscribers' /\ subscribers'[j + 1] = subscribers[j]
    BY <1>1, <2>4, <2>5, <2>6
  <2>11. Range(subscribers') = Range(subscribers) \cup {e}
    BY <2>7, <2>10 DEF Range
  <2> QED
    BY <1>2, <1>4, <2>2, <2>5, <2>7, <2>9, <2>11 DEF e
<1> QED
  BY <1>3, <1>4

LEMMA ReceiveRequestStep ==
  ASSUME Inv, NEW g \in Graph, ReceiveRequest(g)
  PROVE  Inv'
<1> DEFINE m == Head(toDevice[g])
           flags == Parsed(m.words)
<1>1. /\ TypeOK /\ ChannelsOK /\ Polled /\ up /\ toDevice[g] # <<>>
      /\ toDevice' = [toDevice EXCEPT ![g] = Tail(@)]
      /\ UNCHANGED <<graphVars, up, version, bus, due>>
  BY DEF ReceiveRequest, Inv
<1>2. m \in Requests /\ m.lease \in Leases /\ flags \in Flags
  <2>1. toDevice[g] \in Seq(Requests) /\ toDevice[g] # <<>>
    BY <1>1 DEF ChannelsOK
  <2>2. m \in Requests
    BY <2>1, HeadTailProperties
  <2>3. flags \in Flags
    BY ParsedIs
  <2> HIDE DEF m, flags
  <2> QED
    BY <2>2, <2>3 DEF Requests
<1>3. \/ (m.lease = NoLease \/ PositionOf(g) = {}) /\ Admit(g, flags, m.lease)
      \/ \E i \in PositionOf(g) :
            \/ EndLease(g, i, flags)
            \/ flags # {} /\ m.lease # 0 /\ m.lease >= 0 /\ Renew(g, i, flags, m.lease)
  BY DEF ReceiveRequest
<1> HIDE DEF m, flags
<1>4. toDevice' \in [Graph -> Seq(Requests)]
  BY <1>1, Popped DEF ChannelsOK
<1>5. \A j \in DOMAIN subscribers : "device" \notin due => subscribers[j].left >= 0
  BY <1>1 DEF Polled
<1>6. /\ mesh' \in [Graph -> Seq(States)] /\ dirty' \subseteq {"device"} \cup Sigs
      /\ subscribers' \in Seq(Entries) /\ Apart(subscribers')
      /\ "device" \notin due => \A n \in DOMAIN subscribers' : subscribers'[n].left >= 0
  <2>1. CASE (m.lease = NoLease \/ PositionOf(g) = {}) /\ Admit(g, flags, m.lease)
    BY <1>2, <1>5, <2>1, AdmitIs
  <2>2. ASSUME NEW i \in PositionOf(g), EndLease(g, i, flags)
        PROVE  <1>6!:
    BY <1>2, <1>5, <2>2, EndLeaseIs
  <2>3. ASSUME NEW i \in PositionOf(g), flags # {}, m.lease # 0, m.lease >= 0, Renew(g, i, flags, m.lease)
        PROVE  <1>6!:
    <3>1. m.lease \in Asked
      BY <1>2, <2>3 DEF Leases, NoLease
    <3>2. /\ mesh' \in [Graph -> Seq(States)] /\ dirty' \subseteq {"device"} \cup Sigs
          /\ subscribers' \in Seq(Entries) /\ Apart(subscribers')
          /\ DOMAIN subscribers' = DOMAIN subscribers /\ subscribers'[i].left >= 0
          /\ \A n \in DOMAIN subscribers \ {i} : subscribers'[n] = subscribers[n]
      BY <1>2, <2>3, <3>1, RenewIs
    <3> QED
      BY <1>5, <3>2
  <2> QED
    BY <1>3, <2>1, <2>2, <2>3
<1>7. ChannelsOK'
  BY <1>1, <1>4, <1>6 DEF ChannelsOK
<1>8. due' \subseteq Graph \cup {"device"} /\ due \ {"device"} \subseteq due' /\ due' = due
  BY <1>1 DEF TypeOK
<1>9. up' \in BOOLEAN /\ up' /\ version' \in Versions
  BY <1>1 DEF TypeOK
<1> QED
  BY <1>1, <1>6, <1>7, <1>8, <1>9, AtDevice

LEMMA ReceiveWhoStep ==
  ASSUME Inv, NEW g \in Graph, ReceiveWho(g)
  PROVE  Inv'
<1>1. /\ TypeOK /\ ChannelsOK /\ toDevice[g] # <<>>
      /\ toDevice' = [toDevice EXCEPT ![g] = Tail(@)] /\ ToAll(SyncMsg)
      /\ UNCHANGED <<graphVars, deviceVars, mesh, due>>
  BY DEF ReceiveWho, Inv
<1>2. bus' \in [Graph -> Seq({SyncMsg, LogoutMsg})] /\ toDevice' \in [Graph -> Seq(Requests)]
  BY <1>1, PutInAll, Popped DEF ChannelsOK
<1>3. ChannelsOK'
  BY <1>1, <1>2 DEF ChannelsOK
<1> QED
  BY <1>1, <1>3, AtGraph DEF TypeOK, Subs, RenewalDue, IsSubscribed, graphVars

LEMMA LoseStep ==
  ASSUME Inv, NEW g \in Graph, Lose(g)
  PROVE  Inv'
<1>1. /\ TypeOK /\ ChannelsOK /\ UNCHANGED <<graphVars, deviceVars, mesh, due>>
      /\ \/ toDevice[g] # <<>> /\ toDevice' = [toDevice EXCEPT ![g] = Tail(@)] /\ UNCHANGED bus
         \/ bus[g] # <<>> /\ bus' = [bus EXCEPT ![g] = Tail(@)] /\ UNCHANGED toDevice
  BY DEF Lose, Inv
<1>2. bus \in [Graph -> Seq({SyncMsg, LogoutMsg})] /\ toDevice \in [Graph -> Seq(Requests)]
  BY <1>1 DEF ChannelsOK
<1>3. bus' \in [Graph -> Seq({SyncMsg, LogoutMsg})] /\ toDevice' \in [Graph -> Seq(Requests)]
  <2>1. CASE toDevice[g] # <<>> /\ toDevice' = [toDevice EXCEPT ![g] = Tail(@)] /\ UNCHANGED bus
    BY <1>2, <2>1, Popped
  <2>2. CASE bus[g] # <<>> /\ bus' = [bus EXCEPT ![g] = Tail(@)] /\ UNCHANGED toDevice
    BY <1>2, <2>2, Popped
  <2> QED
    BY <1>1, <2>1, <2>2
<1>4. ChannelsOK'
  BY <1>1, <1>3 DEF ChannelsOK
<1> QED
  BY <1>1, <1>4, AtGraph DEF TypeOK, Subs, RenewalDue, IsSubscribed, graphVars

(* Entries stay apart where none changes its graph. *)
LEMMA StillApart ==
  ASSUME NEW s, NEW t, Apart(s), DOMAIN t = DOMAIN s,
         \A i \in DOMAIN s : t[i].graph = s[i].graph
  PROVE  Apart(t)
BY DEF Apart

LEMMA TickStep ==
  ASSUME Inv, Tick
  PROVE  Inv'
<1> USE LeasesAre
<1>1. /\ TypeOK /\ ChannelsOK /\ Polled /\ Apart(subscribers) /\ due = {}
      /\ due' = Graph \cup (IF up THEN {"device"} ELSE {})
      /\ synced' = [g \in Graph |-> IF synced[g] = Never \/ synced[g] = Timeout
                                    THEN synced[g] ELSE synced[g] + 1]
      /\ sub' = [g \in Graph |-> IF IsSubscribed(sub[g]) THEN [sub[g] EXCEPT !.left = @ - 1]
                                                         ELSE sub[g]]
      /\ subscribers' = [i \in DOMAIN subscribers |-> [subscribers[i] EXCEPT !.left = @ - 1]]
      /\ UNCHANGED <<known, autosub, view, up, version, dirty, toDevice, bus, mesh>>
  BY DEF Inv, Tick, netVars
<1>2. due' \subseteq Graph \cup {"device"} /\ Graph \subseteq due' /\ (up => "device" \in due')
  BY <1>1
<1>3. synced' \in [Graph -> {Never} \cup 0 .. Timeout]
  <2>1. ASSUME NEW g \in Graph, synced[g] # Never, synced[g] # Timeout
        PROVE  synced[g] + 1 \in 0 .. Timeout
    <3>1. synced[g] \in 0 .. Timeout
      BY <1>1, <2>1 DEF TypeOK
    <3> QED
      BY <2>1, <3>1
  <2> QED
    BY <1>1, <2>1 DEF TypeOK
<1>4. sub' \in [Graph -> Subs]
  <2>1. ASSUME NEW g \in Graph
        PROVE  sub'[g] \in Subs
    <3>1. sub[g] \in Subs /\ sub[g].left \in -Timeout .. AutosubInterval
      BY <1>1 DEF TypeOK, Subs
    <3>2. CASE ~IsSubscribed(sub[g])
      BY <1>1, <3>1, <3>2
    <3>3. CASE IsSubscribed(sub[g])
      <4>1. ~(sub[g].left <= -Timeout)
        BY <1>1, <3>3 DEF Polled, RenewalDue
      <4>2. sub[g].left - 1 \in -Timeout .. AutosubInterval
        BY <3>1, <4>1
      <4>3. sub'[g] = [sub[g] EXCEPT !.left = @ - 1]
        BY <1>1, <3>3
      <4> QED
        BY <3>1, <4>2, <4>3 DEF Subs
    <3> QED
      BY <3>2, <3>3
  <2>2. sub' = [g \in Graph |-> sub'[g]]
    BY <1>1
  <2> QED
    BY <2>1, <2>2
<1>5. /\ subscribers' \in Seq(Entries) /\ DOMAIN subscribers' = DOMAIN subscribers
      /\ \A i \in DOMAIN subscribers : subscribers'[i].graph = subscribers[i].graph
  <2>1. ASSUME NEW i \in DOMAIN subscribers
        PROVE  /\ subscribers'[i] \in Entries
               /\ subscribers'[i].graph = subscribers[i].graph
    <3>1. subscribers[i] \in Entries /\ subscribers[i].left >= 0
      <4>1. up
        BY <1>1, EmptySeq DEF Polled
      <4> QED
        BY <1>1, <4>1, ListIs, ElementOfSeq DEF Polled
    <3>2. subscribers'[i] = [subscribers[i] EXCEPT !.left = @ - 1]
      BY <1>1
    <3> QED
      BY <3>1, <3>2, EntryLeft
  <2>2. DOMAIN subscribers = 1 .. Len(subscribers) /\ Len(subscribers) \in Nat
    BY <1>1, ListIs
  <2>3. DOMAIN subscribers' = DOMAIN subscribers
    BY <1>1
  <2>4. subscribers' \in [1 .. Len(subscribers) -> Entries]
    <3>1. subscribers' = [i \in 1 .. Len(subscribers) |-> subscribers'[i]]
      BY <1>1, <2>2
    <3> QED
      BY <2>1, <2>2, <3>1
  <2> QED
    BY <2>1, <2>2, <2>3, <2>4, IsASeq
<1>6. Apart(subscribers')
  <2>1. Apart(subscribers)
    BY <1>1
  <2> QED
    BY <1>5, <2>1, StillApart
<1>7. TypeOK'
  <2>1. /\ known' \in [Graph -> BOOLEAN] /\ autosub' \in [Graph -> Flags]
        /\ view' \in [Graph -> Versions] /\ up' \in BOOLEAN
        /\ version' \in Versions /\ dirty' \subseteq {"device"} \cup Sigs
    BY <1>1 DEF TypeOK
  <2> QED
    BY <1>2, <1>3, <1>4, <1>5, <2>1 DEF TypeOK, Subs
<1>8. ChannelsOK'
  BY <1>1 DEF ChannelsOK
<1>9. Polled'
  <2>1. Graph \ due' = {} /\ ~(up' /\ "device" \notin due')
    BY <1>1, <1>2
  <2>2. ~up' => subscribers' = <<>>
    <3>1. ASSUME ~up
          PROVE  subscribers' = <<>>
      <4>1. subscribers = <<>>
        BY <1>1, <3>1 DEF Polled
      <4>2. Len(subscribers') = 0
        BY <1>5, <4>1, LenProperties, EmptySeq
      <4> QED
        BY <1>5, <4>2, EmptySeq
    <3> QED
      BY <1>1, <3>1
  <2> QED
    BY <2>1, <2>2 DEF Polled
<1> QED
  BY <1>6, <1>7, <1>8, <1>9 DEF Inv

LEMMA StutterStep ==
  ASSUME Inv, UNCHANGED vars
  PROVE  Inv'
<1>1. /\ UNCHANGED <<known, synced, sub, autosub, view>>
      /\ UNCHANGED <<up, version, dirty, subscribers, toDevice, bus, mesh, due>>
  BY DEF vars, graphVars, deviceVars, netVars
<1>2. TypeOK' /\ ChannelsOK' /\ Apart(subscribers)'
  BY <1>1 DEF Inv, TypeOK, ChannelsOK, Apart
<1>3. Polled'
  BY <1>1 DEF Inv, Polled, RenewalDue, IsSubscribed
<1> QED
  BY <1>2, <1>3 DEF Inv

-----------------------------------------------------------------------------
(* At the start there is nobody and nothing under way. *)
LEMMA Initially ==
  ASSUME Init
  PROVE  Inv
<1> USE LeasesAre
<1>1. Never \in {Never} /\ {} \in Flags /\ NoView \in Versions
  <2>1. MaxChanges \in Nat /\ -1 \in -1 .. MaxChanges
    BY BoundsAssumption
  <2> QED
    BY <2>1 DEF Flags, NoView, Versions
<1>2. version \in Versions
  <2>1. MaxChanges \in Nat /\ 0 \in -1 .. MaxChanges
    BY BoundsAssumption
  <2> QED
    BY <2>1 DEF Init, Versions
<1>3. \A T : <<>> \in Seq(T)
  BY EmptySeq
<1>4. subscribers = <<>> /\ DOMAIN subscribers = {} /\ ~up /\ due = {}
  BY EmptySeq DEF Init
<1>5. sub \in [Graph -> Subs] /\ \A g \in Graph : ~IsSubscribed(sub[g])
  BY NoSubIs DEF Init, IsSubscribed
<1>6. ChannelsOK
  BY <1>3 DEF Init, ChannelsOK
<1>7. TypeOK
  BY <1>1, <1>2, <1>3, <1>4, <1>5 DEF Init, TypeOK, Subs
<1>8. Polled
  BY <1>4, <1>5 DEF Polled, RenewalDue
<1>9. Apart(subscribers)
  BY <1>4 DEF Apart
<1> QED
  BY <1>6, <1>7, <1>8, <1>9 DEF Inv

LEMMA EveryStep ==
  ASSUME Inv, [Next]_vars
  PROVE  Inv'
<1>1. CASE Tick
  BY <1>1, TickStep
<1>2. CASE Start \/ Rewrite
  BY <1>2, StartStep, RewriteStep
<1>3. CASE Inform \/ Push \/ Ping
  BY <1>3, InformStep, PushStep, PingStep
<1>4. CASE Logout \/ Crash
  BY <1>4, GoneStep
<1>5. ASSUME NEW k \in Kinds, Change(k)
      PROVE  Inv'
  BY <1>5, ChangeStep
<1>6. ASSUME NEW g \in Graph, Call(g)
      PROVE  Inv'
  <2>1. CASE \E flags \in FlagSets \cup {{}}, lease \in TempLeases \cup {0, NoLease} :
               Subscribe(g, flags, lease)
    BY <2>1, SubscribeStep
  <2>2. CASE \E flags \in FlagSets \cup {{}} : Autosubscribe(g, flags)
    BY <2>2, AutosubscribeStep
  <2> QED
    BY <1>6, <2>1, <2>2 DEF Call
<1>7. ASSUME NEW g \in Graph, Housekeeping(g)
      PROVE  Inv'
  BY <1>7, HousekeepingStep
<1>8. ASSUME NEW g \in Graph, ReceiveAtGraph(g)
      PROVE  Inv'
  BY <1>8, ReceiveSyncStep, ReceiveLogoutStep, ReceiveStateStep DEF ReceiveAtGraph
<1>9. ASSUME NEW g \in Graph, ReceiveAtDevice(g)
      PROVE  Inv'
  BY <1>9, ReceiveRequestStep, ReceiveWhoStep DEF ReceiveAtDevice
<1>10. ASSUME NEW g \in Graph, Lose(g)
       PROVE  Inv'
  BY <1>10, LoseStep
<1>11. CASE UNCHANGED vars
  BY <1>11, StutterStep
<1> QED
  BY <1>1, <1>2, <1>3, <1>4, <1>5, <1>6, <1>7, <1>8, <1>9, <1>10, <1>11 DEF Next

LEMMA Invariant == Spec => []Inv
<1>1. Init => Inv
  BY Initially
<1>2. Inv /\ [Next]_vars => Inv'
  BY EveryStep
<1> QED
  BY <1>1, <1>2, PTL DEF Spec

-----------------------------------------------------------------------------
(* Every variable keeps its type: no lease is longer than the longest that *)
(* is asked for, no graph lets a renewal pass by more than Timeout, and no *)
(* entry stays with the device for more than a tick after its end          *)
(* (mpr_graph_housekeeping, mpr_dev_manage_subscriber,                     *)
(* mpr_local_dev_send_to_subscribers).                                     *)
THEOREM LeasesRunOut == Spec => []TypeOK
<1>1. Inv => TypeOK
  BY DEF Inv
<1> QED
  BY <1>1, Invariant, PTL

(* A device never keeps two leases for one graph, however many graphs ask  *)
(* for whatever kinds and leases, with losses, departures and restarts     *)
(* (mpr_dev_manage_subscriber).                                            *)
THEOREM OneLeaseEach == Spec => []NoDuplicateSubscribers
<1>1. ASSUME Inv
      PROVE  NoDuplicateSubscribers
  <2> SUFFICES ASSUME NEW g \in Graph
               PROVE  Cardinality(Entry(g)) <= 1
    BY DEF NoDuplicateSubscribers
  <2>1. \A i, j \in Entry(g) : i = j
    BY <1>1 DEF Inv, Apart, Entry
  <2>2. CASE Entry(g) = {}
    BY <2>2, FS_EmptySet
  <2>3. ASSUME NEW i \in Entry(g)
        PROVE  Cardinality(Entry(g)) <= 1
    <3>1. Entry(g) = {i}
      BY <2>1, <2>3
    <3>2. Cardinality({i}) = 1
      BY FS_Singleton
    <3>3. 1 <= 1
      OBVIOUS
    <3> HIDE DEF Entry
    <3> QED
      BY <3>1, <3>2, <3>3
  <2> QED
    BY <2>2, <2>3
<1> QED
  BY <1>1, Invariant, PTL
=============================================================================
