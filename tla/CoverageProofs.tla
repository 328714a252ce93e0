--------------------------- MODULE CoverageProofs ---------------------------
(***************************************************************************)
(* What subscriptions promise to graphs, for any number of them.  Where    *)
(* nothing is lost, the device stays and programs make no temporary        *)
(* subscriptions, the device has a lease for every graph that keeps its    *)
(* subscription alive, and it sends the state to whoever asks for kinds it *)
(* did not have.  Where nothing is lost, whatever else happens, whoever    *)
(* has a lease knows the latest state of the signals, and of the device as *)
(* well if it is the only graph.                                           *)
(*                                                                         *)
(* None is inductive: between the graph's record and the device's list lie *)
(* the requests under way, and the last of them that names a lease settles *)
(* what the device will have (Agrees); between the state of the device and *)
(* what a graph knows of it lie the messages under way, and the last of    *)
(* them about a kind settles what the graph will know (Tells).             *)
(***************************************************************************)
EXTENDS SubscriptionProofs

(* The words of a request name the kinds that were asked for: so they do   *)
(* but for maps of one direction only, whose words are understood as       *)
(* nothing.                                                                *)
Understood == \A flags \in FlagSets : flags \subseteq Parsed(Words(flags))

(* Whoever asks for maps of one direction asks for the other as well. *)
LEMMA WordsOfBoth ==
  ASSUME \A flags \in FlagSets : AllMaps \cap flags \in {{}, AllMaps}
  PROVE  Understood
<1> SUFFICES ASSUME NEW flags \in FlagSets, NEW k \in flags
             PROVE  k \in Parsed(Words(flags))
  BY DEF Understood
<1>1. k \in {"device"} \cup AllSigs \cup AllMaps
  BY FlagSetsAre DEF Flags
<1>2. CASE flags = {"device"} \cup AllSigs \cup AllMaps
  <2>1. Words(flags) = {"all"}
    BY <1>2 DEF Words
  <2>2. MeaningOf("all") = {"device"} \cup AllSigs \cup AllMaps
    BY DEF MeaningOf
  <2> QED
    BY <1>1, <2>1, <2>2 DEF Parsed
<1>3. CASE flags # {"device"} \cup AllSigs \cup AllMaps
  <2>1. \A w : w \in Words(flags) <=>
          \/ w = "device" /\ "device" \in flags
          \/ w = "signals" /\ AllSigs \subseteq flags
          \/ w = "inputs" /\ AllSigs \cap flags = {"sig_in"}
          \/ w = "outputs" /\ AllSigs \cap flags = {"sig_out"}
          \/ w = "maps" /\ AllMaps \subseteq flags
          \/ w = "incoming_maps" /\ AllMaps \cap flags = {"map_in"}
          \/ w = "outgoing_maps" /\ AllMaps \cap flags = {"map_out"}
    BY <1>3 DEF Words
  <2>2. /\ MeaningOf("device") = {"device"} /\ MeaningOf("signals") = AllSigs
        /\ MeaningOf("inputs") = {"sig_in"} /\ MeaningOf("outputs") = {"sig_out"}
        /\ MeaningOf("maps") = AllMaps
    BY DEF MeaningOf
  <2>3. CASE k = "device"
    BY <2>1, <2>2, <2>3 DEF Parsed
  <2>4. CASE k \in AllSigs
    <3>1. AllSigs \subseteq flags \/ AllSigs \cap flags = {k}
      BY <2>4 DEF AllSigs
    <3>2. k = "sig_in" \/ k = "sig_out"
      BY <2>4 DEF AllSigs
    <3> QED
      BY <2>1, <2>2, <2>4, <3>1, <3>2 DEF Parsed
  <2>5. CASE k \in AllMaps
    <3>1. AllMaps \subseteq flags
      BY <2>5
    <3> QED
      BY <2>1, <2>2, <2>5, <3>1 DEF Parsed
  <2> QED
    BY <1>1, <2>3, <2>4, <2>5
<1> QED
  BY <1>2, <1>3

(* Programs subscribe for good, nothing is lost and the device stays; a    *)
(* graph may be late with a renewal by no more than the buffer.            *)
Undisturbed ==
  /\ TempLeases = {} /\ MaxLosses = 0 /\ MaxDepartures = 0
  /\ Timeout <= Buffer /\ Understood

-----------------------------------------------------------------------------
(* Requests R that are under way to the device *)

IsLeased(m) == m.lease >= 0

(* The first n of them name no lease. *)
Silent(R, n) == \A j \in 1 .. n : ~IsLeased(R[j])

(* The i-th is the last of the first n that names a lease. *)
Decides(R, n, i) == i \in 1 .. n /\ IsLeased(R[i]) /\ \A j \in i + 1 .. n : ~IsLeased(R[j])

(* What the device has for the graph, now that its entries are P, once the *)
(* requests have arrived: a lease that covers s, or after n of them none.  *)
Grants(s, R, P) ==
  \/ \E i \in 1 .. Len(R) :
       /\ Decides(R, Len(R), i) /\ R[i].lease = AutosubInterval
       /\ s.flags \subseteq Parsed(R[i].words) /\ s.left + Buffer <= AutosubInterval
  \/ /\ Silent(R, Len(R))
     /\ \E e \in P : s.flags \subseteq e.flags /\ s.left + Buffer <= e.left

Frees(R, n, P) ==
  \/ \E i \in 1 .. n : Decides(R, n, i) /\ R[i].lease = 0
  \/ Silent(R, n) /\ P = {}

(* The graph's record s agrees with that, and who asks for kinds with no   *)
(* lease does so only when it has none.                                    *)
Agrees(s, R, P) ==
  /\ s.flags \in FlagSets \cup {{}}
  /\ IsSubscribed(s) => s.flags # {} /\ Grants(s, R, P)
  /\ ~IsSubscribed(s) => Frees(R, Len(R), P)
  /\ \A i \in 1 .. Len(R) :
       R[i].lease = 0 /\ Parsed(R[i].words) # {} => Frees(R, i - 1, P)

(* the entries of a graph *)
Of(list, g) == {e \in Range(list) : e.graph = g}

Alone(g) == ~known[g] /\ sub[g] = NoSub /\ toDevice[g] = <<>> /\ bus[g] = <<>> /\ mesh[g] = <<>>

Agreement ==
  /\ losses = 0 /\ departures = 0
  /\ \A g \in Graph : autosub[g] \in FlagSets \cup {{}}
  /\ \A g \in Graph : Agrees(sub[g], toDevice[g], Of(subscribers, g))
  /\ ~up => \A g \in Graph : Alone(g)
-----------------------------------------------------------------------------
(* Requests that are added and taken away *)

(* What the first requests settle does not change with those that follow. *)
LEMMA Added ==
  ASSUME NEW R \in Seq(Requests), NEW m \in Requests, NEW P, NEW Q,
         Q = R \o <<m>>
  PROVE  /\ Q \in Seq(Requests) /\ Len(R) \in Nat /\ Len(Q) = Len(R) + 1
         /\ Q[Len(R) + 1] = m
         /\ \A i \in 1 .. Len(R) : Q[i] = R[i]
         /\ \A n \in 0 .. Len(R) : Frees(R, n, P) => Frees(Q, n, P)
<1>1. <<m>> \in Seq(Requests) /\ Len(<<m>>) = 1 /\ <<m>>[1] = m
  OBVIOUS
<1>2. /\ Q \in Seq(Requests) /\ Len(R) \in Nat /\ Len(Q) = Len(R) + 1
      /\ \A i \in 1 .. Len(R) + 1 : Q[i] = IF i <= Len(R) THEN R[i] ELSE <<m>>[i - Len(R)]
  BY <1>1, ConcatProperties, LenProperties
<1>3. /\ Q[Len(R) + 1] = m
      /\ \A i \in 1 .. Len(R) : Q[i] = R[i]
  BY <1>1, <1>2
<1>4. ASSUME NEW n \in 0 .. Len(R), Frees(R, n, P)
      PROVE  Frees(Q, n, P)
  <2>1. \A i \in 1 .. n : Q[i] = R[i]
    BY <1>2, <1>3
  <2>2. \A i \in 1 .. n : \A j \in i + 1 .. n : Q[j] = R[j]
    BY <1>2, <1>3
  <2> QED
    BY <1>4, <2>1, <2>2 DEF Frees, Silent, Decides, IsLeased
<1> QED
  BY <1>2, <1>3, <1>4

(* A request that names no lease settles nothing. *)
LEMMA AddedUnleased ==
  ASSUME NEW R \in Seq(Requests), NEW m \in Requests, m.lease = NoLease, NEW P, NEW s,
         Agrees(s, R, P)
  PROVE  Agrees(s, R \o <<m>>, P)
<1> DEFINE Q == R \o <<m>>
<1>1. /\ Q \in Seq(Requests) /\ Len(R) \in Nat /\ Len(Q) = Len(R) + 1
      /\ Q[Len(R) + 1] = m
      /\ \A i \in 1 .. Len(R) : Q[i] = R[i]
      /\ \A n \in 0 .. Len(R) : Frees(R, n, P) => Frees(Q, n, P)
  BY Added
<1> HIDE DEF Q
<1>2. ~IsLeased(Q[Len(R) + 1]) /\ Q[Len(R) + 1].lease # 0
  BY <1>1 DEF IsLeased, NoLease
<1>3. Silent(R, Len(R)) => Silent(Q, Len(Q))
  BY <1>1, <1>2 DEF Silent, IsLeased
<1>4. ASSUME NEW i \in 1 .. Len(R), Decides(R, Len(R), i)
      PROVE  i \in 1 .. Len(Q) /\ Decides(Q, Len(Q), i) /\ Q[i] = R[i]
  <2>1. i \in 1 .. Len(Q)
    BY <1>1
  <2>2. ASSUME NEW j \in i + 1 .. Len(Q)
        PROVE  ~IsLeased(Q[j])
    <3>1. j = Len(R) + 1 \/ (j \in i + 1 .. Len(R) /\ j \in 1 .. Len(R))
      BY <1>1
    <3> QED
      BY <1>1, <1>2, <1>4, <3>1 DEF Decides, IsLeased
  <2> QED
    BY <1>1, <1>4, <2>1, <2>2 DEF Decides, IsLeased
<1>5. Grants(s, R, P) => Grants(s, Q, P)
  BY <1>3, <1>4 DEF Grants
<1>6. Frees(R, Len(R), P) => Frees(Q, Len(Q), P)
  BY <1>3, <1>4 DEF Frees
<1>7. ASSUME NEW i \in 1 .. Len(Q), Q[i].lease = 0, Parsed(Q[i].words) # {}
      PROVE  Frees(Q, i - 1, P)
  <2>1. i \in 1 .. Len(R) /\ i - 1 \in 0 .. Len(R)
    BY <1>1, <1>2, <1>7
  <2>2. Frees(R, i - 1, P)
    BY <1>1, <1>7, <2>1 DEF Agrees
  <2> QED
    BY <1>1, <2>1, <2>2
<1>8. Agrees(s, Q, P)
  BY <1>5, <1>6, <1>7 DEF Agrees
<1> QED
  BY <1>8 DEF Q

(* One that names a lease does. *)
LEMMA AddedLeased ==
  ASSUME NEW R \in Seq(Requests), NEW m \in Requests, IsLeased(m), NEW P, NEW s, NEW t,
         Agrees(s, R, P), t.flags \in FlagSets \cup {{}},
         IsSubscribed(t) =>
           /\ t.flags # {} /\ t.flags \subseteq Parsed(m.words)
           /\ m.lease = AutosubInterval /\ t.left + Buffer <= AutosubInterval,
         ~IsSubscribed(t) => m.lease = 0,
         m.lease = 0 /\ Parsed(m.words) # {} => ~IsSubscribed(s)
  PROVE  Agrees(t, R \o <<m>>, P)
<1> DEFINE Q == R \o <<m>>
<1>1. /\ Q \in Seq(Requests) /\ Len(R) \in Nat /\ Len(Q) = Len(R) + 1
      /\ Q[Len(R) + 1] = m
      /\ \A i \in 1 .. Len(R) : Q[i] = R[i]
      /\ \A n \in 0 .. Len(R) : Frees(R, n, P) => Frees(Q, n, P)
  BY Added
<1> HIDE DEF Q
<1>2. Len(Q) \in 1 .. Len(Q) /\ Q[Len(Q)] = m /\ Decides(Q, Len(Q), Len(Q))
  <2>1. Len(Q) \in 1 .. Len(Q) /\ Q[Len(Q)] = m /\ Len(Q) + 1 .. Len(Q) = {}
    BY <1>1
  <2> QED
    BY <2>1 DEF Decides
<1>3. IsSubscribed(t) => Grants(t, Q, P)
  BY <1>2 DEF Grants
<1>4. ~IsSubscribed(t) => Frees(Q, Len(Q), P)
  BY <1>2 DEF Frees
<1>5. ASSUME NEW i \in 1 .. Len(Q), Q[i].lease = 0, Parsed(Q[i].words) # {}
      PROVE  Frees(Q, i - 1, P)
  <2>1. CASE i = Len(R) + 1
    <3>1. Frees(R, Len(R), P)
      BY <1>1, <1>5, <2>1 DEF Agrees
    <3>2. i - 1 = Len(R) /\ Len(R) \in 0 .. Len(R)
      BY <1>1, <2>1
    <3> QED
      BY <1>1, <3>1, <3>2
  <2>2. CASE i # Len(R) + 1
    <3>1. i \in 1 .. Len(R) /\ i - 1 \in 0 .. Len(R)
      BY <1>1, <2>2
    <3>2. Frees(R, i - 1, P)
      BY <1>1, <1>5, <3>1 DEF Agrees
    <3> QED
      BY <1>1, <3>1, <3>2
  <2> QED
    BY <2>1, <2>2
<1>6. Agrees(t, Q, P)
  BY <1>3, <1>4, <1>5 DEF Agrees
<1> QED
  BY <1>6 DEF Q

(* What becomes of the entries P of the graph as a request m arrives *)
Becomes(m, P, P2) ==
  /\ ~IsLeased(m) => P2 = P
  /\ m.lease = 0 => P2 = {}
  /\ m.lease = AutosubInterval /\ Parsed(m.words) # {} =>
       \E e \in P2 : e.flags = Parsed(m.words) /\ e.left = AutosubInterval

LEMMA Arrived ==
  ASSUME NEW R \in Seq(Requests), R # <<>>, NEW P, NEW P2, NEW s,
         Becomes(Head(R), P, P2), Agrees(s, R, P)
  PROVE  Agrees(s, Tail(R), P2)
<1> DEFINE Q == Tail(R)
<1>1. /\ Q \in Seq(Requests) /\ Len(R) \in Nat /\ Len(Q) \in Nat /\ Len(R) = Len(Q) + 1
      /\ Head(R) = R[1] /\ \A i \in 1 .. Len(Q) : Q[i] = R[i + 1]
  <2>1. /\ Head(R) \in Requests /\ Tail(R) \in Seq(Requests)
        /\ Len(Tail(R)) = Len(R) - 1 /\ \A i \in 1 .. Len(Tail(R)) : Tail(R)[i] = R[i + 1]
    BY HeadTailProperties
  <2>2. Len(R) \in Nat /\ Len(R) # 0 /\ Head(R) = R[1]
    BY LenProperties, EmptySeq
  <2> HIDE DEF Q
  <2> QED
    BY <2>1, <2>2 DEF Q
<1> HIDE DEF Q
<1>2. \A i \in 2 .. Len(R) : i - 1 \in 1 .. Len(Q) /\ Q[i - 1] = R[i]
  BY <1>1
<1>3. ASSUME NEW n \in 1 .. Len(R), Silent(R, n)
      PROVE  Silent(Q, n - 1) /\ P2 = P
  <2>1. ~IsLeased(R[1])
    BY <1>3 DEF Silent
  <2>2. \A j \in 1 .. n - 1 : j + 1 \in 1 .. n /\ Q[j] = R[j + 1]
    BY <1>1
  <2> QED
    BY <1>1, <1>3, <2>1, <2>2 DEF Silent, Becomes
<1>4. ASSUME NEW n \in 1 .. Len(R), NEW i \in 2 .. n, Decides(R, n, i)
      PROVE  i - 1 \in 1 .. n - 1 /\ Decides(Q, n - 1, i - 1) /\ Q[i - 1] = R[i]
  <2>1. i - 1 \in 1 .. n - 1 /\ Q[i - 1] = R[i]
    BY <1>1, <1>2
  <2>2. \A j \in (i - 1) + 1 .. n - 1 : j + 1 \in i + 1 .. n /\ Q[j] = R[j + 1]
    BY <1>1
  <2> QED
    BY <1>4, <2>1, <2>2 DEF Decides
<1>5. ASSUME NEW n \in 1 .. Len(R), Decides(R, n, 1)
      PROVE  Silent(Q, n - 1)
  <2>1. \A j \in 1 .. n - 1 : j + 1 \in 1 + 1 .. n /\ Q[j] = R[j + 1]
    BY <1>1
  <2> QED
    BY <1>5, <2>1 DEF Decides, Silent
<1>6. Len(R) \in 1 .. Len(R) /\ Len(R) - 1 = Len(Q)
  BY <1>1
<1>7. ASSUME NEW n \in 1 .. Len(R), Frees(R, n, P)
      PROVE  Frees(Q, n - 1, P2)
  <2>1. CASE Silent(R, n) /\ P = {}
    BY <1>3, <2>1 DEF Frees
  <2>2. ASSUME NEW i \in 1 .. n, Decides(R, n, i), R[i].lease = 0, i # 1
        PROVE  Frees(Q, n - 1, P2)
    <3>1. i \in 2 .. n
      BY <2>2
    <3> QED
      BY <1>4, <2>2, <3>1 DEF Frees
  <2>3. CASE Decides(R, n, 1) /\ R[1].lease = 0
    BY <1>1, <1>5, <2>3 DEF Frees, Becomes
  <2> QED
    BY <1>7, <2>1, <2>2, <2>3 DEF Frees
<1>8. ASSUME IsSubscribed(s)
      PROVE  Grants(s, Q, P2)
  <2>1. s.flags # {} /\ Grants(s, R, P)
    BY <1>8 DEF Agrees
  <2>2. CASE /\ Silent(R, Len(R))
             /\ \E e \in P : s.flags \subseteq e.flags /\ s.left + Buffer <= e.left
    BY <1>3, <1>6, <2>2 DEF Grants
  <2>3. ASSUME NEW i \in 1 .. Len(R), Decides(R, Len(R), i), R[i].lease = AutosubInterval,
               s.flags \subseteq Parsed(R[i].words), s.left + Buffer <= AutosubInterval
        PROVE  Grants(s, Q, P2)
    <3>1. CASE i = 1
      <4>1. \E e \in P2 : e.flags = Parsed(R[1].words) /\ e.left = AutosubInterval
        BY <1>1, <2>1, <2>3, <3>1 DEF Becomes
      <4>2. Silent(Q, Len(Q))
        BY <1>5, <1>6, <2>3, <3>1
      <4> QED
        BY <2>3, <3>1, <4>1, <4>2 DEF Grants
    <3>2. CASE i # 1
      <4>1. i \in 2 .. Len(R)
        BY <3>2
      <4>2. i - 1 \in 1 .. Len(Q) /\ Decides(Q, Len(Q), i - 1) /\ Q[i - 1] = R[i]
        BY <1>4, <1>6, <2>3, <4>1
      <4> QED
        BY <2>3, <4>2 DEF Grants
    <3> QED
      BY <3>1, <3>2
  <2> QED
    BY <2>1, <2>2, <2>3 DEF Grants
<1>9. ASSUME ~IsSubscribed(s)
      PROVE  Frees(Q, Len(Q), P2)
  BY <1>6, <1>7, <1>9 DEF Agrees
<1>10. ASSUME NEW i \in 1 .. Len(Q), Q[i].lease = 0, Parsed(Q[i].words) # {}
       PROVE  Frees(Q, i - 1, P2)
  <2>1. i + 1 \in 1 .. Len(R) /\ i \in 1 .. Len(R) /\ (i + 1) - 1 = i /\ Q[i] = R[i + 1]
    BY <1>1
  <2>2. Frees(R, i, P)
    BY <1>10, <2>1 DEF Agrees
  <2> QED
    BY <1>7, <2>1, <2>2
<1>11. Agrees(s, Q, P2)
  BY <1>8, <1>9, <1>10 DEF Agrees
<1> QED
  BY <1>11 DEF Q
-----------------------------------------------------------------------------
(* Changes of the entries and of the record *)

(* Entries whose lease has run out may go: they cover nobody who is not    *)
(* late by more than the buffer.                                           *)
LEMMA Thinned ==
  ASSUME NEW R, NEW P, NEW P2, NEW s, Agrees(s, R, P), P2 \subseteq P,
         \A e \in P : e.left \in Int /\ (e.left >= 0 => e \in P2),
         s.left \in Int, -Buffer <= s.left
  PROVE  Agrees(s, R, P2)
<1> USE LeasesAre
<1>1. ASSUME NEW e \in P, s.left + Buffer <= e.left
      PROVE  e \in P2
  BY <1>1
<1>2. Grants(s, R, P) => Grants(s, R, P2)
  BY <1>1 DEF Grants
<1>3. \A n : Frees(R, n, P) => Frees(R, n, P2)
  BY DEF Frees
<1> QED
  BY <1>2, <1>3 DEF Agrees

(* Less is covered by what covered more. *)
LEMMA Narrowed ==
  ASSUME NEW R, NEW P, NEW s, NEW t, Agrees(s, R, P), IsSubscribed(s),
         t.flags \in FlagSets, t.flags # {}, t.flags \subseteq s.flags, t.left = s.left
  PROVE  Agrees(t, R, P)
<1>1. IsSubscribed(t)
  BY DEF IsSubscribed, NoSub
<1>2. Grants(s, R, P) => Grants(t, R, P)
  BY DEF Grants
<1> QED
  BY <1>1, <1>2 DEF Agrees

LEMMA EntryAged ==
  ASSUME NEW e \in Entries
  PROVE  /\ [e EXCEPT !.left = @ - 1].flags = e.flags
         /\ [e EXCEPT !.left = @ - 1].graph = e.graph
         /\ [e EXCEPT !.left = @ - 1].left = e.left - 1
         /\ e.left \in Int
<1> DEFINE L == UNION {-1 .. m : m \in Asked}
<1>1. Entries = [graph : Graph, flags : Flags \ {{}}, left : L]
  BY DEF Entries
<1>2. L \subseteq Int
  BY LeasesAre
<1> HIDE DEF L
<1> QED
  BY <1>1, <1>2

(* A tick takes as much from the lease as from the record. *)
LEMMA Aged ==
  ASSUME NEW P, NEW P2, NEW s, NEW t, Agrees(s, <<>>, P),
         IsSubscribed(s) => t.flags = s.flags /\ t.left = s.left - 1,
         ~IsSubscribed(s) => t = s,
         P2 = {[e EXCEPT !.left = @ - 1] : e \in P},
         s.left \in Int, \A e \in P : e \in Entries /\ e.left \in Int
  PROVE  Agrees(t, <<>>, P2)
<1>1. Len(<<>>) = 0 /\ 1 .. 0 = {} /\ 1 .. Len(<<>>) = {}
  BY EmptySeq
<1>2. ASSUME IsSubscribed(s)
      PROVE  IsSubscribed(t) /\ t.flags # {} /\ Grants(t, <<>>, P2)
  <2>1. s.flags # {} /\ Grants(s, <<>>, P)
    BY <1>2 DEF Agrees
  <2>2. PICK e \in P : s.flags \subseteq e.flags /\ s.left + Buffer <= e.left
    BY <1>1, <2>1 DEF Grants
  <2> DEFINE f == [e EXCEPT !.left = @ - 1]
  <2>3. f \in P2 /\ f.flags = e.flags /\ f.left = e.left - 1
    <3>1. f \in P2
      OBVIOUS
    <3>2. e \in Entries
      BY <2>2
    <3>3. f.flags = e.flags /\ f.left = e.left - 1
      BY <3>2, EntryAged
    <3> QED
      BY <3>1, <3>3
  <2> HIDE DEF f
  <2>4. t.left + Buffer <= f.left
    <3>1. t.left = s.left - 1 /\ f.left = e.left - 1
      BY <1>2, <2>3
    <3>2. /\ s.left \in Int /\ e.left \in Int /\ Buffer \in Int
          /\ s.left + Buffer <= e.left
      BY <2>2, LeasesAre
    <3>3. \A a, b, c \in Int : a + c <= b => (a - 1) + c <= b - 1
      OBVIOUS
    <3>4. (s.left - 1) + Buffer <= e.left - 1
      BY <3>2, <3>3
    <3> QED
      BY <3>1, <3>4
  <2>5. t.flags \subseteq f.flags
    BY <1>2, <2>2, <2>3
  <2> QED
    BY <1>1, <1>2, <2>1, <2>3, <2>4, <2>5 DEF Grants, Silent, IsSubscribed, NoSub
<1>3. ASSUME ~IsSubscribed(s)
      PROVE  ~IsSubscribed(t) /\ Frees(<<>>, Len(<<>>), P2)
  <2>1. Frees(<<>>, Len(<<>>), P)
    BY <1>3 DEF Agrees
  <2>2. P = {}
    BY <1>1, <2>1 DEF Frees
  <2>3. P2 = {}
    BY <2>2
  <2> QED
    BY <1>1, <1>3, <2>3 DEF Frees, Silent
<1>4. t.flags \in FlagSets \cup {{}}
  BY <1>2, <1>3 DEF Agrees
<1> QED
  BY <1>1, <1>2, <1>3, <1>4 DEF Agrees

-----------------------------------------------------------------------------
(* Steps at a graph *)

Others(g) == Graph \ {g}

(* A step at g that keeps the graph and the device agreed *)
AgreesNext(g) ==
  /\ Agrees(sub'[g], toDevice'[g], Of(subscribers, g))
  /\ \A h \in Others(g) : sub'[h] = sub[h] /\ toDevice'[h] = toDevice[h]

LEMMA NoWords == Parsed(Words({})) = {}
<1>1. Words({}) = {}
  BY DEF Words, AllSigs, AllMaps
<1> QED
  BY <1>1 DEF Parsed

LEMMA Sent ==
  ASSUME Inv, up, NEW g \in Graph, NEW ms, SendRequests(g, ms)
  PROVE  /\ toDevice[g] \in Seq(Requests) /\ toDevice'[g] = toDevice[g] \o ms
         /\ \A h \in Others(g) : toDevice'[h] = toDevice[h]
BY DEF SendRequests, Others, Inv, ChannelsOK

LEMMA SubsAre ==
  ASSUME Inv, NEW g \in Graph
  PROVE  /\ sub \in [Graph -> Subs] /\ sub[g] \in Subs /\ sub[g].left \in Int
         /\ -Timeout <= sub[g].left
BY LeasesAre DEF Inv, TypeOK, Subs

LEMMA DropAgrees ==
  ASSUME Inv, Agreement, up, NEW g \in Graph, Drop(g)
  PROVE  AgreesNext(g)
<1> DEFINE m == Request({}, 0)
           P == Of(subscribers, g)
<1>1. Agrees(sub[g], toDevice[g], P)
  BY DEF Agreement
<1>2. m \in Requests /\ m.lease = 0 /\ IsLeased(m) /\ Parsed(m.words) = {}
  <2>1. m \in Requests
    BY NoSubIs, RequestIs DEF Leases
  <2> QED
    BY <2>1, NoWords DEF Request, IsLeased
<1>3. /\ toDevice[g] \in Seq(Requests) /\ toDevice'[g] = toDevice[g] \o <<m>>
      /\ \A h \in Others(g) : toDevice'[h] = toDevice[h]
  BY Sent DEF Drop, SendRequest
<1>4. sub'[g] = NoSub /\ \A h \in Others(g) : sub'[h] = sub[h]
  BY SubsAre DEF Drop, Others
<1> HIDE DEF m, P
<1>5. NoSub.flags \in FlagSets \cup {{}} /\ ~IsSubscribed(NoSub)
  BY DEF NoSub, IsSubscribed
<1>6. Agrees(NoSub, toDevice[g] \o <<m>>, P)
  BY <1>1, <1>2, <1>3, <1>5, AddedLeased
<1> QED
  BY <1>3, <1>4, <1>6 DEF P, AgreesNext

(* A request for a lease with these flags, made by whoever keeps it alive *)
LEMMA RenewalAgrees ==
  ASSUME Undisturbed, NEW R \in Seq(Requests), NEW P, NEW s, NEW t, Agrees(s, R, P),
         t.flags \in FlagSets, t.flags # {}, t.left + Buffer <= AutosubInterval
  PROVE  Agrees(t, R \o <<Request(t.flags, AutosubInterval)>>, P)
<1> DEFINE m == Request(t.flags, AutosubInterval)
<1>1. m \in Requests
  <2>1. t.flags \in Flags
    BY FlagSetsAre
  <2> QED
    BY <2>1, Renewing
<1>2. m.lease = AutosubInterval /\ m.lease # 0 /\ IsLeased(m)
  BY LeasesAre DEF Request, IsLeased
<1>3. t.flags \subseteq Parsed(m.words)
  BY DEF Undisturbed, Understood, Request
<1>4. IsSubscribed(t)
  BY DEF IsSubscribed, NoSub
<1> HIDE DEF m
<1>5. Agrees(t, R \o <<m>>, P)
  BY <1>1, <1>2, <1>3, <1>4, AddedLeased
<1> QED
  BY <1>5 DEF m

LEMMA AutorenewedIs ==
  ASSUME NEW flags
  PROVE  /\ Autorenewed(flags).flags = flags
         /\ Autorenewed(flags).left + Buffer <= AutosubInterval
BY LeasesAre DEF Autorenewed

LEMMA KeepAliveAgrees ==
  ASSUME Undisturbed, Inv, Agreement, up, NEW g \in Graph,
         NEW flags \in FlagSets, flags # {}, KeepAlive(g, flags)
  PROVE  AgreesNext(g)
<1> DEFINE t == Autorenewed(flags)
           P == Of(subscribers, g)
<1>1. Agrees(sub[g], toDevice[g], P)
  BY DEF Agreement
<1>2. CASE sub[g].flags = flags
  BY <1>1, <1>2 DEF KeepAlive, AgreesNext
<1>3. CASE sub[g].flags # flags
  <2>1. sub' = [sub EXCEPT ![g] = t] /\ SendRequest(g, Request(flags, AutosubInterval))
    BY <1>3 DEF KeepAlive
  <2>2. sub'[g] = t /\ \A h \in Others(g) : sub'[h] = sub[h]
    BY <2>1, SubsAre DEF Others
  <2>3. /\ toDevice[g] \in Seq(Requests)
        /\ toDevice'[g] = toDevice[g] \o <<Request(flags, AutosubInterval)>>
        /\ \A h \in Others(g) : toDevice'[h] = toDevice[h]
    BY <2>1, Sent DEF SendRequest
  <2>4. t.flags = flags /\ t.left + Buffer <= AutosubInterval
    BY AutorenewedIs
  <2> HIDE DEF t, P
  <2>5. Agrees(t, toDevice[g] \o <<Request(t.flags, AutosubInterval)>>, P)
    BY <1>1, <2>3, <2>4, RenewalAgrees
  <2> QED
    BY <2>2, <2>3, <2>4, <2>5 DEF P, AgreesNext
<1> QED
  BY <1>2, <1>3

(* What is left to show of a step at a graph while the device is up *)
LEMMA StepAtGraph ==
  ASSUME Agreement, up, NEW g \in Graph,
         UNCHANGED <<up, subscribers, losses, departures>>,
         autosub' \in [Graph -> FlagSets \cup {{}}],
         AgreesNext(g)
  PROVE  Agreement'
<1>1. \A h \in Graph : Agrees(sub'[h], toDevice'[h], Of(subscribers, h))
  BY DEF Agreement, AgreesNext, Others
<1> QED
  BY <1>1 DEF Agreement

LEMMA AutosubIs ==
  ASSUME Inv, Agreement
  PROVE  autosub \in [Graph -> FlagSets \cup {{}}]
BY DEF Inv, TypeOK, Agreement
LEMMA NothingAgrees ==
  ASSUME Agreement, NEW g \in Graph, UNCHANGED <<sub, toDevice>>
  PROVE  AgreesNext(g)
BY DEF Agreement, AgreesNext, Others

LEMMA UnleasedAgrees ==
  ASSUME Inv, Agreement, up, NEW g \in Graph, NEW m \in Requests, m.lease = NoLease,
         SendRequest(g, m), UNCHANGED sub
  PROVE  AgreesNext(g)
<1>1. Agrees(sub[g], toDevice[g], Of(subscribers, g))
  BY DEF Agreement
<1>2. /\ toDevice[g] \in Seq(Requests) /\ toDevice'[g] = toDevice[g] \o <<m>>
      /\ \A h \in Others(g) : toDevice'[h] = toDevice[h]
  BY Sent DEF SendRequest
<1>3. Agrees(sub[g], toDevice[g] \o <<m>>, Of(subscribers, g))
  BY <1>1, <1>2, AddedUnleased
<1> QED
  BY <1>2, <1>3 DEF AgreesNext

LEMMA Two ==
  ASSUME NEW T, NEW a \in T, NEW b \in T
  PROVE  <<a>> \in Seq(T) /\ <<b>> \in Seq(T) /\ <<a>> \o <<b>> = <<a, b>>
<1>1. <<a>> \in Seq(T) /\ <<b>> \in Seq(T) /\ <<a, b>> \in Seq(T)
  OBVIOUS
<1>2. /\ <<a>> \o <<b>> \in Seq(T) /\ Len(<<a>> \o <<b>>) = 2
      /\ \A i \in 1 .. 2 : (<<a>> \o <<b>>)[i] = IF i <= 1 THEN <<a>>[i] ELSE <<b>>[i - 1]
  <2>1. Len(<<a>>) = 1 /\ Len(<<b>>) = 1
    OBVIOUS
  <2>2. 1 + 1 = 2
    OBVIOUS
  <2> QED
    BY <1>1, <2>1, <2>2, ConcatProperties
<1>3. (<<a>> \o <<b>>)[1] = a /\ (<<a>> \o <<b>>)[2] = b
  BY <1>2
<1>4. Len(<<a, b>>) = 2 /\ <<a, b>>[1] = a /\ <<a, b>>[2] = b /\ 1 .. 2 = {1, 2}
  OBVIOUS
<1>5. \A i \in 1 .. Len(<<a>> \o <<b>>) : (<<a>> \o <<b>>)[i] = <<a, b>>[i]
  BY <1>2, <1>3, <1>4
<1> QED
  BY <1>1, <1>2, <1>4, <1>5, SeqEqual

LEMMA WhoNamesNoLease == Who \in Requests /\ Who.lease = NoLease
BY WhoIs DEF Who

(* While the device is not there nothing but autosubscriptions changes. *)
LEMMA StepWhileDown ==
  ASSUME Agreement, ~up, autosub' \in [Graph -> FlagSets \cup {{}}],
         UNCHANGED <<up, known, sub, toDevice, bus, mesh, subscribers, losses, departures>>
  PROVE  Agreement'
<1>1. \A g \in Graph : Alone(g)'
  BY DEF Agreement, Alone
<1> QED
  BY <1>1 DEF Agreement

LEMMA SubscribeAgrees ==
  ASSUME Undisturbed, Inv, Agreement, NEW g \in Graph, NEW flags \in FlagSets \cup {{}},
         NEW lease \in TempLeases \cup {0, NoLease}, Subscribe(g, flags, lease)
  PROVE  Agreement'
<1>1. up /\ lease \in {0, NoLease}
  BY DEF Undisturbed, Agreement, Alone, Subscribe
<1>2. UNCHANGED <<autosub, up, subscribers, losses, departures>>
  BY DEF Subscribe, deviceVars
<1>3. AgreesNext(g)
  <2>1. CASE Drop(g)
    BY <1>1, <2>1, DropAgrees
  <2>2. CASE flags # {} /\ KeepAlive(g, flags)
    <3>1. flags \in FlagSets
      BY <2>2
    <3> QED
      BY <1>1, <2>2, <3>1, KeepAliveAgrees
  <2>3. CASE /\ lease = 0 /\ ~IsSubscribed(sub[g])
             /\ SendRequest(g, Request(flags, lease)) /\ UNCHANGED sub
    <3> DEFINE m == Request(flags, lease)
               P == Of(subscribers, g)
    <3>1. m \in Requests /\ m.lease = 0 /\ IsLeased(m)
      <4>1. flags \in Flags /\ lease \in Leases
        BY <2>3, FlagSetsAre DEF Leases
      <4> QED
        BY <2>3, <4>1, RequestIs DEF Request, IsLeased
    <3>2. Agrees(sub[g], toDevice[g], P) /\ sub[g].flags \in FlagSets \cup {{}}
      BY DEF Agreement, Agrees
    <3>3. /\ toDevice[g] \in Seq(Requests) /\ toDevice'[g] = toDevice[g] \o <<m>>
          /\ \A h \in Others(g) : toDevice'[h] = toDevice[h]
      BY <1>1, <2>3, Sent DEF SendRequest
    <3> HIDE DEF m, P
    <3>4. Agrees(sub[g], toDevice[g] \o <<m>>, P)
      BY <2>3, <3>1, <3>2, <3>3, AddedLeased
    <3> QED
      BY <2>3, <3>3, <3>4 DEF P, AgreesNext
  <2> QED
    BY <1>1, <2>1, <2>2, <2>3 DEF Subscribe, NoLease
<1>4. autosub' \in [Graph -> FlagSets \cup {{}}]
  BY <1>2, AutosubIs
<1> QED
  BY <1>1, <1>2, <1>3, <1>4, StepAtGraph

LEMMA AutosubscribeAgrees ==
  ASSUME Undisturbed, Inv, Agreement, NEW g \in Graph, NEW flags \in FlagSets \cup {{}},
         Autosubscribe(g, flags)
  PROVE  Agreement'
<1>1. /\ UNCHANGED <<known, up, bus, mesh, subscribers, losses, departures>>
      /\ autosub' = [autosub EXCEPT ![g] = flags]
  BY DEF Autosubscribe, deviceVars
<1>2. autosub' \in [Graph -> FlagSets \cup {{}}]
  BY <1>1, AutosubIs
<1>3. CASE ~up
  <2>1. sub[g] = NoSub /\ ~IsSubscribed(sub[g])
    BY <1>3 DEF Agreement, Alone, IsSubscribed
  <2>2. UNCHANGED <<sub, toDevice>>
    BY <1>3, <2>1 DEF Autosubscribe, SendRequest, SendRequests
  <2> QED
    BY <1>1, <1>2, <1>3, <2>2, StepWhileDown
<1>4. CASE up
  <2> DEFINE R == toDevice[g]
             P == Of(subscribers, g)
             s == sub[g]
  <2>1. Agrees(s, R, P) /\ Who \in Requests /\ Who.lease = NoLease
    BY WhoNamesNoLease DEF Agreement
  <2>2. CASE /\ flags # {} /\ IsSubscribed(s) /\ flags \subseteq s.flags
             /\ sub' = [sub EXCEPT ![g].flags = flags]
             /\ SendRequest(g, Who)
    <3> DEFINE t == [s EXCEPT !.flags = flags]
    <3>1. t.flags = flags /\ t.left = s.left
      BY SubsAre DEF Subs
    <3>2. sub'[g] = t /\ \A h \in Others(g) : sub'[h] = sub[h]
      BY <2>2, SubsAre DEF Others
    <3>3. /\ R \in Seq(Requests) /\ toDevice'[g] = R \o <<Who>>
          /\ \A h \in Others(g) : toDevice'[h] = toDevice[h]
      BY <1>4, <2>2, Sent DEF SendRequest
    <3> HIDE DEF t, R, P, s
    <3>4. Agrees(t, R, P)
      BY <2>1, <2>2, <3>1, Narrowed
    <3>5. Agrees(t, R \o <<Who>>, P)
      BY <2>1, <3>3, <3>4, AddedUnleased
    <3> QED
      BY <1>1, <1>2, <1>4, <3>2, <3>3, <3>5, StepAtGraph DEF P, AgreesNext
  <2>3. CASE /\ flags # {}
             /\ sub' = [sub EXCEPT ![g] = Autorenewed(flags)]
             /\ SendRequests(g, <<Request(flags, AutosubInterval), Who>>)
    <3> DEFINE t == Autorenewed(flags)
               m == Request(flags, AutosubInterval)
    <3>1. t.flags = flags /\ t.left + Buffer <= AutosubInterval /\ t.flags \in FlagSets
      BY <2>3, AutorenewedIs
    <3>2. sub'[g] = t /\ \A h \in Others(g) : sub'[h] = sub[h]
      BY <2>3, SubsAre DEF Others
    <3>3. /\ R \in Seq(Requests) /\ toDevice'[g] = R \o <<m, Who>>
          /\ \A h \in Others(g) : toDevice'[h] = toDevice[h]
      BY <1>4, <2>3, Sent
    <3>4. m \in Requests
      BY <3>1, FlagSetsAre, Renewing
    <3> HIDE DEF t, R, P, s
    <3>5. Agrees(t, R \o <<m>>, P)
      BY <2>1, <2>3, <3>1, <3>3, RenewalAgrees
    <3> HIDE DEF m
    <3>6. R \o <<m>> \in Seq(Requests)
      BY <3>3, <3>4, Added
    <3>7. Agrees(t, (R \o <<m>>) \o <<Who>>, P)
      BY <2>1, <3>5, <3>6, AddedUnleased
    <3>8. (R \o <<m>>) \o <<Who>> = R \o <<m, Who>>
      <4>1. <<m>> \in Seq(Requests) /\ <<Who>> \in Seq(Requests) /\ <<m>> \o <<Who>> = <<m, Who>>
        BY <2>1, <3>4, Two
      <4> QED
        BY <3>3, <4>1, ConcatAssociative
    <3> QED
      BY <1>1, <1>2, <1>4, <3>2, <3>3, <3>7, <3>8, StepAtGraph DEF P, AgreesNext
  <2>4. CASE SendRequest(g, Who) /\ UNCHANGED sub
    <3>1. AgreesNext(g)
      BY <1>4, <2>1, <2>4, UnleasedAgrees
    <3> QED
      BY <1>1, <1>2, <1>4, <3>1, StepAtGraph
  <2>5. CASE Drop(g)
    <3>1. AgreesNext(g)
      BY <1>4, <2>5, DropAgrees
    <3> QED
      BY <1>1, <1>2, <1>4, <3>1, StepAtGraph
  <2>6. CASE UNCHANGED <<sub, toDevice>>
    <3>1. AgreesNext(g)
      BY <2>6, NothingAgrees
    <3> QED
      BY <1>1, <1>2, <1>4, <3>1, StepAtGraph
  <2>7. autosub[g] = {} => flags # {}
    BY DEF Autosubscribe
  <2> QED
    BY <2>2, <2>3, <2>4, <2>5, <2>6, <2>7 DEF Autosubscribe
<1> QED
  BY <1>3, <1>4

LEMMA ReceiveSyncAgrees ==
  ASSUME Undisturbed, Inv, Agreement, NEW g \in Graph, ReceiveSync(g)
  PROVE  Agreement'
<1>1. /\ up /\ UNCHANGED <<autosub, up, subscribers, losses, departures>>
  BY DEF ReceiveSync, deviceVars, counters, Agreement, Alone
<1>2. AgreesNext(g)
  <2>1. CASE autosub[g] # {} /\ KeepAlive(g, autosub[g])
    <3>1. autosub[g] \in FlagSets
      BY <2>1, AutosubIs
    <3> QED
      BY <1>1, <2>1, <3>1, KeepAliveAgrees
  <2>2. CASE UNCHANGED <<sub, toDevice>>
    BY <2>2, NothingAgrees
  <2>3. CASE SendRequest(g, Request({"device"}, NoLease)) /\ UNCHANGED sub
    <3> DEFINE m == Request({"device"}, NoLease)
    <3>1. {"device"} \in Flags /\ NoLease \in Leases
      BY DEF Flags, Leases
    <3>2. m \in Requests /\ m.lease = NoLease
      BY <3>1, RequestIs DEF Request
    <3> HIDE DEF m
    <3> QED
      BY <1>1, <2>3, <3>2, UnleasedAgrees DEF m
  <2> QED
    BY <2>1, <2>2, <2>3 DEF ReceiveSync
<1> QED
  BY <1>1, <1>2, AutosubIs, StepAtGraph

LEMMA ReceiveLogoutAgrees ==
  ASSUME Inv, Agreement, NEW g \in Graph, ReceiveLogout(g)
  PROVE  Agreement'
<1>1. /\ up /\ UNCHANGED <<autosub, up, subscribers, losses, departures>>
  BY DEF ReceiveLogout, deviceVars, counters, Agreement, Alone
<1>2. AgreesNext(g)
  <2>1. CASE Drop(g)
    BY <1>1, <2>1, DropAgrees
  <2>2. CASE UNCHANGED <<sub, toDevice>>
    BY <2>2, NothingAgrees
  <2> QED
    BY <2>1, <2>2 DEF ReceiveLogout
<1> QED
  BY <1>1, <1>2, AutosubIs, StepAtGraph

LEMMA ReceiveStateAgrees ==
  ASSUME Undisturbed, Inv, Agreement, NEW g \in Graph, ReceiveState(g)
  PROVE  Agreement'
<1>1. /\ up /\ UNCHANGED <<autosub, up, subscribers, losses, departures>>
  BY DEF ReceiveState, deviceVars, counters, Agreement, Alone
<1>2. AgreesNext(g)
  <2>1. CASE autosub[g] # {} /\ KeepAlive(g, autosub[g])
    <3>1. autosub[g] \in FlagSets
      BY <2>1, AutosubIs
    <3> QED
      BY <1>1, <2>1, <3>1, KeepAliveAgrees
  <2>2. CASE UNCHANGED <<sub, toDevice>>
    BY <2>2, NothingAgrees
  <2> QED
    BY <2>1, <2>2 DEF ReceiveState
<1> QED
  BY <1>1, <1>2, AutosubIs, StepAtGraph

LEMMA HousekeepingAgrees ==
  ASSUME Undisturbed, Inv, Agreement, NEW g \in Graph, Housekeeping(g)
  PROVE  Agreement'
<1>1. UNCHANGED <<autosub, up, bus, mesh, subscribers, losses, departures>>
  BY DEF Housekeeping, deviceVars, counters
<1>2. CASE ~up
  <2>1. sub[g] = NoSub /\ ~known[g]
    BY <1>2 DEF Agreement, Alone
  <2>2. UNCHANGED <<known, sub, toDevice>>
    BY <2>1 DEF Housekeeping, Expired, RenewalDue, IsSubscribed
  <2> QED
    BY <1>1, <1>2, <2>2, AutosubIs, StepWhileDown
<1>3. CASE up
  <2>1. AgreesNext(g)
    <3>1. CASE Drop(g)
      BY <1>3, <3>1, DropAgrees
    <3>2. CASE /\ RenewalDue(g)
               /\ SendRequest(g, Request(sub[g].flags, AutosubInterval))
               /\ sub' = [sub EXCEPT ![g].left = AutosubInterval - Buffer - Timeout]
      <4> DEFINE R == toDevice[g]
                 P == Of(subscribers, g)
                 s == sub[g]
                 t == [s EXCEPT !.left = AutosubInterval - Buffer - Timeout]
      <4>1. t.flags = s.flags /\ t.left = AutosubInterval - Buffer - Timeout
        BY SubsAre DEF Subs
      <4>2. t.left + Buffer <= AutosubInterval
        BY <4>1, LeasesAre
      <4>3. sub'[g] = t /\ \A h \in Others(g) : sub'[h] = sub[h]
        BY <3>2, SubsAre DEF Others
      <4>4. /\ R \in Seq(Requests) /\ toDevice'[g] = R \o <<Request(s.flags, AutosubInterval)>>
            /\ \A h \in Others(g) : toDevice'[h] = toDevice[h]
        BY <1>3, <3>2, Sent DEF SendRequest
      <4>5. Agrees(s, R, P) /\ s.flags \in FlagSets /\ s.flags # {}
        BY <3>2 DEF Agreement, Agrees, RenewalDue
      <4> HIDE DEF t, R, P, s
      <4>6. Agrees(t, R \o <<Request(t.flags, AutosubInterval)>>, P)
        BY <4>1, <4>2, <4>4, <4>5, RenewalAgrees
      <4> QED
        BY <4>1, <4>3, <4>4, <4>6 DEF P, AgreesNext
    <3>3. CASE UNCHANGED <<sub, toDevice>>
      BY <3>3, NothingAgrees
    <3> QED
      BY <3>1, <3>2, <3>3 DEF Housekeeping
  <2> QED
    BY <1>1, <1>3, <2>1, AutosubIs, StepAtGraph
<1> QED
  BY <1>2, <1>3
-----------------------------------------------------------------------------
(* Steps of the device *)

LEMMA OfIs ==
  ASSUME Inv, NEW g \in Graph
  PROVE  \A e \in Of(subscribers, g) :
           e \in Entries /\ e.left \in Int /\ e.flags # {} /\ e \in Range(subscribers) /\ e.graph = g
<1>1. \A e \in Range(subscribers) : e \in Entries
  BY ListIs DEF Inv, Range
<1>2. \A e \in Entries : e.flags # {} /\ e.left \in Int
  <2>1. \A e \in Entries : e.flags # {}
    <3> DEFINE L == UNION {-1 .. m : m \in Asked}
    <3>1. Entries = [graph : Graph, flags : Flags \ {{}}, left : L]
      BY DEF Entries
    <3> HIDE DEF L
    <3> QED
      BY <3>1
  <2> QED
    BY <2>1, EntryAged
<1> QED
  BY <1>1, <1>2 DEF Of

(* What is left to show of a step that changes nothing of this, with the   *)
(* device up *)
LEMMA NothingDone ==
  ASSUME Agreement, up', UNCHANGED <<sub, autosub, subscribers, toDevice, losses, departures>>
  PROVE  Agreement'
BY DEF Agreement

LEMMA PurgeAgrees ==
  ASSUME Undisturbed, Inv, Agreement, up',
         UNCHANGED <<sub, autosub, toDevice, losses, departures>>, subscribers' = Purged
  PROVE  Agreement'
<1>1. ASSUME NEW g \in Graph
      PROVE  Agrees(sub[g], toDevice[g], Of(Purged, g))
  <2> DEFINE P == Of(subscribers, g)
             P2 == Of(Purged, g)
             s == sub[g]
             R == toDevice[g]
  <2>1. Range(Purged) = {e \in Range(subscribers) : Valid(e)}
    BY PurgedKeeps DEF Inv
  <2>2. P2 \subseteq P /\ \A e \in P : e.left \in Int /\ (e.left >= 0 => e \in P2)
    BY <2>1, OfIs DEF Of, Valid
  <2>3. s.left \in Int /\ -Buffer <= s.left
    BY SubsAre, LeasesAre DEF Undisturbed
  <2>4. Agrees(s, R, P)
    BY DEF Agreement
  <2> HIDE DEF P, P2, s, R
  <2>5. Agrees(s, R, P2)
    BY <2>2, <2>3, <2>4, Thinned
  <2> QED
    BY <2>5 DEF P2, s, R
<1> QED
  BY <1>1 DEF Agreement

(* A request of g has arrived. *)
LEMMA ArrivedAgrees ==
  ASSUME Inv, Agreement, NEW g \in Graph, up', UNCHANGED <<sub, autosub, losses, departures>>,
         toDevice[g] # <<>>, toDevice' = [toDevice EXCEPT ![g] = Tail(@)],
         Becomes(Head(toDevice[g]), Of(subscribers, g), Of(subscribers', g)),
         \A h \in Others(g) : Of(subscribers', h) = Of(subscribers, h)
  PROVE  Agreement'
<1>1. /\ toDevice[g] \in Seq(Requests) /\ toDevice'[g] = Tail(toDevice[g])
      /\ \A h \in Others(g) : toDevice'[h] = toDevice[h]
  BY DEF Inv, ChannelsOK, Others
<1>2. Agrees(sub[g], toDevice[g], Of(subscribers, g))
  BY DEF Agreement
<1>3. Agrees(sub[g], Tail(toDevice[g]), Of(subscribers', g))
  BY <1>1, <1>2, Arrived
<1>4. ASSUME NEW h \in Graph
      PROVE  Agrees(sub'[h], toDevice'[h], Of(subscribers', h))
  <2>1. CASE h = g
    BY <1>1, <1>3, <2>1
  <2>2. CASE h # g
    BY <1>1, <2>2 DEF Agreement, Others
  <2> QED
    BY <2>1, <2>2
<1> QED
  BY <1>4 DEF Agreement

(* The request that is received *)
LEMMA Received ==
  ASSUME Undisturbed, Inv, NEW g \in Graph, toDevice[g] # <<>>
  PROVE  /\ Head(toDevice[g]) \in Requests
         /\ Head(toDevice[g]).lease \in {NoLease, 0, AutosubInterval}
         /\ Parsed(Head(toDevice[g]).words) \in Flags
<1>1. Head(toDevice[g]) \in Requests
  BY HeadTailProperties DEF Inv, ChannelsOK
<1>2. Leases = {NoLease, 0, AutosubInterval}
  BY DEF Leases, Asked, Undisturbed
<1> QED
  BY <1>1, <1>2, ParsedIs DEF Requests

LEMMA ReceiveWhoAgrees ==
  ASSUME Undisturbed, Inv, Agreement, NEW g \in Graph, ReceiveWho(g)
  PROVE  Agreement'
<1>1. /\ up' /\ UNCHANGED <<sub, autosub, subscribers, losses, departures>>
      /\ toDevice[g] # <<>> /\ toDevice' = [toDevice EXCEPT ![g] = Tail(@)]
      /\ Head(toDevice[g]) = Who
  BY DEF ReceiveWho, graphVars, deviceVars, counters
<1>2. Becomes(Who, Of(subscribers, g), Of(subscribers, g))
  BY WhoNamesNoLease, LeasesAre DEF Becomes, NoLease
<1> QED
  BY <1>1, <1>2, ArrivedAgrees

LEMMA ReceiveRequestAgrees ==
  ASSUME Undisturbed, Inv, Agreement, NEW g \in Graph, ReceiveRequest(g)
  PROVE  Agreement'
<1> DEFINE m == Head(toDevice[g])
           flags == Parsed(m.words)
           P == Of(subscribers, g)
           P2 == Of(subscribers', g)
<1>1. /\ up' /\ UNCHANGED <<sub, autosub, losses, departures>>
      /\ toDevice[g] # <<>> /\ toDevice' = [toDevice EXCEPT ![g] = Tail(@)]
  BY DEF ReceiveRequest, graphVars, counters
<1>2. m.lease \in {NoLease, 0, AutosubInterval} /\ m.lease \in Leases /\ flags \in Flags
  BY <1>1, Received DEF Requests
<1>3. \/ (m.lease = NoLease \/ PositionOf(g) = {}) /\ Admit(g, flags, m.lease)
      \/ \E i \in PositionOf(g) :
            /\ m.lease >= 0
            /\ \/ (flags = {} \/ m.lease = 0) /\ EndLease(g, i, flags)
               \/ flags # {} /\ m.lease # 0 /\ Renew(g, i, flags, m.lease)
  BY DEF ReceiveRequest
<1>4. AutosubInterval \in Asked /\ AutosubInterval > 0 /\ NoLease = -1 /\ AutosubInterval \in Int
  BY LeasesAre DEF Asked, NoLease
<1> HIDE DEF m, flags
<1> DEFINE e == [graph |-> g, flags |-> flags, left |-> m.lease]
<1>5. Becomes(m, P, P2) /\ \A h \in Others(g) : Of(subscribers', h) = Of(subscribers, h)
  <2>1. CASE (m.lease = NoLease \/ PositionOf(g) = {}) /\ Admit(g, flags, m.lease)
    <3>1. /\ ~(m.lease > 0 /\ flags # {}) => subscribers' = subscribers
          /\ m.lease > 0 /\ flags # {} => Range(subscribers') = Range(subscribers) \cup {e}
      BY <1>2, <2>1, AdmitIs
    <3>2. PositionOf(g) = {} => P = {}
      BY DEF PositionOf, Of, Range
    <3>3. e.graph = g /\ e.flags = flags /\ e.left = m.lease
      OBVIOUS
    <3> HIDE DEF e
    <3>4. CASE m.lease > 0 /\ flags # {}
      <4>1. Of(subscribers', g) = Of(subscribers, g) \cup {e}
            /\ \A h \in Others(g) : Of(subscribers', h) = Of(subscribers, h)
        BY <3>1, <3>3, <3>4 DEF Of, Others
      <4>2. m.lease = AutosubInterval
        BY <1>2, <1>4, <3>4
      <4> QED
        BY <1>4, <3>3, <4>1, <4>2 DEF Becomes, IsLeased, flags
    <3>5. CASE ~(m.lease > 0 /\ flags # {})
      <4>1. subscribers' = subscribers
        BY <3>1, <3>5
      <4>2. ~(m.lease = AutosubInterval /\ flags # {})
        BY <1>4, <3>5
      <4>3. m.lease = 0 => P = {}
        BY <1>4, <2>1, <3>2
      <4> QED
        BY <4>1, <4>2, <4>3 DEF Becomes, flags
    <3> QED
      BY <3>4, <3>5
  <2>2. ASSUME NEW i \in PositionOf(g), m.lease >= 0, flags = {} \/ m.lease = 0, EndLease(g, i, flags)
        PROVE  <1>5!:
    <3>1. Range(subscribers') = {x \in Range(subscribers) : x.graph # g}
      BY <1>2, <2>2, EndLeaseIs
    <3>2. P2 = {} /\ \A h \in Others(g) : Of(subscribers', h) = Of(subscribers, h)
      BY <3>1 DEF Of, Others
    <3>3. IsLeased(m) /\ ~(m.lease = AutosubInterval /\ flags # {})
      BY <1>4, <2>2 DEF IsLeased
    <3> QED
      BY <3>2, <3>3 DEF Becomes, flags
  <2>3. ASSUME NEW i \in PositionOf(g), m.lease >= 0, flags # {}, m.lease # 0, Renew(g, i, flags, m.lease)
        PROVE  <1>5!:
    <3>1. m.lease = AutosubInterval /\ IsLeased(m)
      BY <1>2, <1>4, <2>3 DEF IsLeased
    <3>2. Range(subscribers') = {x \in Range(subscribers) : x.graph # g} \cup {e}
      BY <1>2, <1>4, <2>3, <3>1, RenewIs
    <3>3. e.graph = g /\ e.flags = flags /\ e.left = m.lease
      OBVIOUS
    <3> HIDE DEF e
    <3>4. e \in P2 /\ \A h \in Others(g) : Of(subscribers', h) = Of(subscribers, h)
      BY <3>2, <3>3 DEF Of, Others
    <3> QED
      BY <2>3, <3>1, <3>3, <3>4 DEF Becomes, flags
  <2> QED
    BY <1>3, <2>1, <2>2, <2>3
<1> QED
  BY <1>1, <1>5, ArrivedAgrees DEF m

LEMMA TickAgrees ==
  ASSUME Inv, Agreement, Tick
  PROVE  Agreement'
<1>1. /\ \A g \in Graph : toDevice[g] = <<>>
      /\ sub' = [g \in Graph |-> IF IsSubscribed(sub[g]) THEN [sub[g] EXCEPT !.left = @ - 1]
                                                         ELSE sub[g]]
      /\ subscribers' = [i \in DOMAIN subscribers |-> [subscribers[i] EXCEPT !.left = @ - 1]]
      /\ UNCHANGED <<known, autosub, up, toDevice, bus, mesh, losses, departures>>
  BY DEF Tick, Quiet, netVars, counters
<1>2. ASSUME NEW g \in Graph
      PROVE  Agrees(sub'[g], toDevice'[g], Of(subscribers', g))
  <2> DEFINE P == Of(subscribers, g)
             P2 == Of(subscribers', g)
             s == sub[g]
             t == sub'[g]
             older(x) == [x EXCEPT !.left = @ - 1]
  <2>1. Agrees(s, <<>>, P)
    BY <1>1 DEF Agreement
  <2>2. s \in Subs /\ s.left \in Int
    BY SubsAre
  <2>3. /\ IsSubscribed(s) => t.flags = s.flags /\ t.left = s.left - 1
        /\ ~IsSubscribed(s) => t = s
    BY <1>1, <2>2 DEF Subs
  <2>4. \A x \in P : x \in Entries /\ x.left \in Int
    BY OfIs
  <2>5. /\ DOMAIN subscribers' = DOMAIN subscribers
        /\ \A i \in DOMAIN subscribers : subscribers'[i] = older(subscribers[i])
    BY <1>1
  <2>6. \A i \in DOMAIN subscribers : older(subscribers[i]).graph = subscribers[i].graph
    <3>1. \A i \in DOMAIN subscribers : subscribers[i] \in Entries
      BY ListIs DEF Inv
    <3> QED
      BY <3>1, EntryAged
  <2>7. P2 = {older(x) : x \in P}
    <3> HIDE DEF older
    <3> QED
      BY <2>5, <2>6 DEF Of, Range
  <2> HIDE DEF P, P2, s, t
  <2>8. Agrees(t, <<>>, P2)
    BY <2>1, <2>2, <2>3, <2>4, <2>7, Aged
  <2> QED
    BY <1>1, <2>8 DEF P2, t
<1>3. ~up' => \A g \in Graph : Alone(g)'
  BY <1>1 DEF Agreement, Alone, IsSubscribed
<1> QED
  BY <1>1, <1>2, <1>3 DEF Agreement

-----------------------------------------------------------------------------
(* At the start nobody has asked for anything. *)
LEMMA AgreedInitially ==
  ASSUME Init
  PROVE  Agreement
<1>1. /\ losses = 0 /\ departures = 0
      /\ \A g \in Graph : autosub[g] = {} /\ Alone(g)
      /\ subscribers = <<>>
  BY DEF Init, Alone
<1>2. Len(<<>>) = 0 /\ 1 .. 0 = {} /\ 1 .. Len(<<>>) = {} /\ DOMAIN <<>> = {}
  BY EmptySeq
<1>3. ASSUME NEW g \in Graph
      PROVE  Agrees(sub[g], toDevice[g], Of(subscribers, g))
  <2>1. Of(subscribers, g) = {}
    BY <1>1, <1>2 DEF Of, Range
  <2>2. sub[g] = NoSub /\ toDevice[g] = <<>> /\ NoSub.flags = {} /\ ~IsSubscribed(NoSub)
    BY <1>1 DEF Alone, NoSub, IsSubscribed
  <2>3. Frees(<<>>, Len(<<>>), {})
    BY <1>2 DEF Frees, Silent
  <2> QED
    BY <1>2, <2>1, <2>2, <2>3 DEF Agrees
<1> QED
  BY <1>1, <1>3 DEF Agreement

LEMMA NobodyGone ==
  ASSUME Undisturbed, Agreement
  PROVE  ~Logout /\ ~Crash /\ \A g \in Graph : ~Lose(g)
BY DEF Undisturbed, Agreement, Logout, Crash, Gone, Lose

LEMMA EveryStepAgrees ==
  ASSUME Undisturbed, Inv, Agreement, [Next]_vars
  PROVE  Agreement'
<1>1. CASE Tick
  BY <1>1, TickAgrees
<1>2. ASSUME Start \/ Rewrite \/ \E k \in Kinds : Change(k)
      PROVE  Agreement'
  <2>1. up' /\ UNCHANGED <<sub, autosub, subscribers, toDevice, losses, departures>>
    BY <1>2 DEF Start, Rewrite, Change, graphVars, netVars, counters
  <2> QED
    BY <2>1, NothingDone
<1>3. CASE Inform \/ Push \/ Ping
  <2>1. /\ up' /\ UNCHANGED <<sub, autosub, toDevice, losses, departures>>
        /\ subscribers' = Purged
    BY <1>3 DEF Inform, Push, Ping, graphVars, counters
  <2> QED
    BY <2>1, PurgeAgrees
<1>4. CASE Logout \/ Crash
  BY <1>4, NobodyGone
<1>5. ASSUME NEW g \in Graph, Call(g)
      PROVE  Agreement'
  <2>1. CASE \E flags \in FlagSets \cup {{}}, lease \in TempLeases \cup {0, NoLease} :
               Subscribe(g, flags, lease)
    BY <2>1, SubscribeAgrees
  <2>2. CASE \E flags \in FlagSets \cup {{}} : Autosubscribe(g, flags)
    BY <2>2, AutosubscribeAgrees
  <2> QED
    BY <1>5, <2>1, <2>2 DEF Call
<1>6. ASSUME NEW g \in Graph, Housekeeping(g)
      PROVE  Agreement'
  BY <1>6, HousekeepingAgrees
<1>7. ASSUME NEW g \in Graph, ReceiveAtGraph(g)
      PROVE  Agreement'
  BY <1>7, ReceiveSyncAgrees, ReceiveLogoutAgrees, ReceiveStateAgrees DEF ReceiveAtGraph
<1>8. ASSUME NEW g \in Graph, ReceiveAtDevice(g)
      PROVE  Agreement'
  BY <1>8, ReceiveRequestAgrees, ReceiveWhoAgrees DEF ReceiveAtDevice
<1>9. ASSUME NEW g \in Graph, Lose(g)
      PROVE  Agreement'
  BY <1>9, NobodyGone
<1>10. CASE UNCHANGED vars
  BY <1>10 DEF vars, graphVars, deviceVars, netVars, counters, Agreement, Alone
<1> QED
  BY <1>1, <1>2, <1>3, <1>4, <1>5, <1>6, <1>7, <1>8, <1>9, <1>10 DEF Next

LEMMA AgreedAlways ==
  ASSUME Undisturbed
  PROVE  Spec => [](Inv /\ Agreement)
<1>1. Init => Inv /\ Agreement
  BY Initially, AgreedInitially
<1>2. Inv /\ Agreement /\ [Next]_vars => Inv' /\ Agreement'
  BY EveryStep, EveryStepAgrees
<1> QED
  BY <1>1, <1>2, PTL DEF Spec

-----------------------------------------------------------------------------
(* Where nothing is lost, the device stays and programs subscribe for      *)
(* good, whoever keeps its subscription alive has a lease with all its     *)
(* kinds that has not run out, as soon as nothing is under way             *)
(* (mpr_graph_subscribe, mpr_graph_housekeeping,                           *)
(* mpr_dev_manage_subscriber).                                             *)
THEOREM KeptAliveIsCovered ==
  ASSUME Undisturbed
  PROVE  Spec => []Covered
<1>1. ASSUME Inv, Agreement
      PROVE  Covered
  <2> SUFFICES ASSUME Settled, NEW g \in Graph, IsSubscribed(sub[g])
               PROVE  \E i \in Entry(g) : sub[g].flags \subseteq subscribers[i].flags
                                          /\ subscribers[i].left >= 0
    BY DEF Covered
  <2>1. toDevice[g] = <<>>
    BY DEF Settled, Quiet
  <2>2. Grants(sub[g], <<>>, Of(subscribers, g))
    BY <1>1, <2>1 DEF Agreement, Agrees
  <2>3. Len(<<>>) = 0 /\ 1 .. Len(<<>>) = {}
    BY EmptySeq
  <2>4. PICK e \in Of(subscribers, g) :
          sub[g].flags \subseteq e.flags /\ sub[g].left + Buffer <= e.left
    BY <2>2, <2>3 DEF Grants
  <2>5. e.left >= 0
    <3>1. sub[g].left \in Int /\ -Timeout <= sub[g].left /\ e.left \in Int
      BY <1>1, SubsAre, OfIs
    <3>2. Timeout <= Buffer /\ Timeout \in Int /\ Buffer \in Int
      BY LeasesAre DEF Undisturbed
    <3> QED
      BY <2>4, <3>1, <3>2
  <2> QED
    BY <2>4, <2>5 DEF Of, Range, Entry
<1> QED
  BY <1>1, AgreedAlways, PTL
-----------------------------------------------------------------------------
(* Requests leave the network as the device receives them, no other way. *)

LEMMA NotShorter ==
  ASSUME Inv, NEW g \in Graph, NEW h \in Graph, NEW ms \in Seq(Requests), SendRequests(h, ms)
  PROVE  ~(Len(toDevice'[g]) < Len(toDevice[g]))
<1>1. toDevice \in [Graph -> Seq(Requests)] /\ \A f \in Graph : Len(toDevice[f]) \in Nat
  BY LenProperties DEF Inv, ChannelsOK
<1>2. CASE toDevice'[g] = toDevice[g]
  BY <1>1, <1>2
<1>3. CASE toDevice'[g] # toDevice[g]
  <2>1. h = g /\ toDevice'[g] = toDevice[g] \o ms
    BY <1>1, <1>3 DEF SendRequests
  <2>2. Len(toDevice'[g]) = Len(toDevice[g]) + Len(ms) /\ Len(ms) \in Nat
    BY <1>1, <2>1, ConcatProperties, LenProperties
  <2> QED
    BY <1>1, <2>2
<1> QED
  BY <1>2, <1>3

(* What a graph sends *)
LEMMA SentIs ==
  ASSUME Inv, NEW h \in Graph, Call(h) \/ Housekeeping(h) \/ ReceiveAtGraph(h)
  PROVE  UNCHANGED toDevice \/ \E ms \in Seq(Requests) : SendRequests(h, ms)
<1>1. ASSUME NEW m \in Requests, SendRequest(h, m)
      PROVE  \E ms \in Seq(Requests) : SendRequests(h, ms)
  <2>1. <<m>> \in Seq(Requests)
    OBVIOUS
  <2> QED
    BY <1>1, <2>1 DEF SendRequest
<1>2. /\ Who \in Requests
      /\ \A flags \in Flags, lease \in Leases : Request(flags, lease) \in Requests
      /\ {} \in Flags /\ {"device"} \in Flags
      /\ \A flags \in FlagSets \cup {{}} : flags \in Flags
      /\ autosub[h] \in Flags /\ sub[h].flags \in Flags
      /\ AutosubInterval \in Leases /\ NoLease \in Leases /\ 0 \in Leases /\ TempLeases \subseteq Leases
  BY WhoIs, RequestIs, NoSubIs, FlagSetsAre DEF Leases, Asked, Flags, Inv, TypeOK
<1>3. ASSUME Drop(h)
      PROVE  \E ms \in Seq(Requests) : SendRequests(h, ms)
  BY <1>1, <1>2, <1>3 DEF Drop
<1>4. ASSUME NEW flags \in Flags, KeepAlive(h, flags)
      PROVE  UNCHANGED toDevice \/ \E ms \in Seq(Requests) : SendRequests(h, ms)
  BY <1>1, <1>2, <1>4 DEF KeepAlive
<1>5. ASSUME NEW flags \in Flags, SendRequests(h, <<Request(flags, AutosubInterval), Who>>)
      PROVE  \E ms \in Seq(Requests) : SendRequests(h, ms)
  <2>1. Request(flags, AutosubInterval) \in Requests
    BY <1>2
  <2>2. <<Request(flags, AutosubInterval), Who>> \in Seq(Requests)
    BY <1>2, <2>1
  <2> QED
    BY <1>5, <2>2
<1>6. ASSUME NEW flags \in FlagSets \cup {{}}, NEW lease \in TempLeases \cup {0, NoLease},
             Subscribe(h, flags, lease)
      PROVE  UNCHANGED toDevice \/ \E ms \in Seq(Requests) : SendRequests(h, ms)
  <2>1. flags \in Flags /\ lease \in Leases /\ Request(flags, lease) \in Requests
    BY <1>2
  <2> QED
    BY <1>1, <1>3, <1>4, <1>6, <2>1 DEF Subscribe
<1>7. ASSUME NEW flags \in FlagSets \cup {{}}, Autosubscribe(h, flags)
      PROVE  UNCHANGED toDevice \/ \E ms \in Seq(Requests) : SendRequests(h, ms)
  <2>1. flags \in Flags
    BY <1>2
  <2> QED
    BY <1>1, <1>2, <1>3, <1>5, <1>7, <2>1 DEF Autosubscribe
<1>8. ASSUME Housekeeping(h)
      PROVE  UNCHANGED toDevice \/ \E ms \in Seq(Requests) : SendRequests(h, ms)
  BY <1>1, <1>2, <1>3, <1>8 DEF Housekeeping
<1>9. ASSUME ReceiveSync(h)
      PROVE  UNCHANGED toDevice \/ \E ms \in Seq(Requests) : SendRequests(h, ms)
  BY <1>1, <1>2, <1>4, <1>9 DEF ReceiveSync
<1>10. ASSUME ReceiveLogout(h) \/ ReceiveState(h)
       PROVE  UNCHANGED toDevice \/ \E ms \in Seq(Requests) : SendRequests(h, ms)
  BY <1>2, <1>3, <1>4, <1>10 DEF ReceiveLogout, ReceiveState
<1> QED
  BY <1>6, <1>7, <1>8, <1>9, <1>10 DEF Call, ReceiveAtGraph

(* A request for kinds that the graph did not have: it does not come with  *)
(* no lease while the graph has one, so the state is sent.                 *)
LEMMA Answered ==
  ASSUME Undisturbed, Inv, Agreement, NEW g \in Graph, ReceiveRequest(g),
         Parsed(Head(toDevice[g]).words) \ Had(g) # {}
  PROVE  Len(mesh'[g]) > Len(mesh[g])
<1> DEFINE m == Head(toDevice[g])
           flags == Parsed(m.words)
           R == toDevice[g]
<1>1. R # <<>> /\ R \in Seq(Requests) /\ mesh \in [Graph -> Seq(States)]
  BY DEF ReceiveRequest, Inv, ChannelsOK
<1>2. m \in Requests /\ flags \in Flags /\ flags \ Had(g) # {}
  BY <1>1, Received
<1>3. \/ (m.lease = NoLease \/ PositionOf(g) = {}) /\ Admit(g, flags, m.lease)
      \/ \E i \in PositionOf(g) :
            \/ (flags = {} \/ m.lease = 0) /\ EndLease(g, i, flags)
            \/ Renew(g, i, flags, m.lease)
  BY DEF ReceiveRequest
<1>4. ASSUME NEW new, new \in Flags, BringUpToDate(g, new)
      PROVE  Len(mesh'[g]) > Len(mesh[g])
  <2>1. (new \cup {"device"}) \cap Kinds \in Flags
    BY <1>4 DEF Flags
  <2>2. StateMsg((new \cup {"device"}) \cap Kinds) \in States
    BY <2>1, StateIs DEF Inv
  <2>3. mesh'[g] = Append(mesh[g], StateMsg((new \cup {"device"}) \cap Kinds))
    BY <1>1, <1>4 DEF BringUpToDate
  <2>4. Len(mesh'[g]) = Len(mesh[g]) + 1 /\ Len(mesh[g]) \in Nat
    BY <1>1, <2>2, <2>3, AppendProperties, LenProperties
  <2> QED
    BY <2>4
<1>5. PositionOf(g) # {} => m.lease # 0
  <2> SUFFICES ASSUME m.lease = 0, NEW i \in PositionOf(g)
               PROVE  FALSE
    OBVIOUS
  <2>1. 1 \in 1 .. Len(R) /\ R[1] = m /\ 1 - 1 = 0
    <3>1. Len(R) \in Nat /\ Len(R) # 0 /\ m = R[1]
      BY <1>1, LenProperties, EmptySeq
    <3> QED
      BY <3>1
  <2>2. Parsed(R[1].words) # {} /\ R[1].lease = 0
    BY <1>2, <2>1
  <2>3. Agrees(sub[g], R, Of(subscribers, g))
    BY DEF Agreement
  <2> HIDE DEF R, m, flags
  <2>4. Frees(R, 0, Of(subscribers, g))
    BY <2>1, <2>2, <2>3 DEF Agrees
  <2>5. Of(subscribers, g) = {}
    BY <2>4 DEF Frees
  <2> QED
    BY <2>5 DEF Of, Range, PositionOf
<1> HIDE DEF m, flags
<1>6. CASE Admit(g, flags, m.lease)
  BY <1>2, <1>4, <1>6 DEF Admit
<1>7. ASSUME NEW i \in PositionOf(g), (flags = {} \/ m.lease = 0) /\ EndLease(g, i, flags)
      PROVE  Len(mesh'[g]) > Len(mesh[g])
  BY <1>2, <1>5, <1>7
<1>8. ASSUME NEW i \in PositionOf(g), Renew(g, i, flags, m.lease)
      PROVE  Len(mesh'[g]) > Len(mesh[g])
  <2>1. subscribers[i].flags \subseteq Had(g)
    BY DEF Had, Entry, PositionOf
  <2>2. flags \ subscribers[i].flags # {} /\ flags \ subscribers[i].flags \in Flags
    BY <1>2, <2>1 DEF Flags
  <2> QED
    BY <1>4, <1>8, <2>2 DEF Renew
<1> QED
  BY <1>3, <1>6, <1>7, <1>8

(* Where nothing is lost, the device stays and programs subscribe for      *)
(* good, whoever asks for kinds it did not have is sent the state          *)
(* (handler_subscribe, mpr_dev_manage_subscriber).                         *)
THEOREM AskersGetTheState ==
  ASSUME Undisturbed
  PROVE  Spec => AskersAreAnswered
<1> DEFINE Answers(g) ==
             up /\ up' /\ losses' = losses /\ Len(toDevice'[g]) < Len(toDevice[g])
               /\ Parsed(Head(toDevice[g]).words) \ Had(g) # {} =>
                 Len(mesh'[g]) > Len(mesh[g])
<1>1. ASSUME Inv, Agreement, [Next]_vars, NEW g \in Graph
      PROVE  Answers(g)
  <2> SUFFICES ASSUME Len(toDevice'[g]) < Len(toDevice[g]), up',
                      Parsed(Head(toDevice[g]).words) \ Had(g) # {}
               PROVE  Len(mesh'[g]) > Len(mesh[g])
    OBVIOUS
  <2>1. Len(toDevice[g]) \in Nat /\ ~(Len(toDevice[g]) < Len(toDevice[g]))
    BY <1>1, LenProperties DEF Inv, ChannelsOK
  <2>2. ~UNCHANGED toDevice
    BY <2>1
  <2>3. ~UNCHANGED vars /\ ~Tick /\ ~Start /\ ~Rewrite /\ ~Inform /\ ~Push /\ ~Ping
        /\ \A k \in Kinds : ~Change(k)
    BY <2>2 DEF vars, netVars, Tick, Start, Rewrite, Inform, Push, Ping, Change
  <2>4. ~Logout /\ ~Crash /\ \A h \in Graph : ~Lose(h)
    BY <1>1, NobodyGone
  <2>5. \A h \in Graph : ~(Call(h) \/ Housekeeping(h) \/ ReceiveAtGraph(h))
    BY <1>1, <2>2, SentIs, NotShorter
  <2>6. PICK h \in Graph : ReceiveAtDevice(h)
    BY <1>1, <2>3, <2>4, <2>5 DEF Next
  <2>7. h = g
    <3>1. toDevice' = [toDevice EXCEPT ![h] = Tail(@)]
      BY <2>6 DEF ReceiveAtDevice, ReceiveRequest, ReceiveWho
    <3>2. h # g => toDevice'[g] = toDevice[g]
      BY <1>1, <3>1 DEF Inv, ChannelsOK
    <3> QED
      BY <2>1, <3>2
  <2>8. CASE ReceiveRequest(g)
    BY <1>1, <2>8, Answered
  <2>9. CASE ReceiveWho(g)
    BY <2>9 DEF ReceiveWho, Who, Parsed
  <2> QED
    BY <2>6, <2>7, <2>8, <2>9 DEF ReceiveAtDevice
<1>2. Inv /\ Agreement /\ [Next]_vars => [\A g \in Graph : Answers(g)]_vars
  BY <1>1
<1> QED
  BY <1>2, AgreedAlways, PTL DEF Spec, AskersAreAnswered

-----------------------------------------------------------------------------
(* What a graph knows of the device.  Sending the properties to one clears *)
(* the flag that they are to be sent to all (mpr_dev_send_state), and so   *)
(* does a property that is set to the value it has: they are told reliably *)
(* only where there is one graph and no program does that.                 *)
Alike == ~Rewrites /\ \A g, h \in Graph : g = h
Watched == (Sigs \cup (IF Alike THEN {"device"} ELSE {})) \cap Kinds

(* One of the requests R ends the lease. *)
Doomed(R) == \E i \in 1 .. Len(R) : R[i].lease = 0

(* Once the messages M have arrived, the graph that has seen that version  *)
(* of k knows version v: one of them, or what it has seen, is of v, and so *)
(* are all later ones.                                                     *)
Tells(M, k, v, seen) ==
  \E i \in 0 .. Len(M) :
    /\ IF i = 0 THEN seen = v ELSE k \in M[i].flags
    /\ \A j \in 1 .. Len(M) : i <= j /\ k \in M[j].flags => M[j].version[k] = v

Told(g, k) == k \in dirty \/ Tells(mesh[g], k, version[k], view[g][k])

(* An entry for the graph that will not go by its own request is for kinds *)
(* that it is told of.                                                     *)
Aware(g) ==
  \A e \in Of(subscribers, g) : \A k \in e.flags \cap Watched \cap Believed :
    Doomed(toDevice[g]) \/ Told(g, k)

Freed(g) ==
  ~temporary /\ ~IsSubscribed(sub[g]) =>
    Frees(toDevice[g], Len(toDevice[g]), Of(subscribers, g))

Recorded(g) ==
  /\ IsSubscribed(sub[g]) => known[g] /\ sub[g].flags # {}
  /\ autosub[g] \subseteq Kinds /\ sub[g].flags \subseteq Kinds

Awareness ==
  /\ losses \in Nat /\ \A g \in Graph : Recorded(g)
  /\ ~up => \A g \in Graph : toDevice[g] = <<>>
  /\ losses = 0 => \A g \in Graph : Freed(g) /\ Aware(g)

(* A message of the current version is added, or one of other kinds. *)
LEMMA TellsAdded ==
  ASSUME NEW M \in Seq(States), NEW m \in States, NEW k, NEW v, NEW seen,
         k \in m.flags => m.version[k] = v,
         k \in m.flags \/ Tells(M, k, v, seen)
  PROVE  Tells(Append(M, m), k, v, seen)
<1> DEFINE N == Append(M, m)
<1>1. /\ Len(M) \in Nat /\ Len(N) = Len(M) + 1 /\ N[Len(M) + 1] = m
      /\ \A j \in 1 .. Len(M) : N[j] = M[j]
  BY AppendProperties, LenProperties
<1> HIDE DEF N
<1>2. CASE k \in m.flags
  <2>1. Len(N) \in 0 .. Len(N) /\ Len(N) # 0 /\ N[Len(N)] = m
    BY <1>1
  <2>2. \A j \in 1 .. Len(N) : Len(N) <= j => j = Len(N)
    BY <1>1
  <2>3. Tells(N, k, v, seen)
    BY <1>2, <2>1, <2>2 DEF Tells
  <2> QED
    BY <2>3 DEF N
<1>3. CASE k \notin m.flags
  <2>1. PICK i \in 0 .. Len(M) :
          /\ IF i = 0 THEN seen = v ELSE k \in M[i].flags
          /\ \A j \in 1 .. Len(M) : i <= j /\ k \in M[j].flags => M[j].version[k] = v
    BY <1>3 DEF Tells
  <2>2. i \in 0 .. Len(N) /\ (i # 0 => i \in 1 .. Len(M))
    BY <1>1
  <2>3. \A j \in 1 .. Len(N) : j \in 1 .. Len(M) \/ N[j] = m
    BY <1>1
  <2>4. \A j \in 1 .. Len(N) : i <= j /\ k \in N[j].flags => N[j].version[k] = v
    BY <1>1, <1>3, <2>1, <2>3
  <2>5. IF i = 0 THEN seen = v ELSE k \in N[i].flags
    BY <1>1, <2>1, <2>2
  <2>6. Tells(N, k, v, seen)
    BY <2>2, <2>4, <2>5 DEF Tells
  <2> QED
    BY <2>6 DEF N
<1> QED
  BY <1>2, <1>3

(* The first message arrives and is believed. *)
LEMMA TellsArrived ==
  ASSUME NEW M \in Seq(States), M # <<>>, NEW k, NEW v, NEW seen, NEW seen2,
         Tells(M, k, v, seen),
         seen2 = IF k \in Head(M).flags THEN Head(M).version[k] ELSE seen
  PROVE  Tells(Tail(M), k, v, seen2)
<1> DEFINE N == Tail(M)
<1>1. /\ Len(M) \in Nat /\ Len(N) \in Nat /\ Len(M) = Len(N) + 1
      /\ Head(M) = M[1] /\ \A i \in 1 .. Len(N) : N[i] = M[i + 1]
  <2>1. /\ Tail(M) \in Seq(States)
        /\ Len(Tail(M)) = Len(M) - 1 /\ \A i \in 1 .. Len(Tail(M)) : Tail(M)[i] = M[i + 1]
    BY HeadTailProperties
  <2>2. Len(M) \in Nat /\ Len(M) # 0 /\ Head(M) = M[1]
    BY LenProperties, EmptySeq
  <2> HIDE DEF N
  <2> QED
    BY <2>1, <2>2 DEF N
<1> HIDE DEF N
<1>2. PICK i \in 0 .. Len(M) :
        /\ IF i = 0 THEN seen = v ELSE k \in M[i].flags
        /\ \A j \in 1 .. Len(M) : i <= j /\ k \in M[j].flags => M[j].version[k] = v
  BY DEF Tells
<1>3. \A j \in 1 .. Len(N) : j + 1 \in 1 .. Len(M) /\ N[j] = M[j + 1]
  BY <1>1
<1>4. CASE i \in {0, 1}
  <2>1. 1 \in 1 .. Len(M) /\ i <= 1
    BY <1>1, <1>4
  <2>2. seen2 = v
    BY <1>1, <1>2, <1>4, <2>1
  <2>3. \A j \in 1 .. Len(N) : i <= j + 1
    BY <1>1, <1>4
  <2>4. \A j \in 1 .. Len(N) : k \in N[j].flags => N[j].version[k] = v
    BY <1>2, <1>3, <2>3
  <2>5. 0 \in 0 .. Len(N)
    BY <1>1
  <2>6. Tells(N, k, v, seen2)
    BY <2>2, <2>4, <2>5 DEF Tells
  <2> QED
    BY <2>6 DEF N
<1>5. CASE i \notin {0, 1}
  <2>1. i - 1 \in 0 .. Len(N) /\ i - 1 # 0 /\ i - 1 \in 1 .. Len(N) /\ (i - 1) + 1 = i /\ i # 0
    BY <1>1, <1>5
  <2>2. k \in N[i - 1].flags
    BY <1>1, <1>2, <2>1
  <2>3. \A j \in 1 .. Len(N) : i - 1 <= j => i <= j + 1
    BY <1>1, <2>1
  <2>4. \A j \in 1 .. Len(N) : i - 1 <= j /\ k \in N[j].flags => N[j].version[k] = v
    BY <1>2, <1>3, <2>3
  <2>5. Tells(N, k, v, seen2)
    BY <2>1, <2>2, <2>4 DEF Tells
  <2> QED
    BY <2>5 DEF N
<1> QED
  BY <1>4, <1>5

-----------------------------------------------------------------------------
(* Requests that a graph adds *)

LEMMA DoomedAdded ==
  ASSUME NEW R \in Seq(Requests), NEW ms \in Seq(Requests), Doomed(R)
  PROVE  Doomed(R \o ms)
<1> DEFINE Q == R \o ms
<1>1. /\ Len(R) \in Nat /\ Len(ms) \in Nat /\ Len(Q) = Len(R) + Len(ms)
      /\ \A i \in 1 .. Len(R) + Len(ms) : Q[i] = IF i <= Len(R) THEN R[i] ELSE ms[i - Len(R)]
  BY ConcatProperties, LenProperties
<1> HIDE DEF Q
<1>2. PICK i \in 1 .. Len(R) : R[i].lease = 0
  BY DEF Doomed
<1>3. i \in 1 .. Len(Q) /\ Q[i] = R[i]
  BY <1>1
<1>4. Doomed(Q)
  BY <1>2, <1>3 DEF Doomed
<1> QED
  BY <1>4 DEF Q

(* Whoever frees the device of its lease dooms what entry it has. *)
LEMMA FreesDooms ==
  ASSUME NEW R, NEW P, Frees(R, Len(R), P)
  PROVE  Doomed(R) \/ P = {}
BY DEF Frees, Doomed, Decides

(* A request that ends the lease; none while the device is down. *)
LEMMA Ended ==
  ASSUME Inv, Awareness, NEW g \in Graph, NEW m \in Requests, m.lease = 0,
         SendRequest(g, m), UNCHANGED subscribers
  PROVE  Frees(toDevice'[g], Len(toDevice'[g]), Of(subscribers', g))
<1>1. toDevice \in [Graph -> Seq(Requests)] /\ toDevice[g] \in Seq(Requests)
  BY DEF Inv, ChannelsOK
<1>2. CASE up
  <2> DEFINE R == toDevice[g]
             Q == R \o <<m>>
  <2>1. toDevice'[g] = Q
    BY <1>1, <1>2 DEF SendRequest, SendRequests
  <2>2. /\ Len(R) \in Nat /\ Len(Q) = Len(R) + 1 /\ Q[Len(R) + 1] = m
    BY <1>1, Added
  <2> HIDE DEF Q, R
  <2>3. Len(Q) \in 1 .. Len(Q) /\ Q[Len(Q)] = m /\ Len(Q) + 1 .. Len(Q) = {}
    BY <2>2
  <2>4. Decides(Q, Len(Q), Len(Q))
    BY <2>3 DEF Decides, IsLeased
  <2> QED
    BY <2>1, <2>3, <2>4 DEF Frees
<1>3. CASE ~up
  <2>1. toDevice'[g] = <<>> /\ subscribers' = <<>>
    BY <1>3 DEF SendRequest, SendRequests, Awareness, Inv, Polled
  <2>2. Len(<<>>) = 0 /\ 1 .. 0 = {} /\ DOMAIN <<>> = {}
    BY EmptySeq
  <2>3. Of(subscribers', g) = {}
    BY <2>1, <2>2 DEF Of, Range
  <2> QED
    BY <2>1, <2>2, <2>3 DEF Frees, Silent
<1> QED
  BY <1>2, <1>3

(* One that names no lease leaves it free. *)
LEMMA StillFree ==
  ASSUME Inv, NEW g \in Graph, NEW m \in Requests, m.lease = NoLease,
         SendRequest(g, m), UNCHANGED subscribers,
         Frees(toDevice[g], Len(toDevice[g]), Of(subscribers, g))
  PROVE  Frees(toDevice'[g], Len(toDevice'[g]), Of(subscribers', g))
<1>1. toDevice \in [Graph -> Seq(Requests)] /\ toDevice[g] \in Seq(Requests)
  BY DEF Inv, ChannelsOK
<1>2. CASE up
  <2> DEFINE R == toDevice[g]
             Q == R \o <<m>>
             P == Of(subscribers, g)
  <2>1. toDevice'[g] = Q
    BY <1>1, <1>2 DEF SendRequest, SendRequests
  <2>2. /\ Len(R) \in Nat /\ Len(Q) = Len(R) + 1 /\ Q[Len(R) + 1] = m
        /\ \A i \in 1 .. Len(R) : Q[i] = R[i]
    BY <1>1, Added
  <2>3. Frees(R, Len(R), P) /\ Of(subscribers', g) = P
    BY DEF Of
  <2> HIDE DEF Q, R, P
  <2>4. ~IsLeased(Q[Len(R) + 1])
    BY <2>2 DEF IsLeased, NoLease
  <2>5. Silent(R, Len(R)) => Silent(Q, Len(Q))
    BY <2>2, <2>4 DEF Silent, IsLeased
  <2>6. ASSUME NEW i \in 1 .. Len(R), Decides(R, Len(R), i), R[i].lease = 0
        PROVE  i \in 1 .. Len(Q) /\ Decides(Q, Len(Q), i) /\ Q[i].lease = 0
    <3>1. i \in 1 .. Len(Q)
      BY <2>2
    <3>2. ASSUME NEW j \in i + 1 .. Len(Q)
          PROVE  ~IsLeased(Q[j])
      <4>1. j = Len(R) + 1 \/ (j \in i + 1 .. Len(R) /\ j \in 1 .. Len(R))
        BY <2>2
      <4> QED
        BY <2>2, <2>4, <2>6, <4>1 DEF Decides, IsLeased
    <3> QED
      BY <2>2, <2>6, <3>1, <3>2 DEF Decides, IsLeased
  <2> QED
    BY <2>1, <2>3, <2>5, <2>6 DEF Frees
<1>3. CASE ~up
  BY <1>3 DEF SendRequest, SendRequests, Of
<1> QED
  BY <1>2, <1>3

-----------------------------------------------------------------------------
(* What a graph does leaves the device, and other graphs, as they are. *)

LEMMA SentKeeps ==
  ASSUME Inv, Awareness, NEW h \in Graph,
         UNCHANGED toDevice \/ \E ms \in Seq(Requests) : SendRequests(h, ms)
  PROVE  /\ \A g \in Graph : Doomed(toDevice[g]) => Doomed(toDevice'[g])
         /\ \A g \in Others(h) : toDevice'[g] = toDevice[g]
         /\ ~up => UNCHANGED toDevice
<1>1. \A g \in Graph : toDevice[g] \in Seq(Requests)
  BY DEF Inv, ChannelsOK
<1>2. ASSUME NEW ms \in Seq(Requests), SendRequests(h, ms), up
      PROVE  /\ toDevice'[h] = toDevice[h] \o ms
             /\ \A g \in Others(h) : toDevice'[g] = toDevice[g]
  BY <1>2, Sent
<1>3. ASSUME NEW ms \in Seq(Requests), SendRequests(h, ms), ~up
      PROVE  UNCHANGED toDevice
  BY <1>3 DEF SendRequests
<1>4. ASSUME NEW ms \in Seq(Requests), SendRequests(h, ms), up
      PROVE  \A g \in Graph : Doomed(toDevice[g]) => Doomed(toDevice'[g])
  <2>1. ASSUME Doomed(toDevice[h])
        PROVE  Doomed(toDevice'[h])
    <3>1. Doomed(toDevice[h] \o ms)
      BY <1>1, <2>1, DoomedAdded
    <3> QED
      BY <1>2, <1>4, <3>1
  <2> QED
    BY <1>2, <1>4, <2>1 DEF Others
<1> QED
  BY <1>2, <1>3, <1>4

(* What is said of g stays true, whatever requests it has added. *)
LEMMA StillAware ==
  ASSUME NEW g \in Graph, Aware(g), temporary => temporary',
         UNCHANGED <<version, dirty, subscribers>>, mesh'[g] = mesh[g], view'[g] = view[g],
         Doomed(toDevice[g]) => Doomed(toDevice'[g])
  PROVE  Aware(g)'
<1>1. Believed' \subseteq Believed
  BY DEF Believed
<1>2. \A k : Told(g, k) => Told(g, k)'
  BY DEF Told
<1>3. Of(subscribers, g)' = Of(subscribers, g)
  BY DEF Of
<1> QED
  BY <1>1, <1>2, <1>3 DEF Aware

LEMMA AtOneGraph ==
  ASSUME Inv, Awareness, NEW h \in Graph,
         UNCHANGED <<up, version, dirty, subscribers, losses>>, temporary => temporary',
         UNCHANGED toDevice \/ \E ms \in Seq(Requests) : SendRequests(h, ms),
         \A g \in Others(h) : /\ known'[g] = known[g] /\ sub'[g] = sub[g]
                              /\ autosub'[g] = autosub[g] /\ view'[g] = view[g]
                              /\ mesh'[g] = mesh[g],
         Recorded(h)', losses = 0 => Freed(h)' /\ Aware(h)'
  PROVE  Awareness'
<1>1. /\ \A g \in Graph : Doomed(toDevice[g]) => Doomed(toDevice'[g])
      /\ \A g \in Others(h) : toDevice'[g] = toDevice[g]
      /\ ~up => UNCHANGED toDevice
  BY SentKeeps
<1>2. ASSUME NEW g \in Others(h)
      PROVE  Recorded(g)' /\ (losses = 0 => Freed(g)' /\ Aware(g)')
  <2>1. g \in Graph /\ Recorded(g) /\ (losses = 0 => Freed(g) /\ Aware(g))
    BY DEF Others, Awareness
  <2>2. Recorded(g)'
    BY <2>1 DEF Recorded
  <2>3. Freed(g) => Freed(g)'
    BY <1>1 DEF Freed, Of
  <2>4. Aware(g) => Aware(g)'
    BY <1>1, <2>1, StillAware
  <2> QED
    BY <2>1, <2>2, <2>3, <2>4
<1>3. \A g \in Graph : Recorded(g)' /\ (losses = 0 => Freed(g)' /\ Aware(g)')
  BY <1>2 DEF Others
<1>4. losses' \in Nat /\ losses' = losses
  BY DEF Awareness
<1>5. ~up' => \A g \in Graph : toDevice'[g] = <<>>
  BY <1>1 DEF Awareness
<1> QED
  BY <1>3, <1>4, <1>5 DEF Awareness

(* Where the lease is ended nothing is promised: its entry will go. *)
LEMMA DroppedKeeps ==
  ASSUME Inv, Awareness, NEW g \in Graph, Drop(g), UNCHANGED subscribers,
         autosub'[g] \subseteq Kinds
  PROVE  /\ Recorded(g)' /\ Freed(g)' /\ Aware(g)'
         /\ \A h \in Others(g) : sub'[h] = sub[h]
<1> DEFINE m == Request({}, 0)
<1>1. m \in Requests /\ m.lease = 0 /\ SendRequest(g, m)
  <2>1. {} \in Flags /\ 0 \in Leases
    BY NoSubIs DEF Leases
  <2>2. m \in Requests
    BY <2>1, RequestIs
  <2> QED
    BY <2>2 DEF Drop, Request
<1> HIDE DEF m
<1>2. Frees(toDevice'[g], Len(toDevice'[g]), Of(subscribers', g))
  BY <1>1, Ended
<1>3. Freed(g)'
  BY <1>2 DEF Freed
<1>4. Doomed(toDevice'[g]) \/ Of(subscribers', g) = {}
  BY <1>2, FreesDooms
<1>5. Aware(g)'
  BY <1>4 DEF Aware
<1>6. sub'[g] = NoSub /\ \A h \in Others(g) : sub'[h] = sub[h]
  BY SubsAre DEF Drop, Others
<1>7. Recorded(g)'
  BY <1>6 DEF Recorded, IsSubscribed, NoSub
<1> QED
  BY <1>3, <1>5, <1>6, <1>7

LEMMA KeptAliveIs ==
  ASSUME Inv, NEW g \in Graph, NEW flags, flags # {}, KeepAlive(g, flags)
  PROVE  /\ sub'[g].flags = flags /\ IsSubscribed(sub'[g])
         /\ \A h \in Others(g) : sub'[h] = sub[h]
<1>1. sub'[g].flags = flags
  BY SubsAre DEF KeepAlive, Autorenewed
<1>2. \A h \in Others(g) : sub'[h] = sub[h]
  BY SubsAre DEF KeepAlive, Others
<1> QED
  BY <1>1, <1>2 DEF IsSubscribed, NoSub

LEMMA StillFreed ==
  ASSUME NEW g \in Graph, Freed(g), temporary => temporary', UNCHANGED subscribers,
         IsSubscribed(sub[g]) => IsSubscribed(sub'[g]), toDevice'[g] = toDevice[g]
  PROVE  Freed(g)'
BY DEF Freed, Of

LEMMA SubscribeAware ==
  ASSUME Inv, Awareness, NEW g \in Graph, NEW flags \in FlagSets \cup {{}},
         NEW lease \in TempLeases \cup {0, NoLease}, Subscribe(g, flags, lease)
  PROVE  Awareness'
<1>1. /\ known[g] /\ UNCHANGED <<known, autosub, view, up, version, dirty, subscribers, mesh, losses>>
      /\ temporary => temporary'
  <2>1. temporary' = temporary \/ temporary' = (temporary \/ lease > 0)
    BY Zenon DEF Subscribe
  <2>2. temporary => temporary'
    BY <2>1, Zenon
  <2>3. known[g] /\ UNCHANGED <<known, autosub, view, up, version, dirty, subscribers, mesh, losses>>
    BY DEF Subscribe, deviceVars
  <2> QED
    BY <2>2, <2>3
<1>2. UNCHANGED toDevice \/ \E ms \in Seq(Requests) : SendRequests(g, ms)
  <2>1. Call(g)
    BY DEF Call
  <2> QED
    BY <2>1, SentIs
<1>3. Doomed(toDevice[g]) => Doomed(toDevice'[g])
  BY <1>2, SentKeeps
<1>4. Recorded(g) /\ (losses = 0 => Freed(g) /\ Aware(g)) /\ flags \subseteq Kinds
  BY KindsAssumption DEF Awareness
<1>5. autosub'[g] \subseteq Kinds
  BY <1>1, <1>4 DEF Recorded
<1>6. losses = 0 => Aware(g)'
  BY <1>1, <1>3, <1>4, StillAware
<1>7. /\ Recorded(g)' /\ (losses = 0 => Freed(g)')
      /\ \A h \in Others(g) : sub'[h] = sub[h]
  <2>1. CASE Drop(g)
    BY <1>1, <1>5, <2>1, DroppedKeeps
  <2>2. CASE flags # {} /\ KeepAlive(g, flags)
    <3>1. /\ sub'[g].flags = flags /\ IsSubscribed(sub'[g])
          /\ \A h \in Others(g) : sub'[h] = sub[h]
      BY <2>2, KeptAliveIs
    <3> QED
      BY <1>1, <1>4, <1>5, <2>2, <3>1 DEF Freed, Recorded
  <2>3. CASE lease >= 0 /\ SendRequest(g, Request(flags, lease)) /\ UNCHANGED sub
             /\ temporary' = (temporary \/ lease > 0)
    <3> DEFINE m == Request(flags, lease)
    <3>1. m \in Requests /\ m.lease = lease /\ SendRequest(g, m)
      <4>1. flags \in Flags /\ lease \in Leases
        BY FlagSetsAre DEF Leases, Asked
      <4>2. m \in Requests
        BY <4>1, RequestIs
      <4> QED
        BY <2>3, <4>2 DEF Request
    <3> HIDE DEF m
    <3>2. CASE lease = 0
      <4>1. Frees(toDevice'[g], Len(toDevice'[g]), Of(subscribers', g))
        BY <1>1, <3>1, <3>2, Ended
      <4> QED
        BY <1>1, <1>4, <2>3, <4>1 DEF Freed, Recorded
    <3>3. CASE lease # 0
      <4>1. lease > 0
        BY <2>3, <3>3, LeasesAre DEF Leases, Asked, NoLease
      <4>2. temporary'
        BY <2>3, <4>1
      <4> QED
        BY <1>1, <1>4, <2>3, <4>2 DEF Freed, Recorded
    <3> QED
      BY <3>2, <3>3
  <2> QED
    BY <2>1, <2>2, <2>3 DEF Subscribe
<1>8. \A h \in Others(g) : /\ known'[h] = known[h] /\ autosub'[h] = autosub[h]
                           /\ view'[h] = view[h] /\ mesh'[h] = mesh[h]
  BY <1>1
<1> QED
  BY <1>1, <1>2, <1>6, <1>7, <1>8, AtOneGraph

LEMMA AutosubscribeAware ==
  ASSUME Inv, Awareness, NEW g \in Graph, NEW flags \in FlagSets \cup {{}}, Autosubscribe(g, flags)
  PROVE  Awareness'
<1>1. /\ UNCHANGED <<known, view, up, version, dirty, subscribers, mesh, losses, temporary>>
      /\ autosub' = [autosub EXCEPT ![g] = flags]
  BY DEF Autosubscribe, deviceVars
<1>2. UNCHANGED toDevice \/ \E ms \in Seq(Requests) : SendRequests(g, ms)
  <2>1. Call(g)
    BY DEF Call
  <2> QED
    BY <2>1, SentIs
<1>3. Doomed(toDevice[g]) => Doomed(toDevice'[g])
  BY <1>2, SentKeeps
<1>4. Recorded(g) /\ (losses = 0 => Freed(g) /\ Aware(g)) /\ flags \subseteq Kinds
  BY KindsAssumption DEF Awareness
<1>5. autosub'[g] = flags /\ autosub'[g] \subseteq Kinds /\ \A h \in Others(g) : autosub'[h] = autosub[h]
  BY <1>1, <1>4 DEF Others, Inv, TypeOK
<1>6. losses = 0 => Aware(g)'
  BY <1>1, <1>3, <1>4, StillAware
<1>7. /\ Recorded(g)' /\ (losses = 0 => Freed(g)')
      /\ \A h \in Others(g) : sub'[h] = sub[h]
  <2>1. CASE Drop(g)
    BY <1>1, <1>5, <2>1, DroppedKeeps
  <2>2. CASE /\ autosub[g] = {} /\ IsSubscribed(sub[g])
             /\ \/ sub' = [sub EXCEPT ![g].flags = flags]
                \/ sub' = [sub EXCEPT ![g] = Autorenewed(flags)]
    <3>1. flags # {}
      BY <2>2 DEF Autosubscribe
    <3>2. sub'[g].flags = flags /\ \A h \in Others(g) : sub'[h] = sub[h]
      BY <2>2, SubsAre DEF Autorenewed, Others, Subs
    <3>3. IsSubscribed(sub'[g])
      BY <3>1, <3>2 DEF IsSubscribed, NoSub
    <3>4. known'[g] /\ sub'[g].flags # {} /\ sub'[g].flags \subseteq Kinds
      BY <1>1, <1>4, <2>2, <3>1, <3>2 DEF Recorded
    <3> QED
      BY <1>5, <3>2, <3>3, <3>4 DEF Freed, Recorded
  <2>3. CASE SendRequest(g, Who) /\ UNCHANGED sub
    <3>1. ASSUME losses = 0, ~temporary, ~IsSubscribed(sub[g])
          PROVE  Frees(toDevice'[g], Len(toDevice'[g]), Of(subscribers', g))
      <4>1. Frees(toDevice[g], Len(toDevice[g]), Of(subscribers, g))
        BY <1>4, <3>1 DEF Freed
      <4> QED
        BY <1>1, <2>3, <4>1, WhoNamesNoLease, StillFree
    <3> QED
      BY <1>1, <1>4, <1>5, <2>3, <3>1 DEF Freed, Recorded
  <2>4. CASE UNCHANGED <<sub, toDevice>>
    BY <1>1, <1>4, <1>5, <2>4, StillFreed DEF Recorded
  <2> QED
    BY <2>1, <2>2, <2>3, <2>4 DEF Autosubscribe
<1>8. \A h \in Others(g) : known'[h] = known[h] /\ view'[h] = view[h] /\ mesh'[h] = mesh[h]
  BY <1>1
<1> QED
  BY <1>1, <1>2, <1>5, <1>6, <1>7, <1>8, AtOneGraph

LEMMA ForgottenAre ==
  ASSUME Inv, NEW g \in Graph, Forget(g)
  PROVE  \A h \in Others(g) : known'[h] = known[h] /\ view'[h] = view[h]
BY DEF Forget, Others, Inv, TypeOK

LEMMA HousekeepingAware ==
  ASSUME Inv, Awareness, NEW g \in Graph, Housekeeping(g)
  PROVE  Awareness'
<1>1. UNCHANGED <<autosub, up, version, dirty, subscribers, mesh, losses, temporary>>
  BY DEF Housekeeping, deviceVars, counters
<1>2. UNCHANGED toDevice \/ \E ms \in Seq(Requests) : SendRequests(g, ms)
  BY SentIs
<1>3. Doomed(toDevice[g]) => Doomed(toDevice'[g])
  BY <1>2, SentKeeps
<1>4. Recorded(g) /\ (losses = 0 => Freed(g) /\ Aware(g)) /\ autosub'[g] \subseteq Kinds
  BY <1>1 DEF Awareness, Recorded
<1>5. /\ Recorded(g)' /\ (losses = 0 => Freed(g)' /\ Aware(g)')
      /\ \A h \in Others(g) : sub'[h] = sub[h] /\ known'[h] = known[h] /\ view'[h] = view[h]
  <2>1. CASE Forget(g) /\ Drop(g)
    BY <1>1, <1>4, <2>1, DroppedKeeps, ForgottenAre
  <2>2. CASE /\ RenewalDue(g) /\ UNCHANGED <<known, view>>
             /\ sub' = [sub EXCEPT ![g].left = AutosubInterval - Buffer - Timeout]
    <3>1. sub'[g].flags = sub[g].flags /\ \A h \in Others(g) : sub'[h] = sub[h]
      BY <2>2, SubsAre DEF Others, Subs
    <3>2. IsSubscribed(sub'[g]) /\ known'[g] /\ sub'[g].flags # {}
      BY <1>4, <2>2, <3>1 DEF RenewalDue, Recorded, IsSubscribed, NoSub
    <3>3. losses = 0 => Aware(g)'
      BY <1>1, <1>3, <1>4, <2>2, StillAware
    <3> QED
      BY <1>1, <1>4, <2>2, <3>1, <3>2, <3>3 DEF Freed, Recorded
  <2>3. CASE UNCHANGED <<known, view, sub, toDevice>>
    <3>1. losses = 0 => Aware(g)'
      BY <1>1, <1>3, <1>4, <2>3, StillAware
    <3>2. losses = 0 => Freed(g)'
      BY <1>1, <1>4, <2>3, StillFreed
    <3> QED
      BY <1>1, <1>4, <2>3, <3>1, <3>2 DEF Recorded
  <2> QED
    BY <2>1, <2>2, <2>3 DEF Housekeeping
<1> QED
  BY <1>1, <1>2, <1>5, AtOneGraph

LEMMA ReceiveSyncAware ==
  ASSUME Inv, Awareness, NEW g \in Graph, ReceiveSync(g)
  PROVE  Awareness'
<1>1. UNCHANGED <<known, view, autosub, up, version, dirty, subscribers, mesh, losses, temporary>>
  BY DEF ReceiveSync, deviceVars, counters
<1>2. UNCHANGED toDevice \/ \E ms \in Seq(Requests) : SendRequests(g, ms)
  BY SentIs DEF ReceiveAtGraph
<1>3. Doomed(toDevice[g]) => Doomed(toDevice'[g])
  BY <1>2, SentKeeps
<1>4. Recorded(g) /\ (losses = 0 => Freed(g) /\ Aware(g)) /\ autosub[g] \subseteq Kinds
  BY DEF Awareness, Recorded
<1>5. losses = 0 => Aware(g)'
  BY <1>1, <1>3, <1>4, StillAware
<1>6. /\ Recorded(g)' /\ (losses = 0 => Freed(g)')
      /\ \A h \in Others(g) : sub'[h] = sub[h]
  <2>1. CASE known[g] /\ autosub[g] # {} /\ KeepAlive(g, autosub[g])
    <3>1. /\ sub'[g].flags = autosub[g] /\ IsSubscribed(sub'[g])
          /\ \A h \in Others(g) : sub'[h] = sub[h]
      BY <2>1, KeptAliveIs
    <3> QED
      BY <1>1, <1>4, <2>1, <3>1 DEF Freed, Recorded
  <2>2. CASE SendRequest(g, Request({"device"}, NoLease)) /\ UNCHANGED sub
    <3> DEFINE m == Request({"device"}, NoLease)
    <3>1. m \in Requests /\ m.lease = NoLease /\ SendRequest(g, m)
      <4>1. {"device"} \in Flags /\ NoLease \in Leases
        BY DEF Flags, Leases
      <4>2. m \in Requests
        BY <4>1, RequestIs
      <4> QED
        BY <2>2, <4>2 DEF Request
    <3> HIDE DEF m
    <3>2. ASSUME losses = 0, ~temporary, ~IsSubscribed(sub[g])
          PROVE  Frees(toDevice'[g], Len(toDevice'[g]), Of(subscribers', g))
      <4>1. Frees(toDevice[g], Len(toDevice[g]), Of(subscribers, g))
        BY <1>4, <3>2 DEF Freed
      <4> QED
        BY <1>1, <3>1, <4>1, StillFree
    <3> QED
      BY <1>1, <1>4, <2>2, <3>2 DEF Freed, Recorded
  <2>3. CASE UNCHANGED <<sub, toDevice>>
    BY <1>1, <1>4, <2>3, StillFreed DEF Recorded
  <2> QED
    BY <2>1, <2>2, <2>3 DEF ReceiveSync
<1> QED
  BY <1>1, <1>2, <1>5, <1>6, AtOneGraph

LEMMA ReceiveLogoutAware ==
  ASSUME Inv, Awareness, NEW g \in Graph, ReceiveLogout(g)
  PROVE  Awareness'
<1>1. UNCHANGED <<autosub, up, version, dirty, subscribers, mesh, losses, temporary>>
  BY DEF ReceiveLogout, deviceVars, counters
<1>2. UNCHANGED toDevice \/ \E ms \in Seq(Requests) : SendRequests(g, ms)
  BY SentIs DEF ReceiveAtGraph
<1>3. Recorded(g) /\ (losses = 0 => Freed(g) /\ Aware(g)) /\ autosub'[g] \subseteq Kinds
  BY <1>1 DEF Awareness, Recorded
<1>4. /\ Recorded(g)' /\ (losses = 0 => Freed(g)' /\ Aware(g)')
      /\ \A h \in Others(g) : sub'[h] = sub[h] /\ known'[h] = known[h] /\ view'[h] = view[h]
  <2>1. CASE Drop(g) /\ Forget(g)
    BY <1>1, <1>3, <2>1, DroppedKeeps, ForgottenAre
  <2>2. CASE UNCHANGED <<known, sub, view, toDevice>>
    BY <1>1, <1>3, <2>2, StillFreed, StillAware DEF Recorded
  <2> QED
    BY <2>1, <2>2 DEF ReceiveLogout
<1> QED
  BY <1>1, <1>2, <1>4, AtOneGraph

(* State arrives.  The graph does not believe the properties of a device   *)
(* that it does not subscribe to; but then the lease it may have ends.     *)
LEMMA ReceiveStateAware ==
  ASSUME Inv, Awareness, NEW g \in Graph, ReceiveState(g)
  PROVE  Awareness'
<1> DEFINE m == Head(mesh[g])
           news == {k \in m.flags : k \in Sigs \/ (k = "device" /\ AcceptsDevice(g))}
<1>1. /\ UNCHANGED <<autosub, up, version, dirty, subscribers, losses, temporary>>
      /\ mesh[g] # <<>> /\ mesh' = [mesh EXCEPT ![g] = Tail(@)]
      /\ known' = [known EXCEPT ![g] = @ \/ news # {}]
      /\ view' = [view EXCEPT ![g] = [k \in Kinds |-> IF k \in news THEN m.version[k] ELSE @[k]]]
      /\ \/ news # {} /\ autosub[g] # {} /\ KeepAlive(g, autosub[g])
         \/ UNCHANGED <<sub, toDevice>>
  BY DEF ReceiveState, deviceVars, counters
<1>2. UNCHANGED toDevice \/ \E ms \in Seq(Requests) : SendRequests(g, ms)
  BY SentIs DEF ReceiveAtGraph
<1>3. Doomed(toDevice[g]) => Doomed(toDevice'[g])
  BY <1>2, SentKeeps
<1>4. Recorded(g) /\ (losses = 0 => Freed(g) /\ Aware(g)) /\ autosub[g] \subseteq Kinds
  BY DEF Awareness, Recorded
<1>5. \A k \in news : k \in Sigs \/ (k = "device" /\ AcceptsDevice(g))
  OBVIOUS
<1>6. \A k \in m.flags : k \in Sigs \/ (k = "device" /\ AcceptsDevice(g)) => k \in news
  OBVIOUS
<1>7. news \subseteq m.flags
  OBVIOUS
<1> HIDE DEF news
<1>8. /\ known'[g] = (known[g] \/ news # {})
      /\ \A h \in Others(g) : known'[h] = known[h] /\ view'[h] = view[h] /\ mesh'[h] = mesh[h]
      /\ \A k \in Kinds : view'[g][k] = IF k \in news THEN m.version[k] ELSE view[g][k]
      /\ mesh[g] \in Seq(States) /\ mesh'[g] = Tail(mesh[g])
  <2>1. known \in [Graph -> BOOLEAN] /\ view \in [Graph -> Versions] /\ mesh \in [Graph -> Seq(States)]
    BY DEF Inv, TypeOK, ChannelsOK
  <2> HIDE DEF m
  <2> QED
    BY <1>1, <2>1 DEF Others
<1> HIDE DEF m
<1>9. /\ Recorded(g)' /\ (losses = 0 => Freed(g)')
      /\ \A h \in Others(g) : sub'[h] = sub[h]
  <2>1. CASE news # {} /\ autosub[g] # {} /\ KeepAlive(g, autosub[g])
    <3>1. /\ sub'[g].flags = autosub[g] /\ IsSubscribed(sub'[g])
          /\ \A h \in Others(g) : sub'[h] = sub[h]
      BY <2>1, KeptAliveIs
    <3> QED
      BY <1>1, <1>4, <1>8, <2>1, <3>1 DEF Freed, Recorded
  <2>2. CASE UNCHANGED <<sub, toDevice>>
    BY <1>1, <1>4, <1>8, <2>2, StillFreed DEF Recorded
  <2> QED
    BY <1>1, <2>1, <2>2
<1>10. ASSUME losses = 0, NEW e \in Of(subscribers', g), NEW k \in e.flags \cap Watched \cap Believed'
       PROVE  Doomed(toDevice'[g]) \/ Told(g, k)'
  <2>1. e \in Of(subscribers, g) /\ k \in e.flags \cap Watched \cap Believed /\ k \in Kinds
        /\ (k \in Sigs \/ k = "device")
    BY <1>1 DEF Of, Believed, Watched
  <2>2. Doomed(toDevice[g]) \/ Told(g, k)
    BY <1>4, <1>10, <2>1 DEF Aware
  <2>3. CASE Doomed(toDevice[g])
    BY <1>3, <2>3
  <2>4. CASE k \in dirty
    BY <1>1, <2>4 DEF Told
  <2>5. CASE Tells(mesh[g], k, version[k], view[g][k]) /\ (k \in m.flags => k \in news)
    <3>1. view'[g][k] = IF k \in m.flags THEN m.version[k] ELSE view[g][k]
      BY <1>7, <1>8, <2>1, <2>5
    <3>2. Tells(mesh'[g], k, version[k], view'[g][k])
      BY <1>1, <1>8, <2>5, <3>1, TellsArrived DEF m
    <3> QED
      BY <1>1, <3>2 DEF Told
  <2>6. CASE k \in m.flags /\ k \notin news
    <3>1. k = "device" /\ ~AcceptsDevice(g) /\ k \notin Sigs
      BY <1>6, <2>1, <2>6
    <3>2. ~temporary
      BY <2>1, <3>1 DEF Believed
    <3>3. ~IsSubscribed(sub[g])
      BY <1>4, <3>1 DEF AcceptsDevice, Recorded
    <3>4. Frees(toDevice[g], Len(toDevice[g]), Of(subscribers, g))
      BY <1>4, <1>10, <3>2, <3>3 DEF Freed
    <3>5. Doomed(toDevice[g])
      BY <2>1, <3>4, FreesDooms
    <3> QED
      BY <1>3, <3>5
  <2> QED
    BY <2>2, <2>3, <2>4, <2>5, <2>6 DEF Told
<1>11. losses = 0 => Aware(g)'
  BY <1>10 DEF Aware
<1>12. \A h \in Others(g) : autosub'[h] = autosub[h]
  BY <1>1
<1> QED
  BY <1>1, <1>2, <1>8, <1>9, <1>11, <1>12, AtOneGraph

-----------------------------------------------------------------------------
(* Requests arrive *)

LEMMA TailIs ==
  ASSUME NEW R \in Seq(Requests), R # <<>>
  PROVE  /\ Tail(R) \in Seq(Requests) /\ Len(R) \in Nat /\ Len(Tail(R)) \in Nat
         /\ Len(R) = Len(Tail(R)) + 1 /\ Head(R) = R[1]
         /\ \A i \in 1 .. Len(Tail(R)) : Tail(R)[i] = R[i + 1]
<1>1. /\ Tail(R) \in Seq(Requests)
      /\ Len(Tail(R)) = Len(R) - 1 /\ \A i \in 1 .. Len(Tail(R)) : Tail(R)[i] = R[i + 1]
  BY HeadTailProperties
<1>2. Len(R) \in Nat /\ Len(R) # 0 /\ Head(R) = R[1]
  BY LenProperties, EmptySeq
<1> DEFINE Q == Tail(R)
<1> HIDE DEF Q
<1> QED
  BY <1>1, <1>2 DEF Q

LEMMA DoomedArrived ==
  ASSUME NEW R \in Seq(Requests), R # <<>>, Doomed(R), Head(R).lease # 0
  PROVE  Doomed(Tail(R))
<1> DEFINE Q == Tail(R)
<1>1. /\ Len(R) \in Nat /\ Len(Q) \in Nat /\ Len(R) = Len(Q) + 1
      /\ Head(R) = R[1] /\ \A i \in 1 .. Len(Q) : Q[i] = R[i + 1]
  BY TailIs
<1> HIDE DEF Q
<1>2. PICK i \in 1 .. Len(R) : R[i].lease = 0
  BY DEF Doomed
<1>3. i - 1 \in 1 .. Len(Q) /\ Q[i - 1] = R[i]
  BY <1>1, <1>2
<1>4. Doomed(Q)
  BY <1>2, <1>3 DEF Doomed
<1> QED
  BY <1>4 DEF Q

(* The first request was carried out, and the entries are now P2. *)
LEMMA FreesArrived ==
  ASSUME NEW R \in Seq(Requests), R # <<>>, NEW P, NEW P2, Frees(R, Len(R), P),
         ~IsLeased(Head(R)) => (P = {} => P2 = {}),
         Head(R).lease = 0 => P2 = {}
  PROVE  Frees(Tail(R), Len(Tail(R)), P2)
<1> DEFINE Q == Tail(R)
<1>1. /\ Len(R) \in Nat /\ Len(Q) \in Nat /\ Len(R) = Len(Q) + 1
      /\ Head(R) = R[1] /\ \A i \in 1 .. Len(Q) : Q[i] = R[i + 1]
  BY TailIs
<1> HIDE DEF Q
<1>2. \A j \in 1 .. Len(Q) : j + 1 \in 1 .. Len(R) /\ Q[j] = R[j + 1]
  BY <1>1
<1>3. CASE Silent(R, Len(R)) /\ P = {}
  <2>1. Silent(Q, Len(Q))
    BY <1>2, <1>3 DEF Silent, IsLeased
  <2>2. ~IsLeased(Head(R))
    <3>1. 1 \in 1 .. Len(R)
      BY <1>1
    <3> QED
      BY <1>1, <1>3, <3>1 DEF Silent
  <2> QED
    BY <1>3, <2>1, <2>2 DEF Frees, Q
<1>4. ASSUME NEW i \in 1 .. Len(R), Decides(R, Len(R), i), R[i].lease = 0
      PROVE  Frees(Q, Len(Q), P2)
  <2>1. CASE i = 1
    <3>1. \A j \in 1 .. Len(Q) : j + 1 \in i + 1 .. Len(R)
      BY <1>1, <2>1
    <3>2. Silent(Q, Len(Q))
      BY <1>2, <1>4, <3>1 DEF Decides, Silent, IsLeased
    <3> QED
      BY <1>1, <1>4, <2>1, <3>2 DEF Frees
  <2>2. CASE i # 1
    <3>1. i - 1 \in 1 .. Len(Q) /\ Q[i - 1] = R[i]
      BY <1>1, <2>2
    <3>2. \A j \in (i - 1) + 1 .. Len(Q) : j \in 1 .. Len(Q) /\ j + 1 \in i + 1 .. Len(R)
      BY <1>1
    <3>3. Decides(Q, Len(Q), i - 1)
      BY <1>2, <1>4, <3>1, <3>2 DEF Decides, IsLeased
    <3> QED
      BY <1>4, <3>1, <3>3 DEF Frees
  <2> QED
    BY <2>1, <2>2
<1>5. Frees(Q, Len(Q), P2)
  BY <1>3, <1>4 DEF Frees, Q
<1> QED
  BY <1>5 DEF Q

LEMMA FreesFewer ==
  ASSUME NEW R, NEW n, NEW P, NEW P2, Frees(R, n, P), P = {} => P2 = {}
  PROVE  Frees(R, n, P2)
BY DEF Frees

-----------------------------------------------------------------------------
(* The device tells of the state it is in. *)

LEMMA ToldNext ==
  ASSUME Inv, NEW g \in Graph, NEW k, UNCHANGED <<version, view>>, NEW flags \in Flags,
         LET told == Tells(mesh[g], k, version[k], view[g][k]) IN
         \/ mesh'[g] = mesh[g] /\ told
         \/ mesh'[g] = Append(mesh[g], StateMsg(flags)) /\ (k \in flags \/ told)
  PROVE  Tells(mesh'[g], k, version'[k], view'[g][k])
<1>1. CASE mesh'[g] = mesh[g] /\ Tells(mesh[g], k, version[k], view[g][k])
  BY <1>1
<1>2. CASE /\ mesh'[g] = Append(mesh[g], StateMsg(flags))
           /\ k \in flags \/ Tells(mesh[g], k, version[k], view[g][k])
  <2> DEFINE m == StateMsg(flags)
  <2>1. m \in States /\ mesh[g] \in Seq(States)
    BY StateIs DEF Inv, ChannelsOK
  <2>2. m.flags = flags /\ m.version = version
    BY DEF StateMsg
  <2> HIDE DEF m
  <2>3. Tells(Append(mesh[g], m), k, version[k], view[g][k])
    BY <1>2, <2>1, <2>2, TellsAdded
  <2> QED
    BY <1>2, <2>3 DEF m
<1> QED
  BY <1>1, <1>2

(* What is left to show of a step of the device alone *)
LEMMA AtTheDevice ==
  ASSUME Inv, Awareness, up', UNCHANGED <<known, sub, autosub, toDevice, losses, temporary>>,
         \A g \in Graph : Of(subscribers, g) = {} => Of(subscribers', g) = {},
         losses = 0 => \A g \in Graph : Aware(g)'
  PROVE  Awareness'
<1>1. ASSUME NEW g \in Graph
      PROVE  Recorded(g)' /\ (losses = 0 => Freed(g)')
  <2>1. Recorded(g) /\ (losses = 0 => Freed(g))
    BY DEF Awareness
  <2>2. Recorded(g)'
    BY <2>1 DEF Recorded
  <2>3. Freed(g) => Freed(g)'
    BY FreesFewer DEF Freed
  <2> QED
    BY <2>1, <2>2, <2>3
<1> QED
  BY <1>1 DEF Awareness

(* Entries do not become more, and what is said of the device's kinds is   *)
(* told of.                                                                *)
LEMMA AwareNext ==
  ASSUME Awareness, losses = 0, UNCHANGED <<toDevice, temporary>>,
         \A g \in Graph : Of(subscribers', g) \subseteq Of(subscribers, g),
         \A g \in Graph : \A e \in Of(subscribers', g) : \A k \in e.flags \cap Watched :
           Told(g, k) => Told(g, k)'
  PROVE  \A g \in Graph : Aware(g)'
<1> SUFFICES ASSUME NEW g \in Graph, NEW e \in Of(subscribers', g),
                    NEW k \in e.flags \cap Watched \cap Believed'
             PROVE  Doomed(toDevice'[g]) \/ Told(g, k)'
  BY DEF Aware
<1>1. Believed' = Believed
  BY DEF Believed
<1>2. Doomed(toDevice[g]) \/ Told(g, k)
  BY <1>1 DEF Awareness, Aware
<1> QED
  BY <1>2

LEMMA StartAware ==
  ASSUME Inv, Awareness, Start
  PROVE  Awareness'
<1>1. /\ up' /\ UNCHANGED <<known, sub, autosub, view, version, dirty, subscribers, toDevice, mesh>>
      /\ UNCHANGED <<losses, temporary>>
  BY DEF Start, graphVars, netVars, counters
<1>2. \A g \in Graph : Of(subscribers', g) = Of(subscribers, g)
  BY <1>1 DEF Of
<1>3. \A g \in Graph : \A k : Told(g, k) => Told(g, k)'
  BY <1>1 DEF Told
<1>4. losses = 0 => \A g \in Graph : Aware(g)'
  BY <1>1, <1>2, <1>3, AwareNext
<1> QED
  BY <1>1, <1>2, <1>4, AtTheDevice

LEMMA RewriteAware ==
  ASSUME Inv, Awareness, Rewrite
  PROVE  Awareness'
<1>1. /\ up' /\ UNCHANGED <<known, sub, autosub, view, version, subscribers, toDevice, mesh>>
      /\ UNCHANGED <<losses, temporary>> /\ Rewrites /\ dirty' = dirty \ {"device"}
  BY DEF Rewrite, graphVars, netVars, counters
<1>2. \A g \in Graph : Of(subscribers', g) = Of(subscribers, g)
  BY <1>1 DEF Of
<1>3. "device" \notin Watched
  BY <1>1 DEF Watched, Alike, Sigs
<1>4. \A g \in Graph, k \in Watched : Told(g, k) => Told(g, k)'
  BY <1>1, <1>3 DEF Told
<1>5. losses = 0 => \A g \in Graph : Aware(g)'
  BY <1>1, <1>2, <1>4, AwareNext
<1> QED
  BY <1>1, <1>2, <1>5, AtTheDevice

LEMMA ChangeAware ==
  ASSUME Inv, Awareness, NEW c \in Kinds, Change(c)
  PROVE  Awareness'
<1>1. /\ up' /\ UNCHANGED <<known, sub, autosub, view, subscribers, toDevice, mesh>>
      /\ UNCHANGED <<losses, temporary>>
      /\ version' = [version EXCEPT ![c] = @ + 1] /\ dirty' = dirty \cup {c, "device"}
  BY DEF Change, graphVars, netVars, counters
<1>2. \A g \in Graph : Of(subscribers', g) = Of(subscribers, g)
  BY <1>1 DEF Of
<1>3. \A g \in Graph, k \in Watched : Told(g, k) => Told(g, k)'
  <2> SUFFICES ASSUME NEW g \in Graph, NEW k \in Watched, Told(g, k), k \notin dirty'
               PROVE  Told(g, k)'
    BY DEF Told
  <2>1. k # c /\ Tells(mesh[g], k, version[k], view[g][k])
    BY <1>1 DEF Told
  <2>2. version'[k] = version[k]
    BY <1>1, <2>1 DEF Inv, TypeOK, Versions, Watched
  <2> QED
    BY <1>1, <2>1, <2>2 DEF Told
<1>4. losses = 0 => \A g \in Graph : Aware(g)'
  BY <1>1, <1>2, <1>3, AwareNext
<1> QED
  BY <1>1, <1>2, <1>4, AtTheDevice

LEMMA PurgedOf ==
  ASSUME Inv, subscribers' = Purged, NEW g \in Graph
  PROVE  /\ Of(subscribers', g) \subseteq Of(subscribers, g)
         /\ \A e \in Of(subscribers', g) :
              \E i \in Kept : subscribers[i].graph = g /\ subscribers[i].flags = e.flags
<1>1. Range(Purged) = {e \in Range(subscribers) : Valid(e)}
  BY PurgedKeeps DEF Inv
<1>2. Of(subscribers', g) \subseteq Of(subscribers, g)
  BY <1>1 DEF Of
<1>3. ASSUME NEW e \in Of(subscribers', g)
      PROVE  \E i \in Kept : subscribers[i].graph = g /\ subscribers[i].flags = e.flags
  <2>1. e \in Range(subscribers) /\ Valid(e) /\ e.graph = g
    BY <1>1 DEF Of
  <2>2. PICK i \in DOMAIN subscribers : subscribers[i] = e
    BY <2>1 DEF Range
  <2> QED
    BY <2>1, <2>2 DEF Kept
<1> QED
  BY <1>2, <1>3

LEMMA PingAware ==
  ASSUME Inv, Awareness, Ping
  PROVE  Awareness'
<1>1. /\ up' /\ UNCHANGED <<known, sub, autosub, view, version, dirty, toDevice, mesh>>
      /\ UNCHANGED <<losses, temporary>> /\ subscribers' = Purged
  BY DEF Ping, graphVars, counters
<1>2. \A g \in Graph : Of(subscribers', g) \subseteq Of(subscribers, g)
  BY <1>1, PurgedOf
<1>3. \A g \in Graph : \A k : Told(g, k) => Told(g, k)'
  BY <1>1 DEF Told
<1>4. losses = 0 => \A g \in Graph : Aware(g)'
  BY <1>1, <1>2, <1>3, AwareNext
<1> QED
  BY <1>1, <1>2, <1>4, AtTheDevice

LEMMA PushAware ==
  ASSUME Inv, Awareness, Push
  PROVE  Awareness'
<1>1. /\ up' /\ UNCHANGED <<known, sub, autosub, view, version, toDevice>>
      /\ UNCHANGED <<losses, temporary>> /\ subscribers' = Purged /\ dirty' = dirty \ {"device"}
      /\ \A g \in Graph : mesh'[g] = IF IsInterested(g, {"device"})
                                     THEN Append(mesh[g], StateMsg({"device"})) ELSE mesh[g]
  BY DEF Push, graphVars
<1>2. \A g \in Graph : Of(subscribers', g) \subseteq Of(subscribers, g)
  BY <1>1, PurgedOf
<1>3. {"device"} \in Flags
  BY DEF Flags
<1>4. ASSUME NEW g \in Graph, NEW e \in Of(subscribers', g), NEW k \in e.flags \cap Watched, Told(g, k)
      PROVE  Told(g, k)'
  <2>1. CASE k # "device" /\ k \in dirty
    BY <1>1, <2>1 DEF Told
  <2>2. CASE k = "device"
    <3>1. IsInterested(g, {"device"})
      BY <1>1, <2>2, PurgedOf DEF IsInterested
    <3>2. mesh'[g] = Append(mesh[g], StateMsg({"device"})) /\ k \in {"device"}
      BY <1>1, <2>2, <3>1
    <3>3. Tells(mesh'[g], k, version'[k], view'[g][k])
      BY <1>1, <1>3, <3>2, ToldNext
    <3> QED
      BY <3>3 DEF Told
  <2>3. CASE k \notin dirty
    <3>1. Tells(mesh[g], k, version[k], view[g][k])
      BY <1>4, <2>3 DEF Told
    <3>2. mesh'[g] = mesh[g] \/ mesh'[g] = Append(mesh[g], StateMsg({"device"}))
      BY <1>1
    <3>3. Tells(mesh'[g], k, version'[k], view'[g][k])
      BY <1>1, <1>3, <3>1, <3>2, ToldNext
    <3> QED
      BY <3>3 DEF Told
  <2> QED
    BY <2>1, <2>2, <2>3
<1>5. losses = 0 => \A g \in Graph : Aware(g)'
  BY <1>1, <1>2, <1>4, AwareNext
<1> QED
  BY <1>1, <1>2, <1>5, AtTheDevice

LEMMA InformAware ==
  ASSUME Inv, Awareness, Inform
  PROVE  Awareness'
<1>1. /\ up' /\ UNCHANGED <<known, sub, autosub, view, version, toDevice>>
      /\ UNCHANGED <<losses, temporary>> /\ subscribers' = Purged
      /\ \A g \in Graph : mesh'[g] = IF NewsFor(g) # {}
                                     THEN Append(mesh[g], StateMsg(NewsFor(g))) ELSE mesh[g]
  BY DEF Inform, graphVars, counters
<1>2. \A g \in Graph : Of(subscribers', g) \subseteq Of(subscribers, g)
  BY <1>1, PurgedOf
<1>3. \A g \in Graph : NewsFor(g) \in Flags
  BY DEF NewsFor, Flags, Sigs, AllSigs
<1>4. ASSUME NEW g \in Graph, NEW e \in Of(subscribers', g), NEW k \in e.flags \cap Watched, Told(g, k)
      PROVE  Told(g, k)'
  <2>1. CASE k \in dirty
    <3>1. k = "device" => IsInterested(g, {"device"})
      BY <1>1, PurgedOf DEF IsInterested
    <3>2. k \in Sigs => IsInterested(g, Sigs)
      BY <1>1, PurgedOf DEF IsInterested
    <3>3. k = "device" \/ k \in Sigs
      BY DEF Watched
    <3>4. k \in NewsFor(g)
      BY <2>1, <3>1, <3>2, <3>3 DEF NewsFor
    <3>5. mesh'[g] = Append(mesh[g], StateMsg(NewsFor(g)))
      BY <1>1, <3>4
    <3>6. Tells(mesh'[g], k, version'[k], view'[g][k])
      BY <1>1, <1>3, <3>4, <3>5, ToldNext
    <3> QED
      BY <3>6 DEF Told
  <2>2. CASE k \notin dirty
    <3>1. Tells(mesh[g], k, version[k], view[g][k])
      BY <1>4, <2>2 DEF Told
    <3>2. mesh'[g] = mesh[g] \/ mesh'[g] = Append(mesh[g], StateMsg(NewsFor(g)))
      BY <1>1
    <3>3. Tells(mesh'[g], k, version'[k], view'[g][k])
      BY <1>1, <1>3, <3>1, <3>2, ToldNext
    <3> QED
      BY <3>3 DEF Told
  <2> QED
    BY <2>1, <2>2
<1>5. losses = 0 => \A g \in Graph : Aware(g)'
  BY <1>1, <1>2, <1>4, AwareNext
<1> QED
  BY <1>1, <1>2, <1>5, AtTheDevice

LEMMA GoneAware ==
  ASSUME Inv, Awareness, Gone
  PROVE  Awareness'
<1>1. /\ subscribers' = <<>> /\ \A g \in Graph : toDevice'[g] = <<>>
      /\ UNCHANGED <<known, sub, autosub, losses>>
  BY DEF Gone, graphVars
<1>2. Len(<<>>) = 0 /\ 1 .. 0 = {} /\ DOMAIN <<>> = {}
  BY EmptySeq
<1>3. ASSUME NEW g \in Graph
      PROVE  Recorded(g)' /\ Freed(g)' /\ Aware(g)'
  <2>1. Of(subscribers', g) = {}
    BY <1>1, <1>2 DEF Of, Range
  <2>2. Recorded(g)'
    BY <1>1 DEF Awareness, Recorded
  <2>3. Freed(g)'
    BY <1>1, <1>2, <2>1 DEF Freed, Frees, Silent
  <2>4. Aware(g)'
    BY <2>1 DEF Aware
  <2> QED
    BY <2>2, <2>3, <2>4
<1> QED
  BY <1>1, <1>3 DEF Awareness

LEMMA LoseAware ==
  ASSUME Inv, Awareness, NEW g \in Graph, Lose(g)
  PROVE  Awareness'
<1>1. /\ UNCHANGED <<known, sub, autosub, up>> /\ losses' = losses + 1
      /\ \/ toDevice[g] # <<>> /\ toDevice' = [toDevice EXCEPT ![g] = Tail(@)]
         \/ UNCHANGED toDevice
  BY DEF Lose, graphVars, deviceVars
<1>2. losses' \in Nat /\ losses' # 0
  BY <1>1 DEF Awareness
<1>3. \A h \in Graph : Recorded(h)'
  BY <1>1 DEF Awareness, Recorded
<1>4. ~up' => \A h \in Graph : toDevice'[h] = <<>>
  BY <1>1 DEF Awareness
<1> QED
  BY <1>2, <1>3, <1>4 DEF Awareness

-----------------------------------------------------------------------------
(* A request of g has arrived. *)
LEMMA AtArrival ==
  ASSUME Inv, Awareness, NEW g \in Graph, up', UNCHANGED <<known, sub, autosub, losses, temporary>>,
         toDevice[g] # <<>>, toDevice' = [toDevice EXCEPT ![g] = Tail(@)],
         \A h \in Others(g) : Of(subscribers', h) = Of(subscribers, h),
         LET m == Head(toDevice[g]) IN
         /\ ~IsLeased(m) => (Of(subscribers, g) = {} => Of(subscribers', g) = {})
         /\ m.lease = 0 => Of(subscribers', g) = {},
         losses = 0 => \A h \in Graph : Aware(h)'
  PROVE  Awareness'
<1>1. /\ toDevice \in [Graph -> Seq(Requests)]
      /\ toDevice'[g] = Tail(toDevice[g]) /\ \A h \in Others(g) : toDevice'[h] = toDevice[h]
  BY DEF Inv, ChannelsOK, Others
<1>2. \A h \in Graph : Recorded(h)'
  BY DEF Awareness, Recorded
<1>3. ASSUME losses = 0, NEW h \in Graph
      PROVE  Freed(h)'
  <2>1. Freed(h)
    BY <1>3 DEF Awareness
  <2>2. CASE h # g
    BY <1>1, <2>1, <2>2 DEF Freed, Others
  <2>3. CASE h = g
    <3> SUFFICES ASSUME ~temporary, ~IsSubscribed(sub[g])
                 PROVE  Frees(toDevice'[g], Len(toDevice'[g]), Of(subscribers', g))
      BY <2>3 DEF Freed
    <3>1. Frees(toDevice[g], Len(toDevice[g]), Of(subscribers, g))
      BY <2>1, <2>3 DEF Freed
    <3>2. toDevice[g] \in Seq(Requests)
      BY <1>1
    <3> QED
      BY <1>1, <3>1, <3>2, FreesArrived
  <2> QED
    BY <2>2, <2>3
<1> QED
  BY <1>2, <1>3 DEF Awareness

(* What is said of g, once a request of its own has arrived that does not  *)
(* end its lease *)
LEMMA DoomedNext ==
  ASSUME Inv, NEW g \in Graph, toDevice[g] # <<>>, toDevice' = [toDevice EXCEPT ![g] = Tail(@)],
         NEW h \in Graph, h = g => Head(toDevice[g]).lease # 0, Doomed(toDevice[h])
  PROVE  Doomed(toDevice'[h])
<1>1. /\ toDevice \in [Graph -> Seq(Requests)]
      /\ toDevice'[g] = Tail(toDevice[g]) /\ \A f \in Others(g) : toDevice'[f] = toDevice[f]
  BY DEF Inv, ChannelsOK, Others
<1>2. CASE h = g
  BY <1>1, <1>2, DoomedArrived
<1>3. CASE h # g
  BY <1>1, <1>3 DEF Others
<1> QED
  BY <1>2, <1>3

LEMMA ReceiveWhoAware ==
  ASSUME Inv, Awareness, NEW g \in Graph, ReceiveWho(g)
  PROVE  Awareness'
<1>1. /\ up' /\ UNCHANGED <<known, sub, autosub, view, version, dirty, subscribers, mesh>>
      /\ UNCHANGED <<losses, temporary>>
      /\ toDevice[g] # <<>> /\ toDevice' = [toDevice EXCEPT ![g] = Tail(@)]
      /\ Head(toDevice[g]) = Who
  BY DEF ReceiveWho, graphVars, deviceVars, counters
<1>2. \A h \in Graph : Of(subscribers', h) = Of(subscribers, h)
  BY <1>1 DEF Of
<1>3. Head(toDevice[g]).lease # 0 /\ Head(toDevice[g]).lease = NoLease
  BY <1>1, WhoNamesNoLease DEF NoLease
<1>4. ASSUME losses = 0, NEW h \in Graph
      PROVE  Aware(h)'
  <2>1. Aware(h)
    BY <1>4 DEF Awareness
  <2>2. Doomed(toDevice[h]) => Doomed(toDevice'[h])
    BY <1>1, <1>3, DoomedNext
  <2> QED
    BY <1>1, <2>1, <2>2, StillAware
<1>5. \A h \in Others(g) : Of(subscribers', h) = Of(subscribers, h)
  BY <1>2 DEF Others
<1> QED
  BY <1>1, <1>2, <1>3, <1>4, <1>5, AtArrival

(* "bring subscriber up to date" *)
LEMMA BroughtTells ==
  ASSUME Inv, NEW g \in Graph, NEW new \in Flags, BringUpToDate(g, new), UNCHANGED <<version, view>>
  PROVE  /\ \A k \in Kinds : k \in new \/ k = "device" \/ Told(g, k) => Told(g, k)'
         /\ \A h \in Graph, k \in Kinds : k # "device" /\ Told(h, k) => Told(h, k)'
<1> DEFINE flags == (new \cup {"device"}) \cap Kinds
<1>1. /\ flags \in Flags /\ dirty' = dirty \ {"device"}
      /\ mesh'[g] = Append(mesh[g], StateMsg(flags))
      /\ \A h \in Others(g) : mesh'[h] = mesh[h]
  BY DEF BringUpToDate, Flags, Others, Inv, ChannelsOK
<1>2. \A k \in Kinds : k \in new \/ k = "device" => k \in flags
  OBVIOUS
<1> HIDE DEF flags
<1>3. ASSUME NEW k \in Kinds, k \in new \/ k = "device" \/ Told(g, k)
      PROVE  Told(g, k)'
  <2>1. CASE k # "device" /\ k \in dirty
    BY <1>1, <2>1 DEF Told
  <2>2. CASE k \in flags \/ Tells(mesh[g], k, version[k], view[g][k])
    <3>1. Tells(mesh'[g], k, version'[k], view'[g][k])
      BY <1>1, <2>2, ToldNext
    <3> QED
      BY <3>1 DEF Told
  <2> QED
    BY <1>2, <1>3, <2>1, <2>2 DEF Told
<1>4. ASSUME NEW h \in Graph, NEW k \in Kinds, k # "device", Told(h, k)
      PROVE  Told(h, k)'
  <2>1. CASE h = g
    BY <1>3, <1>4, <2>1
  <2>2. CASE h # g
    <3>1. mesh'[h] = mesh[h]
      BY <1>1, <2>2 DEF Others
    <3> QED
      BY <1>1, <1>4, <3>1 DEF Told
  <2> QED
    BY <2>1, <2>2
<1> QED
  BY <1>3, <1>4

(* The state is sent to some graph, or nothing changes of what graphs are  *)
(* told.                                                                   *)
Telling == UNCHANGED <<mesh, dirty>> \/ \E g \in Graph, new \in Flags : BringUpToDate(g, new)

(* The signals are told of whoever the state is sent to, the properties of *)
(* the device where there is one graph.                                    *)
LEMMA TellingKeeps ==
  ASSUME Inv, Telling, UNCHANGED <<version, view>>, NEW g \in Graph, NEW k \in Watched, Told(g, k)
  PROVE  Told(g, k)'
<1>1. CASE UNCHANGED <<mesh, dirty>>
  BY <1>1 DEF Told
<1>2. ASSUME NEW h \in Graph, NEW new \in Flags, BringUpToDate(h, new)
      PROVE  Told(g, k)'
  <2>1. k \in Kinds /\ (k = "device" => h = g)
    BY DEF Watched, Alike, Sigs
  <2>2. CASE k = "device"
    BY <1>2, <2>1, <2>2, BroughtTells
  <2>3. CASE k # "device"
    BY <1>2, <2>1, <2>3, BroughtTells
  <2> QED
    BY <2>2, <2>3
<1> QED
  BY <1>1, <1>2 DEF Telling

LEMMA EndLeaseTells ==
  ASSUME Inv, NEW g \in Graph, NEW i \in PositionOf(g), NEW flags \in Flags, EndLease(g, i, flags)
  PROVE  Telling
<1> DEFINE new  == flags \ subscribers[i].flags
           rest == RemoveAt(subscribers, i)
           to   == IF i <= Len(rest) THEN rest[i].graph ELSE g
<1>1. /\ subscribers' = rest /\ new \in Flags
      /\ UNCHANGED <<mesh, dirty>> \/ BringUpToDate(to, new)
  BY DEF EndLease, Flags
<1>2. subscribers' \in Seq(Entries)
  BY EndLeaseIs
<1> HIDE DEF rest, new
<1>3. to \in Graph
  <2>1. CASE i <= Len(rest)
    <3>1. i \in 1 .. Len(rest)
      <4>1. i \in Nat /\ 1 <= i /\ Len(rest) \in Nat
        BY <1>1, <1>2, ListIs, LenProperties DEF PositionOf, Inv
      <4> QED
        BY <2>1, <4>1
    <3>2. rest[i] \in Entries
      BY <1>1, <1>2, <3>1, ElementOfSeq
    <3>3. rest[i].graph \in Graph
      <4> DEFINE L == UNION {-1 .. m : m \in Asked}
      <4>1. Entries = [graph : Graph, flags : Flags \ {{}}, left : L]
        BY DEF Entries
      <4> HIDE DEF L
      <4> QED
        BY <3>2, <4>1
    <3> QED
      BY <2>1, <3>3
  <2> QED
    BY <2>1
<1> QED
  BY <1>1, <1>3 DEF Telling

LEMMA ReceiveRequestAware ==
  ASSUME Inv, Awareness, NEW g \in Graph, ReceiveRequest(g)
  PROVE  Awareness'
<1> DEFINE m == Head(toDevice[g])
           flags == Parsed(m.words)
           P == Of(subscribers, g)
           P2 == Of(subscribers', g)
<1>1. /\ up' /\ UNCHANGED <<known, sub, autosub, view, version, losses, temporary>>
      /\ toDevice[g] # <<>> /\ toDevice' = [toDevice EXCEPT ![g] = Tail(@)]
  BY DEF ReceiveRequest, graphVars, counters
<1>2. m.lease \in Leases /\ flags \in Flags /\ m.lease \in Int
  <2>1. m \in Requests
    BY <1>1, HeadTailProperties DEF Inv, ChannelsOK
  <2> HIDE DEF m
  <2> QED
    BY <2>1, ParsedIs, LeasesAre DEF Requests
<1>3. \/ (m.lease = NoLease \/ PositionOf(g) = {}) /\ Admit(g, flags, m.lease)
      \/ \E i \in PositionOf(g) :
            /\ m.lease >= 0
            /\ \/ EndLease(g, i, flags)
               \/ flags # {} /\ m.lease # 0 /\ Renew(g, i, flags, m.lease)
  BY DEF ReceiveRequest
<1>4. NoLease = -1 /\ (~IsLeased(m) => ~(m.lease > 0))
  BY <1>2 DEF NoLease, IsLeased
<1>5. Doomed(toDevice[g]) /\ m.lease # 0 => Doomed(toDevice'[g])
  BY <1>1, DoomedNext
<1>6. losses = 0 => \A x \in P : \A k \in x.flags \cap Watched \cap Believed :
                      Doomed(toDevice[g]) \/ Told(g, k)
  BY DEF Awareness, Aware
<1> DEFINE e == [graph |-> g, flags |-> flags, left |-> m.lease]
           Shown ==
             /\ Telling
             /\ \A h \in Others(g) : Of(subscribers', h) = Of(subscribers, h)
             /\ ~IsLeased(m) => (P = {} => P2 = {})
             /\ m.lease = 0 => P2 = {}
             /\ losses = 0 => \A x \in P2 : \A k \in x.flags \cap Watched \cap Believed :
                                Doomed(toDevice'[g]) \/ Told(g, k)'
<1>7. e.graph = g /\ e.flags = flags
  OBVIOUS
<1> HIDE DEF m, flags, e
<1>8. \A k \in Watched : k \in Kinds /\ (Telling /\ Told(g, k) => Told(g, k)')
  BY <1>1, TellingKeeps DEF Watched
<1>9. ASSUME m.lease = NoLease \/ PositionOf(g) = {}, Admit(g, flags, m.lease)
      PROVE  Shown
  <2>1. /\ ~(m.lease > 0 /\ flags # {}) => subscribers' = subscribers
        /\ m.lease > 0 /\ flags # {} => Range(subscribers') = Range(subscribers) \cup {e}
    BY <1>2, <1>9, AdmitIs DEF e
  <2>2. PositionOf(g) = {} => P = {}
    BY DEF PositionOf, Of, Range
  <2>3. /\ flags = {} => UNCHANGED <<mesh, dirty>>
        /\ flags # {} => BringUpToDate(g, flags)
    BY <1>9 DEF Admit
  <2>4. Telling
    BY <1>2, <2>3 DEF Telling
  <2>5. CASE m.lease > 0 /\ flags # {}
    <3>1. P2 = {e} /\ \A h \in Others(g) : Of(subscribers', h) = Of(subscribers, h)
      <4>1. P = {}
        BY <1>4, <1>9, <2>2, <2>5
      <4> QED
        BY <1>7, <2>1, <2>5, <4>1 DEF Of, Others
    <3>2. \A k \in flags \cap Kinds : Told(g, k)'
      BY <1>1, <1>2, <2>3, <2>5, BroughtTells
    <3>3. IsLeased(m) /\ m.lease # 0
      BY <1>2, <2>5 DEF IsLeased
    <3>4. \A x \in P2 : \A k \in x.flags \cap Watched \cap Believed :
            Doomed(toDevice'[g]) \/ Told(g, k)'
      BY <1>7, <1>8, <3>1, <3>2
    <3> QED
      BY <2>4, <3>1, <3>3, <3>4
  <2>6. CASE ~(m.lease > 0 /\ flags # {})
    <3>1. P2 = P /\ \A h \in Others(g) : Of(subscribers', h) = Of(subscribers, h)
      BY <2>1, <2>6 DEF Of
    <3>2. m.lease = 0 => P = {}
      BY <1>4, <1>9, <2>2
    <3>3. losses = 0 => \A x \in P2 : \A k \in x.flags \cap Watched \cap Believed :
            Doomed(toDevice'[g]) \/ Told(g, k)'
      BY <1>5, <1>6, <1>8, <2>4, <3>1, <3>2
    <3> QED
      BY <2>4, <3>1, <3>2, <3>3
  <2> QED
    BY <2>5, <2>6
<1>10. ASSUME NEW i \in PositionOf(g), m.lease >= 0, EndLease(g, i, flags)
       PROVE  Shown
  <2>1. Range(subscribers') = {x \in Range(subscribers) : x.graph # g}
    BY <1>2, <1>10, EndLeaseIs
  <2>2. P2 = {} /\ \A h \in Others(g) : Of(subscribers', h) = Of(subscribers, h)
    BY <2>1 DEF Of, Others
  <2>3. Telling
    BY <1>2, <1>10, EndLeaseTells
  <2> QED
    BY <2>2, <2>3
<1>11. ASSUME NEW i \in PositionOf(g), m.lease >= 0, flags # {}, m.lease # 0, Renew(g, i, flags, m.lease)
       PROVE  Shown
  <2> DEFINE old == subscribers[i].flags
  <2>1. m.lease \in Asked /\ IsLeased(m)
    BY <1>2, <1>11 DEF Leases, NoLease, IsLeased
  <2>2. Range(subscribers') = {x \in Range(subscribers) : x.graph # g} \cup {e}
    BY <1>2, <1>11, <2>1, RenewIs DEF e
  <2>3. P2 = {e} /\ \A h \in Others(g) : Of(subscribers', h) = Of(subscribers, h)
    BY <1>7, <2>2 DEF Of, Others
  <2>4. /\ flags \ old = {} => UNCHANGED <<mesh, dirty>>
        /\ flags \ old # {} => BringUpToDate(g, flags \ old)
    BY <1>11 DEF Renew
  <2>5. flags \ old \in Flags
    BY <1>2 DEF Flags
  <2>6. Telling
    BY <2>4, <2>5 DEF Telling
  <2>7. subscribers[i] \in P
    BY DEF PositionOf, Of, Range
  <2>8. ASSUME losses = 0, NEW k \in flags \cap Watched \cap Believed
        PROVE  Doomed(toDevice'[g]) \/ Told(g, k)'
    <3>1. CASE k \in old
      BY <1>5, <1>6, <1>8, <1>11, <2>6, <2>7, <2>8, <3>1
    <3>2. CASE k \notin old
      <4>1. BringUpToDate(g, flags \ old) /\ k \in flags \ old /\ k \in Kinds
        BY <1>8, <2>4, <2>8, <3>2
      <4> QED
        BY <1>1, <2>5, <4>1, BroughtTells
    <3> QED
      BY <3>1, <3>2
  <2>9. losses = 0 => \A x \in P2 : \A k \in x.flags \cap Watched \cap Believed :
          Doomed(toDevice'[g]) \/ Told(g, k)'
    BY <1>7, <2>3, <2>8
  <2> QED
    BY <1>11, <2>1, <2>3, <2>6, <2>9
<1>12. Shown
  BY <1>3, <1>9, <1>10, <1>11
<1> HIDE DEF P, P2
<1>13. ASSUME losses = 0, NEW h \in Graph
       PROVE  Aware(h)'
  <2>1. Believed' = Believed
    BY <1>1 DEF Believed
  <2>2. CASE h = g
    BY <1>12, <1>13, <2>1, <2>2 DEF Aware, P2
  <2>3. CASE h # g
    <3>1. Of(subscribers', h) = Of(subscribers, h)
      BY <1>12, <2>3 DEF Others
    <3>2. \A k \in Watched : Told(h, k) => Told(h, k)'
      BY <1>1, <1>12, TellingKeeps
    <3>3. Doomed(toDevice[h]) => Doomed(toDevice'[h])
      BY <1>1, <2>3, DoomedNext
    <3>4. Aware(h)
      BY <1>13 DEF Awareness
    <3> QED
      BY <2>1, <3>1, <3>2, <3>3, <3>4 DEF Aware
  <2> QED
    BY <2>2, <2>3
<1>14. losses = 0 => \A h \in Graph : Aware(h)'
  BY <1>13
<1> QED
  BY <1>1, <1>12, <1>14, AtArrival DEF P, P2, m

-----------------------------------------------------------------------------
(* Time goes on when nothing is under way, and takes no kinds from anyone. *)

LEMMA OfAged ==
  ASSUME Inv, Tick, NEW g \in Graph
  PROVE  \A e \in Of(subscribers', g) : \E x \in Of(subscribers, g) : x.flags = e.flags
<1> SUFFICES ASSUME NEW e \in Of(subscribers', g)
             PROVE  \E x \in Of(subscribers, g) : x.flags = e.flags
  OBVIOUS
<1>1. subscribers' = [i \in DOMAIN subscribers |-> [subscribers[i] EXCEPT !.left = @ - 1]]
  BY DEF Tick
<1>2. DOMAIN subscribers' = DOMAIN subscribers
  BY <1>1
<1>3. PICK i \in DOMAIN subscribers : subscribers'[i] = e
  BY <1>2 DEF Of, Range
<1>4. subscribers[i] \in Entries
  BY ListIs DEF Inv
<1>5. e = [subscribers[i] EXCEPT !.left = @ - 1]
  BY <1>1, <1>3
<1>6. e.flags = subscribers[i].flags /\ e.graph = subscribers[i].graph
  BY <1>4, <1>5, EntryAged
<1> QED
  BY <1>6 DEF Of, Range

LEMMA TickAware ==
  ASSUME Inv, Awareness, Tick
  PROVE  Awareness'
<1>1. /\ UNCHANGED <<known, autosub, view, up, version, dirty, toDevice, mesh, losses, temporary>>
      /\ \A g \in Graph : sub'[g] = IF IsSubscribed(sub[g]) THEN [sub[g] EXCEPT !.left = @ - 1]
                                                            ELSE sub[g]
  BY DEF Tick, netVars, counters
<1>2. ASSUME NEW g \in Graph
      PROVE  Recorded(g)' /\ (losses = 0 => Freed(g)' /\ Aware(g)')
  <2>1. Recorded(g) /\ (losses = 0 => Freed(g) /\ Aware(g))
    BY DEF Awareness
  <2>2. sub'[g].flags = sub[g].flags /\ (IsSubscribed(sub'[g]) <=> IsSubscribed(sub[g]))
    <3>1. sub'[g].flags = sub[g].flags
      BY <1>1, SubsAre DEF Subs
    <3>2. IsSubscribed(sub[g]) => IsSubscribed(sub'[g])
      BY <2>1, <3>1 DEF Recorded, IsSubscribed, NoSub
    <3>3. ~IsSubscribed(sub[g]) => ~IsSubscribed(sub'[g])
      BY <1>1
    <3> QED
      BY <3>1, <3>2, <3>3
  <2>3. Recorded(g)'
    BY <1>1, <2>1, <2>2 DEF Recorded
  <2>4. Of(subscribers, g) = {} => Of(subscribers', g) = {}
    BY OfAged
  <2>5. Freed(g) => Freed(g)'
    BY <1>1, <2>2, <2>4, FreesFewer DEF Freed
  <2>6. Aware(g) => Aware(g)'
    BY <1>1, OfAged DEF Aware, Told, Believed
  <2> QED
    BY <2>1, <2>3, <2>5, <2>6
<1> QED
  BY <1>1, <1>2 DEF Awareness

LEMMA AwareInitially ==
  ASSUME Init
  PROVE  Awareness
<1>1. /\ losses = 0 /\ subscribers = <<>>
      /\ \A g \in Graph : autosub[g] = {} /\ sub[g] = NoSub /\ toDevice[g] = <<>>
  BY DEF Init
<1>2. Len(<<>>) = 0 /\ 1 .. 0 = {} /\ DOMAIN <<>> = {}
  BY EmptySeq
<1>3. ASSUME NEW g \in Graph
      PROVE  Recorded(g) /\ Freed(g) /\ Aware(g)
  <2>1. Of(subscribers, g) = {}
    BY <1>1, <1>2 DEF Of, Range
  <2>2. Recorded(g)
    <3>1. sub[g].flags = {} /\ ~IsSubscribed(sub[g]) /\ autosub[g] = {}
      <4>1. NoSub.flags = {}
        BY DEF NoSub
      <4> QED
        BY <1>1, <4>1 DEF IsSubscribed
    <3> QED
      BY <3>1 DEF Recorded
  <2>3. Freed(g)
    BY <1>1, <1>2, <2>1 DEF Freed, Frees, Silent
  <2> QED
    BY <2>1, <2>2, <2>3 DEF Aware
<1> QED
  BY <1>1, <1>3 DEF Awareness

LEMMA EveryStepAware ==
  ASSUME Inv, Awareness, [Next]_vars
  PROVE  Awareness'
<1>1. CASE Tick \/ Start \/ Rewrite
  BY <1>1, TickAware, StartAware, RewriteAware
<1>2. CASE Inform \/ Push \/ Ping
  BY <1>2, InformAware, PushAware, PingAware
<1>3. CASE Logout \/ Crash
  BY <1>3, GoneAware DEF Logout, Crash
<1>4. ASSUME NEW k \in Kinds, Change(k)
      PROVE  Awareness'
  BY <1>4, ChangeAware
<1>5. ASSUME NEW g \in Graph, Call(g)
      PROVE  Awareness'
  <2>1. CASE \E flags \in FlagSets \cup {{}}, lease \in TempLeases \cup {0, NoLease} :
               Subscribe(g, flags, lease)
    BY <2>1, SubscribeAware
  <2>2. CASE \E flags \in FlagSets \cup {{}} : Autosubscribe(g, flags)
    BY <2>2, AutosubscribeAware
  <2> QED
    BY <1>5, <2>1, <2>2 DEF Call
<1>6. ASSUME NEW g \in Graph, Housekeeping(g)
      PROVE  Awareness'
  BY <1>6, HousekeepingAware
<1>7. ASSUME NEW g \in Graph, ReceiveAtGraph(g)
      PROVE  Awareness'
  BY <1>7, ReceiveSyncAware, ReceiveLogoutAware, ReceiveStateAware DEF ReceiveAtGraph
<1>8. ASSUME NEW g \in Graph, ReceiveAtDevice(g)
      PROVE  Awareness'
  BY <1>8, ReceiveRequestAware, ReceiveWhoAware DEF ReceiveAtDevice
<1>9. ASSUME NEW g \in Graph, Lose(g)
      PROVE  Awareness'
  BY <1>9, LoseAware
<1>10. CASE UNCHANGED vars
  <2>1. /\ UNCHANGED <<known, sub, autosub, view, up, version, dirty, subscribers, toDevice, mesh>>
        /\ UNCHANGED <<losses, temporary>>
    BY <1>10 DEF vars, graphVars, deviceVars, netVars, counters
  <2>2. \A g \in Graph : Recorded(g)' = Recorded(g) /\ Freed(g)' = Freed(g) /\ Aware(g)' = Aware(g)
    BY <2>1 DEF Recorded, Freed, Aware, Told, Believed, Of
  <2> QED
    BY <2>1, <2>2 DEF Awareness
<1> QED
  BY <1>1, <1>2, <1>3, <1>4, <1>5, <1>6, <1>7, <1>8, <1>9, <1>10 DEF Next

LEMMA AwareAlways == Spec => [](Inv /\ Awareness)
<1>1. Init => Inv /\ Awareness
  BY Initially, AwareInitially
<1>2. Inv /\ Awareness /\ [Next]_vars => Inv' /\ Awareness'
  BY EveryStep, EveryStepAware
<1> QED
  BY <1>1, <1>2, PTL DEF Spec

(* Once everything has arrived, what is told is known. *)
LEMMA Arrivals ==
  ASSUME Inv, Awareness, Settled, losses = 0, NEW i \in DOMAIN subscribers,
         NEW k \in subscribers[i].flags \cap Watched \cap Believed
  PROVE  view[subscribers[i].graph][k] = version[k]
<1> DEFINE g == subscribers[i].graph
<1>1. g \in Graph /\ subscribers[i] \in Of(subscribers, g)
  <2>1. subscribers[i] \in Entries
    BY ListIs DEF Inv
  <2> DEFINE L == UNION {-1 .. m : m \in Asked}
  <2>2. Entries = [graph : Graph, flags : Flags \ {{}}, left : L]
    BY DEF Entries
  <2> HIDE DEF L
  <2>3. g \in Graph
    BY <2>1, <2>2
  <2> QED
    BY <2>3 DEF Of, Range
<1> HIDE DEF g
<1>2. toDevice[g] = <<>> /\ mesh[g] = <<>> /\ dirty = {}
  BY <1>1 DEF Settled, Quiet
<1>3. Len(<<>>) = 0 /\ 1 .. 0 = {}
  BY EmptySeq
<1>4. Doomed(toDevice[g]) \/ Told(g, k)
  BY <1>1 DEF Awareness, Aware
<1>5. ~Doomed(<<>>)
  BY <1>3 DEF Doomed
<1>6. Tells(<<>>, k, version[k], view[g][k])
  BY <1>2, <1>4, <1>5 DEF Told
<1>7. view[g][k] = version[k]
  BY <1>3, <1>6 DEF Tells
<1> QED
  BY <1>7 DEF g

(* One graph, and no program that sets a property to the value it has:     *)
(* whatever the device does, whoever restarts and whatever program calls   *)
(* and messages interleave, a graph with a lease knows the latest state of *)
(* what it subscribed to as soon as everything sent has arrived            *)
(* (mpr_dev_manage_subscriber, mpr_dev_update_subscribers, handler_dev).   *)
THEOREM TheStateIsKnown ==
  ASSUME Alike
  PROVE  Spec => []Informed
<1>1. ASSUME Inv, Awareness
      PROVE  Informed
  <2> SUFFICES ASSUME Settled, losses = 0, NEW g \in Graph, NEW i \in DOMAIN subscribers,
                      subscribers[i].graph = g,
                      NEW k \in subscribers[i].flags \cap sub[g].flags \cap Believed
               PROVE  view[g][k] = version[k]
    BY DEF Informed, UpToDate
  <2>1. k \in Kinds
    BY <1>1 DEF Awareness, Recorded
  <2>2. k \in Watched
    BY <2>1 DEF Watched, Believed
  <2> QED
    BY <1>1, <2>2, Arrivals
<1> QED
  BY <1>1, AwareAlways, PTL

(* Any number of graphs, and programs that do what they like: so it is     *)
(* with the signals of the device, which are noted as changed for each.    *)
SignalsInformed ==
  Settled /\ losses = 0 =>
    \A i \in DOMAIN subscribers : \A k \in subscribers[i].flags \cap Sigs :
      view[subscribers[i].graph][k] = version[k]

(* Whoever has a lease for signals knows their latest state as soon as     *)
(* everything sent has arrived, nothing being lost (handler_sig,           *)
(* mpr_dev_update_subscribers).                                            *)
THEOREM SignalsAreKnown == Spec => []SignalsInformed
<1>1. ASSUME Inv, Awareness
      PROVE  SignalsInformed
  <2> SUFFICES ASSUME Settled, losses = 0, NEW i \in DOMAIN subscribers,
                      NEW k \in subscribers[i].flags \cap Sigs
               PROVE  view[subscribers[i].graph][k] = version[k]
    BY DEF SignalsInformed
  <2>1. k \in Watched \cap Believed
    BY DEF Watched, Believed, Sigs
  <2> QED
    BY <1>1, <2>1, Arrivals
<1> QED
  BY <1>1, AwareAlways, PTL
=============================================================================
