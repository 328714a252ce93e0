--------------------------- MODULE NetworkProofs ---------------------------
(***************************************************************************)
(* Three parts of the way messages take: what the pings of linked devices  *)
(* tell, who polls, and where messages are put.                            *)
(***************************************************************************)
EXTENDS Links, Outbox, Polling, SequenceTheorems, TLAPS

(***************************************************************************)
(* What the pings of linked devices tell, for any clocks, delays, timeouts *)
(* and periods, with whatever losses, maps that come and go and deaths.    *)
(*                                                                         *)
(* That the offset of a link is right rests on the times pings carry: a    *)
(* ping that answers the last one was sent as long after that one arrived  *)
(* as it says, and that one had arrived within a delay (Honest).  A link   *)
(* that is given up and made anew would count its pings from the start,    *)
(* and an old answer would match the wrong one; but a link is given up     *)
(* only when no end can connect any more.                                  *)
(***************************************************************************)

LkSpec == LkInit /\ [][LkNext]_lkVars

Ends ==
  [up : BOOLEAN, link : BOOLEAN, maps : BOOLEAN, sent : Nat, sentAt : Int, rcvd : Int,
   rcvdAt : Int, off : Int, sample : Seq(Int), lost : BOOLEAN]
Pings == [to : LkEnd, id : Nat \ {0}, rcvd : Int \ {0}, elapsed : Nat, at : Int, due : Int]

(* An end without a link has forgotten all of it. *)
Blank(r) == r.sent = 0 /\ r.rcvd = -1 /\ r.sample = <<>>

Sound(r) == r \in Ends /\ r.rcvd # 0 /\ (~r.link => Blank(r))

LkTypeOK ==
  /\ lkNow \in Nat /\ lkNet \subseteq Pings
  /\ lkEnd \in [LkEnd -> Ends] /\ \A e \in LkEnd : Sound(lkEnd[e])

-----------------------------------------------------------------------------
(* While no clock is set *)

(* when a ping was sent, and when the last ping was sent and arrived, by   *)
(* the one clock of the model                                              *)
SentOn(m)    == m.at - LkSkew[LkPeer(m.to)]
Sent(E, e)    == E[e].sentAt - LkSkew[e]
Arrived(E, e) == E[e].rcvdAt - LkSkew[e]

(* A ping is on its way for a delay at most. *)
Carried(N, t) ==
  \A m \in N : SentOn(m) \in 0 .. t /\ t <= m.due /\ m.due <= SentOn(m) + LkDelay

(* What the end e is told of its last ping: by the pings on their way to   *)
(* its peer, what its peer noted, and the pings on their way back.         *)
ToldOf(E, N, e) ==
  LET p == LkPeer(e)
  IN  /\ \A m \in N : m.to = p => m.id <= E[e].sent /\ (m.id = E[e].sent => SentOn(m) = Sent(E, e))
      /\ E[p].rcvd <= E[e].sent
      /\ E[p].rcvd = E[e].sent => Arrived(E, p) - Sent(E, e) \in 0 .. LkDelay
      /\ \A m \in N : m.to = e =>
           /\ m.rcvd <= E[e].sent
           /\ m.rcvd = E[e].sent => SentOn(m) - m.elapsed - Sent(E, e) \in 0 .. LkDelay

(* Nobody has heard of the end e yet. *)
Unheard(E, N, e) ==
  /\ E[LkPeer(e)].rcvd = -1
  /\ \A m \in N : m.to = e /\ m.rcvd = -1

Early(e) == (e - 1) * LkDelay

(* Silence is noted only after a timeout. *)
Patient(r, e, t) ==
  LET arrived == r.rcvdAt - LkSkew[e]
  IN  /\ arrived >= 0 /\ (r.rcvd > 0 => arrived <= t)
      /\ r.rcvd < 0 => arrived >= LkTimeout

Bounds(e) == LET true == 2 * (LkSkew[LkPeer(e)] - LkSkew[e]) IN (true - 4 * LkDelay) .. true

Knows(E, N, t, e) ==
  /\ E[e].off = 0
  /\ \A k \in DOMAIN E[e].sample : E[e].sample[k] \in Bounds(e)
  /\ E[e].link => ToldOf(E, N, e) /\ Patient(E[e], e, t)
  /\ E[e].up /\ ~E[e].link /\ ~E[e].lost => Early(e) < t \/ Unheard(E, N, e)

Honest(E, N, t) == Carried(N, t) /\ \A e \in LkEnd : Knows(E, N, t, e)

LkIInv == LkTypeOK /\ (lkStory # "clock" => Honest(lkEnd, lkNet, lkNow))

-----------------------------------------------------------------------------
(* What the steps at an end do *)

(* An end and its peer are all there are. *)
LEMMA Peers ==
  ASSUME NEW e \in LkEnd
  PROVE  /\ LkPeer(e) \in LkEnd /\ LkPeer(e) # e /\ LkPeer(LkPeer(e)) = e
         /\ \A q \in LkEnd : q = e \/ q = LkPeer(e)
         /\ LkSkew[e] \in Int /\ LkSkew[LkPeer(e)] \in Int
BY LkAssumption DEF LkEnd, LkPeer, LkAssumption

(* The fields of an end and of a ping. *)
LEMMA EndHas ==
  ASSUME NEW r \in Ends
  PROVE  /\ r.up \in BOOLEAN /\ r.link \in BOOLEAN /\ r.maps \in BOOLEAN /\ r.lost \in BOOLEAN
         /\ r.sent \in Nat /\ r.sentAt \in Int /\ r.rcvd \in Int /\ r.rcvdAt \in Int
         /\ r.off \in Int /\ r.sample \in Seq(Int)
BY DEF Ends
LEMMA PingHas ==
  ASSUME NEW m \in Pings
  PROVE  /\ m.to \in LkEnd /\ m.id \in Nat /\ m.id > 0 /\ m.rcvd \in Int /\ m.rcvd # 0
         /\ m.elapsed \in Nat /\ m.at \in Int /\ m.due \in Int
BY DEF Pings

(* What a ping says and changes. *)
LEMMA PingIs ==
  ASSUME NEW e \in LkEnd, NEW r \in Ends, r.rcvd # 0, lkNow \in Nat, NEW d \in 0 .. LkDelay
  PROVE  LET s == LkPing(e, r).end
         IN  /\ d \in DOMAIN LkPing(e, r).msgs
             /\ s \in Ends
             /\ s.up = r.up /\ s.link = r.link /\ s.maps = r.maps /\ s.rcvd = r.rcvd
             /\ s.rcvdAt = r.rcvdAt /\ s.off = r.off /\ s.sample = r.sample /\ s.lost = r.lost
             /\ s.sent = r.sent + 1 /\ s.sentAt = LkClock(e, r)
             /\ \E m \in Pings :
                  /\ LkPing(e, r).msgs[d] = {m}
                  /\ m.to = LkPeer(e) /\ m.id = r.sent + 1 /\ m.rcvd = r.rcvd
                  /\ m.elapsed = LkMax(0, LkClock(e, r) - r.rcvdAt)
                  /\ m.at = LkClock(e, r) /\ m.due = lkNow + d
<1> DEFINE s == LkPing(e, r).end
           m == [to |-> LkPeer(e), id |-> r.sent + 1, rcvd |-> r.rcvd,
                 elapsed |-> LkMax(0, LkClock(e, r) - r.rcvdAt), at |-> LkClock(e, r),
                 due |-> lkNow + d]
<1>1. LkClock(e, r) \in Int
  <2>1. LkSkew[e] \in Int /\ r.off \in Int
    BY Peers, EndHas
  <2> QED  BY <2>1 DEF LkClock
<1>2. LkMax(0, LkClock(e, r) - r.rcvdAt) \in Nat
  BY <1>1, EndHas DEF LkMax
<1>3. LkPing(e, r).msgs[d] = {m} /\ d \in DOMAIN LkPing(e, r).msgs
  BY DEF LkPing
<1>4. m \in Pings
  <2>1. r.sent \in Nat /\ r.rcvd \in Int
    BY EndHas
  <2>2. LkPeer(e) \in LkEnd
    BY Peers
  <2>3. lkNow + d \in Int
    BY LkAssumption DEF LkAssumption
  <2> QED  BY <1>1, <1>2, <2>1, <2>2, <2>3 DEF Pings
<1>5. s = [r EXCEPT !.sent = @ + 1, !.sentAt = LkClock(e, r)]
  BY DEF LkPing
<1>6. /\ s \in Ends
      /\ s.up = r.up /\ s.link = r.link /\ s.maps = r.maps /\ s.rcvd = r.rcvd
      /\ s.rcvdAt = r.rcvdAt /\ s.off = r.off /\ s.sample = r.sample /\ s.lost = r.lost
      /\ s.sent = r.sent + 1 /\ s.sentAt = LkClock(e, r)
  <2>1. r.sent + 1 \in Nat
    BY EndHas
  <2>2. s = [r EXCEPT !.sent = r.sent + 1, !.sentAt = LkClock(e, r)]
    BY <1>5
  <2> HIDE DEF s, m
  <2>3. PICK n \in Nat, a \in Int : n = r.sent + 1 /\ a = LkClock(e, r)
    BY <1>1, <2>1
  <2>4. s = [r EXCEPT !.sent = n, !.sentAt = a]
    BY <2>2, <2>3
  <2>5. /\ s \in Ends
        /\ s.up = r.up /\ s.link = r.link /\ s.maps = r.maps /\ s.rcvd = r.rcvd
        /\ s.rcvdAt = r.rcvdAt /\ s.off = r.off /\ s.sample = r.sample /\ s.lost = r.lost
        /\ s.sent = n /\ s.sentAt = a
    BY <2>4 DEF Ends
  <2> QED  BY <2>3, <2>5
<1> QED  BY <1>3, <1>4, <1>6

(* Only what the times of pings say matters for the ends' knowledge. *)
LEMMA FewerPings ==
  ASSUME NEW E \in [LkEnd -> Ends], NEW N \in SUBSET Pings, NEW t \in Nat, NEW M \in SUBSET N,
         Honest(E, N, t)
  PROVE  Honest(E, M, t)
BY DEF Honest, Carried, Knows, ToldOf, Unheard

(* A ping that an end sends tells the truth. *)
LEMMA PingKeeps ==
  ASSUME NEW E \in [LkEnd -> Ends], NEW N \in SUBSET Pings, NEW e \in LkEnd,
         E[e].link, E[e].rcvd # 0, lkNow \in Nat, Honest(E, N, lkNow), NEW d \in 0 .. LkDelay
  PROVE  Honest([E EXCEPT ![e] = LkPing(e, E[e]).end], N \cup LkPing(e, E[e]).msgs[d], lkNow)
<1> DEFINE p == LkPeer(e)
           r == E[e]
           s == LkPing(e, E[e]).end
           F == [E EXCEPT ![e] = s]
<1>1. PICK m \in Pings :
        /\ LkPing(e, E[e]).msgs[d] = {m}
        /\ m.to = p /\ m.id = r.sent + 1 /\ m.rcvd = r.rcvd
        /\ m.elapsed = LkMax(0, LkClock(e, r) - r.rcvdAt)
        /\ m.at = LkClock(e, r) /\ m.due = lkNow + d
  BY PingIs
<1>2. /\ s \in Ends
      /\ s.up = r.up /\ s.link = r.link /\ s.maps = r.maps /\ s.rcvd = r.rcvd
      /\ s.rcvdAt = r.rcvdAt /\ s.off = r.off /\ s.sample = r.sample /\ s.lost = r.lost
      /\ s.sent = r.sent + 1 /\ s.sentAt = LkClock(e, r)
  <2> HIDE DEF r
  <2>1. r \in Ends /\ r.rcvd # 0 /\ s = LkPing(e, r).end
    BY DEF r
  <2> HIDE DEF s
  <2> QED  BY <2>1, PingIs
<1>3. /\ F \in [LkEnd -> Ends] /\ F[e] = s /\ F[p] = E[p]
      /\ p \in LkEnd /\ p # e /\ LkPeer(p) = e /\ \A q \in LkEnd : q = e \/ q = p
      /\ LkPeer(e) = p
  BY <1>2, Peers
<1>4. /\ Carried(N, lkNow) /\ Knows(E, N, lkNow, e) /\ Knows(E, N, lkNow, p)
      /\ r \in Ends /\ E[p] \in Ends
  BY <1>3 DEF Honest
<1>5a. /\ r.sent \in Nat /\ r.rcvd \in Int /\ r.rcvdAt \in Int
      /\ E[p].sent \in Nat /\ E[p].sentAt \in Int /\ E[p].rcvd \in Int
      /\ \A x \in N \cup {m} : x.id \in Nat /\ x.rcvd \in Int
      /\ m.elapsed \in Nat
  BY <1>4, EndHas, PingHas
<1>5. /\ LkSkew[e] \in Int /\ LkSkew[p] \in Int /\ LkDelay \in Nat /\ LkTimeout \in Nat
  BY Peers, LkAssumption DEF LkAssumption
<1>6. ToldOf(E, N, e) /\ Patient(r, e, lkNow) /\ r.off = 0
  BY <1>4 DEF Knows
<1>7. m.at = lkNow + LkSkew[e] /\ SentOn(m) = lkNow
  BY <1>1, <1>3, <1>5, <1>6 DEF LkClock, SentOn
<1> HIDE DEF p, r, s, F
<1>8. Carried(N \cup {m}, lkNow)
  BY <1>1, <1>4, <1>5, <1>7 DEF Carried
<1>9. ToldOf(F, N \cup {m}, e)
  <2>1. Sent(F, e) = lkNow
    BY <1>2, <1>3, <1>5, <1>6, <1>1, <1>7 DEF Sent
  <2>2. ASSUME NEW x \in N \cup {m}, x.to = p
        PROVE  x.id <= F[e].sent /\ (x.id = F[e].sent => SentOn(x) = Sent(F, e))
    BY <2>2, <2>1, <1>1, <1>2, <1>3, <1>5a, <1>6, <1>7 DEF ToldOf, r
  <2>3. F[p].rcvd < F[e].sent
    BY <1>2, <1>3, <1>5a, <1>6 DEF ToldOf, r
  <2>4. ASSUME NEW x \in N \cup {m}, x.to = e
        PROVE  x.rcvd < F[e].sent
    BY <2>4, <1>1, <1>2, <1>3, <1>5a, <1>6 DEF ToldOf, r
  <2>5. /\ F[p].rcvd \in Int /\ F[e].sent \in Int
        /\ \A x \in N \cup {m} : x.rcvd \in Int
    BY <1>2, <1>3, <1>5a DEF r
  <2> QED  BY <2>2, <2>3, <2>4, <2>5, <1>3 DEF ToldOf
<1>10. ASSUME E[p].link PROVE ToldOf(F, N \cup {m}, p)
  <2>1. ToldOf(E, N, p)
    BY <1>10, <1>4 DEF Knows
  <2>2. F[p] = E[p] /\ F[e].rcvd = E[e].rcvd /\ Arrived(F, e) = Arrived(E, e) /\ Sent(F, p) = Sent(E, p)
    BY <1>2, <1>3 DEF r, Arrived, Sent
  <2>3. m.rcvd <= E[p].sent
    BY <2>1, <1>1, <1>3 DEF ToldOf, r
  <2>4. ASSUME m.rcvd = E[p].sent
        PROVE  SentOn(m) - m.elapsed - Sent(E, p) \in 0 .. LkDelay
    <3>1. Arrived(E, e) - Sent(E, p) \in 0 .. LkDelay /\ r.rcvd > 0
      BY <2>4, <2>1, <1>1, <1>3, <1>5a DEF ToldOf, r
    <3>2. Arrived(E, e) <= lkNow /\ Arrived(E, e) = r.rcvdAt - LkSkew[e]
      BY <3>1, <1>6 DEF Patient, Arrived, r
    <3>3. LkClock(e, r) - r.rcvdAt = lkNow - Arrived(E, e) /\ Arrived(E, e) \in Int /\ r.rcvdAt \in Int
      BY <3>2, <1>1, <1>5a, <1>5, <1>7
    <3>4. m.elapsed = lkNow - Arrived(E, e)
      BY <3>2, <3>3, <1>1 DEF LkMax
    <3>5. Sent(E, p) \in Int
      BY <1>5a, <1>5 DEF Sent
    <3> QED  BY <3>1, <3>3, <3>4, <3>5, <1>7
  <2>5. \A x \in N \cup {m} : x.to = e => x \in N
    BY <1>1, <1>3
  <2> QED  BY <2>1, <2>2, <2>3, <2>4, <2>5, <1>3 DEF ToldOf
<1>11. Knows(F, N \cup {m}, lkNow, e)
  BY <1>2, <1>3, <1>4, <1>6, <1>9 DEF Knows, Patient, r
<1>12. Knows(F, N \cup {m}, lkNow, p)
  <2>1. ASSUME Unheard(E, N, p) PROVE Unheard(F, N \cup {m}, p)
    BY <2>1, <1>1, <1>2, <1>3 DEF Unheard, r
  <2> QED  BY <2>1, <1>3, <1>4, <1>10 DEF Knows
<1> QED  BY <1>1, <1>3, <1>8, <1>11, <1>12 DEF Honest, s, F, p

(* An end that has heard nothing, or nothing any more, and says nothing    *)
(* contradicts nobody.                                                     *)
LEMMA SilenceKeeps ==
  ASSUME NEW E \in [LkEnd -> Ends], NEW N \in SUBSET Pings, NEW t \in Nat, NEW e \in LkEnd,
         NEW s \in Ends, Honest(E, N, t),
         s.rcvd = -1, s.off = 0, \A k \in DOMAIN s.sample : s.sample[k] \in Bounds(e),
         s.link => ToldOf([E EXCEPT ![e] = s], N, e) /\ Patient(s, e, t),
         s.up /\ ~s.link /\ ~s.lost => Early(e) < t
  PROVE  Honest([E EXCEPT ![e] = s], N, t)
<1> DEFINE p == LkPeer(e)
           F == [E EXCEPT ![e] = s]
<1>1. /\ F \in [LkEnd -> Ends] /\ F[e] = s /\ F[p] = E[p]
      /\ p \in LkEnd /\ p # e /\ LkPeer(p) = e /\ \A q \in LkEnd : q = e \/ q = p
  BY Peers
<1>2. Knows(E, N, t, p) /\ Carried(N, t)
  BY <1>1 DEF Honest
<1>3. E[p].sent \in Nat
  BY <1>1, EndHas
<1> HIDE DEF p, F
<1>4. Knows(F, N, t, e)
  BY <1>1 DEF Knows, F
<1>5. ASSUME ToldOf(E, N, p) PROVE ToldOf(F, N, p)
  BY <1>1, <1>3, <1>5 DEF ToldOf, Arrived, Sent
<1>6. ASSUME Unheard(E, N, p) PROVE Unheard(F, N, p)
  BY <1>1, <1>6 DEF Unheard
<1>7. Knows(F, N, t, p)
  BY <1>1, <1>2, <1>5, <1>6 DEF Knows
<1> QED  BY <1>1, <1>2, <1>4, <1>7 DEF Honest, F

(* The state of an end without a link, and of one in doubt.                *)
Forgotten(o, l) ==
  [up |-> TRUE, link |-> FALSE, maps |-> FALSE, sent |-> 0, sentAt |-> 0, rcvd |-> -1,
   rcvdAt |-> 0, off |-> o, sample |-> <<>>, lost |-> l]
LEMMA ForgottenIs ==
  ASSUME NEW o \in Int, NEW l \in BOOLEAN
  PROVE  LET s == Forgotten(o, l)
         IN  s \in Ends /\ Blank(s) /\ ~s.link /\ s.rcvd = -1 /\ s.off = o /\ DOMAIN s.sample = {}
<1> DEFINE s == Forgotten(o, l)
<1>1. <<>> \in Seq(Int) /\ DOMAIN <<>> = {}
  OBVIOUS
<1>2. PICK z \in Nat, b \in Int : z = 0 /\ b = -1
  OBVIOUS
<1>3. s = [up |-> TRUE, link |-> FALSE, maps |-> FALSE, sent |-> z, sentAt |-> z, rcvd |-> b,
           rcvdAt |-> z, off |-> o, sample |-> <<>>, lost |-> l]
  BY <1>2 DEF Forgotten
<1> HIDE DEF s
<1>4. s \in Ends
  BY <1>1, <1>3 DEF Ends
<1>5. Blank(s) /\ ~s.link /\ s.rcvd = -1 /\ s.off = o /\ DOMAIN s.sample = {}
  BY <1>1, <1>2, <1>3 DEF Blank
<1> QED  BY <1>4, <1>5 DEF s
LEMMA GoneIs ==
  ASSUME NEW r \in Ends
  PROVE  LET s == LkGone(r)
         IN  s \in Ends /\ Blank(s) /\ ~s.link /\ s.rcvd = -1 /\ s.off = r.off /\ DOMAIN s.sample = {}
<1>1. r.off \in Int /\ r.maps \in BOOLEAN
  BY EndHas
<1>2. LkGone(r) = Forgotten(r.off, r.maps)
  <2> DEFINE s == LkGone(r)
  <2>1. s = [NoLink EXCEPT !.off = r.off, !.lost = r.maps]
    BY DEF LkGone
  <2> HIDE DEF s
  <2>2. s = Forgotten(r.off, r.maps)
    BY <2>1 DEF NoLink, Forgotten
  <2> QED  BY <2>2 DEF s
<1> QED  BY <1>1, <1>2, ForgottenIs
LEMMA NobodyIs ==
  /\ NoLink \in Ends /\ Blank(NoLink) /\ ~NoLink.link /\ NoLink.rcvd = -1 /\ NoLink.off = 0
  /\ DOMAIN NoLink.sample = {}
<1>1. NoLink = Forgotten(0, FALSE)
  BY DEF NoLink, Forgotten
<1>2. ASSUME NEW l \in BOOLEAN, NEW o \in Int, o = 0
      PROVE  LET s == Forgotten(o, l)
             IN  /\ s \in Ends /\ Blank(s) /\ ~s.link /\ s.rcvd = -1 /\ s.off = 0
                 /\ DOMAIN s.sample = {}
  BY <1>2, ForgottenIs
<1>3. \A l \in BOOLEAN :
        LET s == Forgotten(0, l)
        IN  /\ s \in Ends /\ Blank(s) /\ ~s.link /\ s.rcvd = -1 /\ s.off = 0
            /\ DOMAIN s.sample = {}
  BY <1>2
<1> QED  BY <1>1, <1>3
LEMMA DeadIs ==
  ASSUME NEW u \in BOOLEAN
  PROVE  LET s == [NoLink EXCEPT !.up = u]
         IN  s \in Ends /\ Blank(s) /\ ~s.link /\ s.rcvd = -1 /\ s.off = 0 /\ s.up = u
             /\ DOMAIN s.sample = {}
<1> DEFINE s == [NoLink EXCEPT !.up = u]
<1>1. s = [NoLink EXCEPT !.up = u]
  OBVIOUS
<1> HIDE DEF s
<1>2. s \in Ends /\ s.link = NoLink.link /\ s.rcvd = NoLink.rcvd /\ s.off = NoLink.off
      /\ s.up = u /\ s.sample = NoLink.sample /\ s.sent = NoLink.sent
  BY <1>1, NobodyIs DEF Ends
<1>3. s \in Ends /\ Blank(s) /\ ~s.link /\ s.rcvd = -1 /\ s.off = 0 /\ s.up = u
      /\ DOMAIN s.sample = {}
  BY <1>2, NobodyIs DEF Blank
<1> QED  BY <1>3 DEF s
LEMMA DoubtIs ==
  ASSUME NEW r \in Ends, NEW a \in Int
  PROVE  LET s == [LkInDoubt(r) EXCEPT !.rcvdAt = a]
         IN  /\ s \in Ends
             /\ s.up = r.up /\ s.link = r.link /\ s.maps = r.maps /\ s.off = r.off
             /\ s.sample = r.sample /\ s.lost = r.lost /\ s.sent = r.sent /\ s.sentAt = r.sentAt
             /\ s.rcvd = -1 /\ s.rcvdAt = a
<1> DEFINE s == [LkInDoubt(r) EXCEPT !.rcvdAt = a]
<1>0. PICK b \in Int : b = -1
  OBVIOUS
<1>1. s = [r EXCEPT !.rcvd = b, !.rcvdAt = a]
  BY <1>0 DEF LkInDoubt
<1> HIDE DEF s
<1>2. /\ s \in Ends
      /\ s.up = r.up /\ s.link = r.link /\ s.maps = r.maps /\ s.off = r.off
      /\ s.sample = r.sample /\ s.lost = r.lost /\ s.sent = r.sent /\ s.sentAt = r.sentAt
      /\ s.rcvd = -1 /\ s.rcvdAt = a
  BY <1>0, <1>1 DEF Ends
<1> QED  BY <1>2 DEF s

(* A linked end pings the other or says nothing; either keeps what holds.  *)
Steps(e, r) == {LkPing(e, r), LkSilent(r)}
LEMMA StepTyped ==
  ASSUME NEW e \in LkEnd, NEW r \in Ends, r.rcvd # 0, r.link, lkNow \in Nat,
         NEW step \in Steps(e, r), NEW d \in DOMAIN step.msgs
  PROVE  step.end \in Ends /\ step.end.rcvd # 0 /\ step.end.link /\ step.msgs[d] \subseteq Pings
<1>1. CASE step = LkPing(e, r)
  <2>1. d \in 0 .. LkDelay
    BY <1>1 DEF LkPing
  <2> QED  BY <2>1, <1>1, PingIs
<1>2. CASE step = LkSilent(r)
  BY <1>2 DEF LkSilent
<1> QED  BY <1>1, <1>2 DEF Steps
LEMMA StepKeeps ==
  ASSUME NEW E \in [LkEnd -> Ends], NEW N \in SUBSET Pings, NEW e \in LkEnd,
         E[e].link, E[e].rcvd # 0, lkNow \in Nat, Honest(E, N, lkNow),
         NEW step \in Steps(e, E[e]), NEW d \in DOMAIN step.msgs
  PROVE  Honest([E EXCEPT ![e] = step.end], N \cup step.msgs[d], lkNow)
<1>1. CASE step = LkPing(e, E[e])
  <2>1. d \in 0 .. LkDelay
    BY <1>1 DEF LkPing
  <2> QED  BY <2>1, <1>1, PingKeeps
<1>2. CASE step = LkSilent(E[e])
  <2>1. step.end = E[e] /\ step.msgs[d] = {}
    BY <1>2 DEF LkSilent
  <2>2. [E EXCEPT ![e] = step.end] = E /\ N \cup step.msgs[d] = N
    BY <2>1
  <2> QED  BY <2>2
<1> QED  BY <1>1, <1>2 DEF Steps

(* The housekeeping of a link: it is given up, or the end takes a step,    *)
(* perhaps in doubt.                                                       *)
Silent(e, r) == LkClock(e, r) - r.rcvdAt > LkTimeout
Doubt(e, r)  == [LkInDoubt(r) EXCEPT !.rcvdAt = LkClock(e, r)]
Kept(e, r)   == IF Silent(e, r) THEN Doubt(e, r) ELSE r
LEMMA KeepHouseIs ==
  ASSUME NEW e \in LkEnd, NEW r \in Ends
  PROVE  \/ Silent(e, r) /\ r.rcvd <= 0 /\ LkKeepHouse(e, r) = LkSilent(LkGone(r))
         \/ ~(Silent(e, r) /\ r.rcvd <= 0) /\ LkKeepHouse(e, r) \in Steps(e, Kept(e, r))
<1>1. LkKeepHouse(e, r) =
        IF Silent(e, r) /\ r.rcvd <= 0 THEN LkSilent(LkGone(r))
        ELSE IF r.maps THEN LkPing(e, Kept(e, r)) ELSE LkSilent(Kept(e, r))
  BY DEF LkKeepHouse, Silent, Doubt, Kept
<1> QED  BY <1>1 DEF Steps

LEMMA KeptIs ==
  ASSUME NEW e \in LkEnd, NEW r \in Ends, r.rcvd # 0, lkNow \in Nat
  PROVE  Kept(e, r) \in Ends /\ Kept(e, r).rcvd # 0 /\ Kept(e, r).link = r.link
<1>1. LkClock(e, r) \in Int
  <2>1. LkSkew[e] \in Int /\ r.off \in Int
    BY Peers, EndHas
  <2> QED  BY <2>1 DEF LkClock
<1>2. Doubt(e, r) \in Ends /\ Doubt(e, r).rcvd = -1 /\ Doubt(e, r).link = r.link
  BY <1>1, DoubtIs DEF Doubt
<1> QED  BY <1>2 DEF Kept

LEMMA KeepHouseTyped ==
  ASSUME NEW e \in LkEnd, NEW r \in Ends, r.rcvd # 0, r.link, lkNow \in Nat,
         NEW d \in DOMAIN LkKeepHouse(e, r).msgs
  PROVE  LET step == LkKeepHouse(e, r)
         IN  /\ step.end \in Ends /\ step.end.rcvd # 0 /\ (~step.end.link => Blank(step.end))
             /\ step.msgs[d] \subseteq Pings
<1>1. CASE LkKeepHouse(e, r) = LkSilent(LkGone(r))
  <2>1. LkKeepHouse(e, r).end = LkGone(r) /\ LkKeepHouse(e, r).msgs[d] = {}
    BY <1>1 DEF LkSilent
  <2>2. LkGone(r) \in Ends /\ Blank(LkGone(r)) /\ LkGone(r).rcvd = -1
    BY GoneIs
  <2> QED  BY <2>1, <2>2
<1>2. CASE LkKeepHouse(e, r) \in Steps(e, Kept(e, r))
  BY <1>2, KeptIs, StepTyped
<1> QED  BY <1>1, <1>2, KeepHouseIs

(* Housekeeping keeps what the pings tell: an end that finds the other     *)
(* silent twice is too old to be connected again.                          *)
LEMMA KeepHouseKeeps ==
  ASSUME NEW E \in [LkEnd -> Ends], NEW N \in SUBSET Pings, NEW e \in LkEnd,
         E[e].link, E[e].rcvd # 0, lkNow \in Nat, Honest(E, N, lkNow),
         NEW d \in DOMAIN LkKeepHouse(e, E[e]).msgs
  PROVE  LET step == LkKeepHouse(e, E[e])
         IN  Honest([E EXCEPT ![e] = step.end], N \cup step.msgs[d], lkNow)
<1> DEFINE r == E[e]
           step == LkKeepHouse(e, r)
<1>1. /\ r \in Ends /\ r.rcvd \in Int /\ r.rcvdAt \in Int /\ LkSkew[e] \in Int
      /\ LkTimeout \in Nat /\ LkDelay \in Nat /\ LkDelay <= 2 * LkTimeout
  BY EndHas, Peers, LkAssumption DEF LkAssumption
<1>2. Knows(E, N, lkNow, e)
  BY DEF Honest
<1>3. /\ r.off = 0 /\ ToldOf(E, N, e) /\ Patient(r, e, lkNow)
      /\ \A k \in DOMAIN r.sample : r.sample[k] \in Bounds(e)
  BY <1>2 DEF Knows
<1>4. LkClock(e, r) = lkNow + LkSkew[e] /\ LkClock(e, r) \in Int
  BY <1>1, <1>3 DEF LkClock
<1>5. Early(e) <= LkDelay /\ Early(e) \in Int
  BY <1>1 DEF Early, LkEnd
<1>6. CASE Silent(e, r) /\ r.rcvd <= 0 /\ step = LkSilent(LkGone(r))
  <2>1. lkNow > 2 * LkTimeout
    BY <1>1, <1>3, <1>4, <1>6 DEF Silent, Patient
  <2>2. Early(e) < lkNow
    BY <2>1, <1>1, <1>5
  <2>3. step.end = LkGone(r) /\ step.msgs[d] = {}
    BY <1>6 DEF LkSilent
  <2>4. LET s == LkGone(r)
        IN  s \in Ends /\ ~s.link /\ s.rcvd = -1 /\ s.off = 0 /\ DOMAIN s.sample = {}
    BY <1>1, <1>3, GoneIs
  <2>5. Honest([E EXCEPT ![e] = LkGone(r)], N, lkNow)
    BY <2>2, <2>4, SilenceKeeps
  <2> QED  BY <2>3, <2>5
<1>7. CASE step \in Steps(e, Kept(e, r))
  <2> DEFINE F == [E EXCEPT ![e] = Kept(e, r)]
  <2>1. F \in [LkEnd -> Ends] /\ F[e] = Kept(e, r) /\ F[e].link /\ F[e].rcvd # 0
    BY <1>1, KeptIs
  <2>2. Honest(F, N, lkNow)
    <3>1. CASE ~Silent(e, r)
      BY <3>1 DEF Kept
    <3>2. CASE Silent(e, r)
      <4> DEFINE s == Doubt(e, r)
      <4>1. /\ s \in Ends /\ s.link /\ s.off = 0 /\ s.sample = r.sample
            /\ s.sent = r.sent /\ s.sentAt = r.sentAt /\ s.rcvd = -1 /\ s.rcvdAt = LkClock(e, r)
        BY <1>1, <1>3, <1>4, DoubtIs DEF Doubt
      <4> HIDE DEF s
      <4>2. Patient(s, e, lkNow)
        BY <4>1, <3>2, <1>1, <1>3, <1>4 DEF Patient, Silent
      <4>3. ToldOf([E EXCEPT ![e] = s], N, e)
        BY <4>1, <1>3, Peers DEF ToldOf, Sent, Arrived
      <4>4. Honest([E EXCEPT ![e] = s], N, lkNow)
        BY <4>1, <4>2, <4>3, <1>3, SilenceKeeps
      <4> QED  BY <4>4, <3>2 DEF Kept, s
    <3> QED  BY <3>1, <3>2
  <2>3. [F EXCEPT ![e] = step.end] = [E EXCEPT ![e] = step.end]
    OBVIOUS
  <2>4. d \in DOMAIN step.msgs /\ step \in Steps(e, F[e])
    BY <1>7, <2>1
  <2> HIDE DEF F, step
  <2>5. Honest([F EXCEPT ![e] = step.end], N \cup step.msgs[d], lkNow)
    BY <2>1, <2>2, <2>4, StepKeeps
  <2> QED  BY <2>3, <2>5 DEF step
<1> QED  BY <1>1, <1>6, <1>7, KeepHouseIs

(* What an end keeps of a ping: the sample is its crude guess of the       *)
(* offset, or, when the ping answers its last one, the better one.         *)
Crude(now, m) == 2 * (m.at - now)
Heard(now, r, m) == [LkSampled(now, r, m) EXCEPT !.rcvdAt = now, !.rcvd = m.id]
LEMMA SampledIs ==
  ASSUME NEW r \in Ends, NEW m \in Pings, NEW now \in Int
  PROVE  LET s == LkSampled(now, r, m)
         IN  /\ s \in Ends
             /\ s.up = r.up /\ s.link = r.link /\ s.maps = r.maps /\ s.off = r.off
             /\ s.lost = r.lost /\ s.sent = r.sent /\ s.sentAt = r.sentAt
             /\ \A k \in DOMAIN s.sample :
                  \/ k \in DOMAIN r.sample /\ s.sample[k] = r.sample[k]
                  \/ s.sample[k] = Crude(now, m)
                  \/ m.rcvd = r.sent /\ s.sample[k] = LkTwice(now, r, m)
<1> DEFINE s == LkSampled(now, r, m)
<1>1. Crude(now, m) \in Int /\ LkTwice(now, r, m) \in Int
  BY EndHas, PingHas DEF Crude, LkTwice, LkMax
<1>2. ASSUME NEW v \in Int, s = [r EXCEPT !.sample = <<v>>]
      PROVE  /\ s \in Ends
             /\ s.up = r.up /\ s.link = r.link /\ s.maps = r.maps /\ s.off = r.off
             /\ s.lost = r.lost /\ s.sent = r.sent /\ s.sentAt = r.sentAt
             /\ \A k \in DOMAIN s.sample : s.sample[k] = v
  <2>0. <<v>> \in Seq(Int)
    OBVIOUS
  <2>1. PICK q \in Seq(Int) : q = <<v>>
    BY <2>0, Zenon
  <2>2. \A k \in DOMAIN q : q[k] = v
    BY <2>1
  <2>3. s = [r EXCEPT !.sample = q]
    BY <1>2, <2>1
  <2> HIDE DEF s
  <2>4. /\ s \in Ends
        /\ s.up = r.up /\ s.link = r.link /\ s.maps = r.maps /\ s.off = r.off
        /\ s.lost = r.lost /\ s.sent = r.sent /\ s.sentAt = r.sentAt /\ s.sample = q
    BY <2>3 DEF Ends
  <2> QED  BY <2>2, <2>4
<1>3. \/ m.rcvd = r.sent /\ s = [r EXCEPT !.sample = <<LkTwice(now, r, m)>>]
      \/ s = [r EXCEPT !.sample = <<Crude(now, m)>>]
      \/ s = r
  BY DEF LkSampled, Crude
<1> HIDE DEF s
<1>4. CASE m.rcvd = r.sent /\ s = [r EXCEPT !.sample = <<LkTwice(now, r, m)>>]
  BY <1>1, <1>2, <1>4 DEF s
<1>5. CASE s = [r EXCEPT !.sample = <<Crude(now, m)>>]
  BY <1>1, <1>2, <1>5 DEF s
<1>6. CASE s = r
  BY <1>6 DEF s
<1> QED  BY <1>3, <1>4, <1>5, <1>6

LEMMA HeardIs ==
  ASSUME NEW r \in Ends, NEW m \in Pings, NEW now \in Int
  PROVE  LET s == Heard(now, r, m)
         IN  /\ s \in Ends
             /\ s.up = r.up /\ s.link = r.link /\ s.maps = r.maps /\ s.off = r.off
             /\ s.lost = r.lost /\ s.sent = r.sent /\ s.sentAt = r.sentAt
             /\ s.rcvd = m.id /\ s.rcvd > 0 /\ s.rcvdAt = now
             /\ \A k \in DOMAIN s.sample :
                  \/ k \in DOMAIN r.sample /\ s.sample[k] = r.sample[k]
                  \/ s.sample[k] = Crude(now, m)
                  \/ m.rcvd = r.sent /\ s.sample[k] = LkTwice(now, r, m)
<1> DEFINE x == LkSampled(now, r, m)
           s == Heard(now, r, m)
<1>1. /\ x \in Ends
      /\ x.up = r.up /\ x.link = r.link /\ x.maps = r.maps /\ x.off = r.off
      /\ x.lost = r.lost /\ x.sent = r.sent /\ x.sentAt = r.sentAt
      /\ \A k \in DOMAIN x.sample :
           \/ k \in DOMAIN r.sample /\ x.sample[k] = r.sample[k]
           \/ x.sample[k] = Crude(now, m)
           \/ m.rcvd = r.sent /\ x.sample[k] = LkTwice(now, r, m)
  BY SampledIs
<1> HIDE DEF x
<1>2. PICK n \in Int : n = m.id /\ n > 0
  BY PingHas
<1>3. s = [x EXCEPT !.rcvdAt = now, !.rcvd = n]
  BY <1>2 DEF Heard, x
<1> HIDE DEF s
<1>4. /\ s \in Ends
      /\ s.up = x.up /\ s.link = x.link /\ s.maps = x.maps /\ s.off = x.off
      /\ s.lost = x.lost /\ s.sent = x.sent /\ s.sentAt = x.sentAt /\ s.sample = x.sample
      /\ s.rcvd = n /\ s.rcvdAt = now
  BY <1>1, <1>3 DEF Ends
<1> QED  BY <1>1, <1>2, <1>4 DEF s

(* What an end learns from a ping is true: the crude guess is too small by *)
(* what the ping took, twice, the better one by what the exchange took.    *)
LEMMA HearingKeeps ==
  ASSUME NEW E \in [LkEnd -> Ends], NEW N \in SUBSET Pings, NEW m \in N,
         E[m.to].link, lkNow \in Nat, Honest(E, N, lkNow)
  PROVE  Honest([E EXCEPT ![m.to] = Heard(LkClock(m.to, E[m.to]), E[m.to], m)], N \ {m}, lkNow)
<1> DEFINE e == m.to
           p == LkPeer(e)
           r == E[e]
           now == LkClock(e, r)
           s == Heard(now, r, m)
           F == [E EXCEPT ![e] = s]
           M == N \ {m}
<1>1. m \in Pings /\ e \in LkEnd /\ r \in Ends
  BY PingHas
<1>2. /\ p \in LkEnd /\ p # e /\ LkPeer(p) = e /\ LkPeer(e) = p
      /\ \A q \in LkEnd : q = e \/ q = p
      /\ LkSkew[e] \in Int /\ LkSkew[p] \in Int /\ LkDelay \in Nat /\ LkTimeout \in Nat
  BY <1>1, Peers, LkAssumption DEF LkAssumption
<1>3. Carried(N, lkNow) /\ Knows(E, N, lkNow, e) /\ Knows(E, N, lkNow, p)
  BY <1>1, <1>2 DEF Honest
<1>4. /\ r.off = 0 /\ ToldOf(E, N, e) /\ Patient(r, e, lkNow)
      /\ \A k \in DOMAIN r.sample : r.sample[k] \in Bounds(e)
  BY <1>3 DEF Knows
<1>5. now = lkNow + LkSkew[e] /\ now \in Int
  BY <1>2, <1>4 DEF LkClock
<1>6. /\ SentOn(m) = m.at - LkSkew[p] /\ SentOn(m) \in Int /\ m.at \in Int
      /\ SentOn(m) <= lkNow /\ lkNow <= SentOn(m) + LkDelay
  BY <1>1, <1>2, <1>3, PingHas DEF SentOn, Carried
<1>7. /\ m.elapsed \in Nat /\ m.id \in Nat /\ r.sentAt \in Int
      /\ E[p].sent \in Nat /\ E[p].sentAt \in Int
  BY <1>1, <1>2, EndHas, PingHas
<1>8. /\ s \in Ends
      /\ s.up = r.up /\ s.link = r.link /\ s.maps = r.maps /\ s.off = r.off
      /\ s.lost = r.lost /\ s.sent = r.sent /\ s.sentAt = r.sentAt
      /\ s.rcvd = m.id /\ s.rcvd > 0 /\ s.rcvdAt = now
      /\ \A k \in DOMAIN s.sample :
           \/ k \in DOMAIN r.sample /\ s.sample[k] = r.sample[k]
           \/ s.sample[k] = Crude(now, m)
           \/ m.rcvd = r.sent /\ s.sample[k] = LkTwice(now, r, m)
  <2> HIDE DEF e, r, now, F, M
  <2>1. m \in Pings /\ r \in Ends /\ now \in Int
    BY <1>1, <1>5
  <2> QED  BY <2>1, HeardIs
<1>9. F \in [LkEnd -> Ends] /\ F[e] = s /\ F[p] = E[p]
  BY <1>1, <1>2, <1>8
<1> HIDE DEF e, p, r, now, s, F, M
<1>10. Crude(now, m) \in Bounds(e)
  BY <1>2, <1>5, <1>6 DEF Crude, Bounds, p
<1>11. ASSUME m.rcvd = r.sent PROVE LkTwice(now, r, m) \in Bounds(e)
  <2>1. SentOn(m) - m.elapsed - (r.sentAt - LkSkew[e]) \in 0 .. LkDelay
    BY <1>4, <1>11 DEF ToldOf, Sent, r, e
  <2>2. LkMax(0, now - r.sentAt - m.elapsed) \in 0 .. 2 * LkDelay
    BY <2>1, <1>2, <1>5, <1>6, <1>7 DEF LkMax
  <2> QED  BY <2>2, <1>2, <1>5, <1>6 DEF LkTwice, Bounds, p
<1>12. \A k \in DOMAIN s.sample : s.sample[k] \in Bounds(e)
  BY <1>4, <1>8, <1>10, <1>11
<1>13. ToldOf(F, M, e)
  BY <1>2, <1>4, <1>8, <1>9 DEF ToldOf, Sent, Arrived, M, r
<1>14. Patient(s, e, lkNow)
  BY <1>2, <1>5, <1>7, <1>8 DEF Patient
<1>15. Knows(F, M, lkNow, e)
  BY <1>4, <1>8, <1>9, <1>12, <1>13, <1>14 DEF Knows, r, e
<1>16. ASSUME E[p].link PROVE ToldOf(F, M, p)
  <2>1. ToldOf(E, N, p)
    BY <1>16, <1>3 DEF Knows
  <2>2. m.id <= E[p].sent /\ (m.id = E[p].sent => SentOn(m) = Sent(E, p))
    BY <2>1, <1>2 DEF ToldOf, e
  <2>3. F[e].rcvd = m.id /\ Arrived(F, e) = lkNow /\ Sent(F, p) = Sent(E, p) /\ F[p].sent = E[p].sent
    BY <1>2, <1>5, <1>8, <1>9 DEF Arrived, Sent
  <2>4. m.id = E[p].sent => lkNow - Sent(E, p) \in 0 .. LkDelay
    BY <2>2, <1>2, <1>6
  <2> QED  BY <2>1, <2>2, <2>3, <2>4, <1>2 DEF ToldOf, M
<1>17. ~Unheard(E, N, p)
  BY <1>2 DEF Unheard, e
<1>18. Knows(F, M, lkNow, p)
  BY <1>3, <1>9, <1>16, <1>17 DEF Knows
<1>19. Carried(M, lkNow)
  BY <1>3 DEF Carried, M
<1> QED  BY <1>2, <1>15, <1>18, <1>19 DEF Honest, F, M, s, now, r, e

(* An end that gets its first map and the other's address.                 *)
New(e, r) == [r EXCEPT !.link = TRUE, !.maps = TRUE, !.rcvdAt = LkClock(e, r) + LkTimeout]
LEMMA NewIs ==
  ASSUME NEW e \in LkEnd, NEW r \in Ends, lkNow \in Nat
  PROVE  LET s == New(e, r)
         IN  /\ s \in Ends
             /\ s.up = r.up /\ s.link /\ s.off = r.off /\ s.sample = r.sample
             /\ s.lost = r.lost /\ s.sent = r.sent /\ s.sentAt = r.sentAt
             /\ s.rcvd = r.rcvd /\ s.rcvdAt = LkClock(e, r) + LkTimeout
<1> DEFINE s == New(e, r)
<1>1. LkSkew[e] \in Int /\ r.off \in Int /\ LkTimeout \in Int
  BY EndHas, Peers, LkAssumption DEF LkAssumption
<1>2. LkClock(e, r) + LkTimeout \in Int
  BY <1>1 DEF LkClock
<1>3. PICK a \in Int : a = LkClock(e, r) + LkTimeout
  BY <1>2
<1>4. PICK b \in BOOLEAN : b = TRUE
  OBVIOUS
<1>5. s = [r EXCEPT !.link = b, !.maps = b, !.rcvdAt = a]
  BY <1>3, <1>4 DEF New
<1> HIDE DEF s
<1>6. /\ s \in Ends
      /\ s.up = r.up /\ s.link = b /\ s.off = r.off /\ s.sample = r.sample
      /\ s.lost = r.lost /\ s.sent = r.sent /\ s.sentAt = r.sentAt
      /\ s.rcvd = r.rcvd /\ s.rcvdAt = a
  BY <1>5 DEF Ends
<1> QED  BY <1>3, <1>4, <1>6 DEF s

(* Nobody has heard of it, so there is nothing it could be told wrong.     *)
LEMMA NewKeeps ==
  ASSUME NEW E \in [LkEnd -> Ends], NEW N \in SUBSET Pings, NEW e \in LkEnd, lkNow \in Nat,
         Honest(E, N, lkNow), Blank(E[e]), E[e].up, ~E[e].link, ~E[e].lost, lkNow <= Early(e)
  PROVE  Honest([E EXCEPT ![e] = New(e, E[e])], N, lkNow)
<1> DEFINE r == E[e]
           s == New(e, E[e])
           F == [E EXCEPT ![e] = s]
           p == LkPeer(e)
<1>1. /\ r \in Ends /\ LkSkew[e] \in Int /\ LkTimeout \in Nat /\ Early(e) \in Int
      /\ p \in LkEnd /\ p # e
  BY Peers, LkAssumption DEF LkAssumption, Early, LkEnd
<1>2. Knows(E, N, lkNow, e)
  BY DEF Honest
<1>3. r.off = 0 /\ Unheard(E, N, e) /\ \A k \in DOMAIN r.sample : r.sample[k] \in Bounds(e)
  BY <1>1, <1>2 DEF Knows
<1>4. /\ s \in Ends
      /\ s.up = r.up /\ s.link /\ s.off = r.off /\ s.sample = r.sample
      /\ s.lost = r.lost /\ s.sent = r.sent /\ s.sentAt = r.sentAt
      /\ s.rcvd = r.rcvd /\ s.rcvdAt = LkClock(e, r) + LkTimeout
  <2> HIDE DEF r
  <2> QED  BY <1>1, NewIs DEF r
<1>5. F[e] = s /\ F[p] = E[p]
  BY <1>1
<1>6. s.sent = 0 /\ s.rcvd = -1
  BY <1>4 DEF Blank
<1> HIDE DEF s, F, r
<1>7. Patient(s, e, lkNow)
  BY <1>1, <1>3, <1>4, <1>6 DEF Patient, LkClock
<1>8. ToldOf(F, N, e)
  BY <1>1, <1>3, <1>5, <1>6 DEF ToldOf, Unheard
<1>9. \A k \in DOMAIN s.sample : s.sample[k] \in Bounds(e)
  BY <1>3, <1>4
<1> QED  BY <1>3, <1>4, <1>6, <1>7, <1>8, <1>9, SilenceKeeps DEF F, s

(* Whether ends have maps is nothing pings tell.                           *)
LEMMA MapsAre ==
  ASSUME NEW r \in Ends, NEW b \in BOOLEAN
  PROVE  LET s == [r EXCEPT !.maps = b]
         IN  /\ s \in Ends
             /\ s.up = r.up /\ s.link = r.link /\ s.off = r.off /\ s.sample = r.sample
             /\ s.lost = r.lost /\ s.sent = r.sent /\ s.sentAt = r.sentAt
             /\ s.rcvd = r.rcvd /\ s.rcvdAt = r.rcvdAt
BY DEF Ends
Alike(s, r) ==
  /\ s.up = r.up /\ s.link = r.link /\ s.off = r.off /\ s.sample = r.sample
  /\ s.lost = r.lost /\ s.sent = r.sent /\ s.sentAt = r.sentAt
  /\ s.rcvd = r.rcvd /\ s.rcvdAt = r.rcvdAt
LEMMA MapsKeep ==
  ASSUME NEW E \in [LkEnd -> Ends], NEW N \in SUBSET Pings, NEW t \in Nat, NEW F \in [LkEnd -> Ends],
         \A e \in LkEnd : Alike(F[e], E[e]), Honest(E, N, t)
  PROVE  Honest(F, N, t)
<1>1. ASSUME NEW e \in LkEnd, Knows(E, N, t, e) PROVE Knows(F, N, t, e)
  <2>1. LkPeer(e) \in LkEnd
    BY Peers
  <2>2. ToldOf(E, N, e) => ToldOf(F, N, e)
    BY <2>1 DEF ToldOf, Arrived, Sent, Alike
  <2>3. Unheard(E, N, e) => Unheard(F, N, e)
    BY <2>1 DEF Unheard, Alike
  <2>4. Patient(E[e], e, t) => Patient(F[e], e, t)
    BY DEF Patient, Alike
  <2> QED  BY <1>1, <2>2, <2>3, <2>4 DEF Knows, Alike
<1> QED  BY <1>1 DEF Honest

(* The clock of a device is set: its times go with it.                     *)
LEMMA ShiftedIs ==
  ASSUME NEW r \in Ends, NEW d \in Int
  PROVE  LET s == [(IF r.link THEN LkShifted(r, d) ELSE r) EXCEPT !.off = d]
         IN  /\ s \in Ends /\ s.up = r.up /\ s.rcvd = r.rcvd /\ s.link = r.link /\ s.off = d
             /\ (~r.link /\ Blank(r) => Blank(s)) /\ (r.link => s.rcvdAt = r.rcvdAt + d)
<1> DEFINE s == [(IF r.link THEN LkShifted(r, d) ELSE r) EXCEPT !.off = d]
<1>1. CASE r.link
  <2>1. PICK a \in Int, b \in Int : a = r.sentAt + d /\ b = r.rcvdAt + d
    BY EndHas
  <2>2. s = [[r EXCEPT !.sentAt = a, !.rcvdAt = b] EXCEPT !.off = d]
    BY <1>1, <2>1 DEF LkShifted
  <2> HIDE DEF s
  <2>3. s = [r EXCEPT !.sentAt = a, !.rcvdAt = b, !.off = d]
    BY <2>2
  <2>4. /\ s \in Ends /\ s.up = r.up /\ s.rcvd = r.rcvd /\ s.link = r.link
        /\ s.off = d /\ s.rcvdAt = b
    BY <2>3 DEF Ends
  <2> QED  BY <2>1, <2>4, <1>1 DEF s
<1>2. CASE ~r.link
  <2>1. s = [r EXCEPT !.off = d]
    BY <1>2
  <2> HIDE DEF s
  <2>2. /\ s \in Ends /\ s.up = r.up /\ s.rcvd = r.rcvd /\ s.link = r.link /\ s.off = d
        /\ s.sent = r.sent /\ s.sample = r.sample
    BY <2>1 DEF Ends
  <2> QED  BY <1>2, <2>2 DEF s, Blank
<1> QED  BY <1>1, <1>2

-----------------------------------------------------------------------------
(* Every step keeps the invariant. *)

Holds(E, N, t) == Honest(lkEnd, lkNet, lkNow) => Honest(E, N, t)

LEMMA ConnectStep ==
  ASSUME LkTypeOK, NEW e \in LkEnd, LkConnect(e)
  PROVE  LkTypeOK' /\ Holds(lkEnd', lkNet', lkNow')
<1> DEFINE r == lkEnd[e]
           F == [lkEnd EXCEPT ![e] = New(e, r)]
           step == LkKeepHouse(e, New(e, r))
<1>1. r \in Ends /\ Sound(r) /\ lkNow \in Nat /\ lkNet \subseteq Pings /\ lkEnd \in [LkEnd -> Ends]
  BY DEF LkTypeOK
<1>2. /\ r.up /\ ~r.link /\ ~r.lost /\ lkNow <= Early(e) /\ lkNow' = lkNow
      /\ LkDone(e, step, lkNet)
  BY DEF LkConnect, New, Early
<1>3. PICK d \in DOMAIN step.msgs : lkNet' = lkNet \cup step.msgs[d]
  BY <1>2 DEF LkDone
<1>4. lkEnd' = [lkEnd EXCEPT ![e] = step.end]
  BY <1>2 DEF LkDone
<1>5. New(e, r) \in Ends /\ New(e, r).link /\ New(e, r).rcvd # 0
  BY <1>1, NewIs DEF Sound
<1>6. F \in [LkEnd -> Ends] /\ F[e] = New(e, r)
  BY <1>1, <1>5
<1> HIDE DEF r, F, step
<1>7. Sound(step.end) /\ step.msgs[d] \subseteq Pings
  BY <1>1, <1>5, KeepHouseTyped DEF Sound, step
<1>8. LkTypeOK'
  BY <1>1, <1>2, <1>3, <1>4, <1>7 DEF LkTypeOK, Sound
<1>9. ASSUME Honest(lkEnd, lkNet, lkNow) PROVE Honest(lkEnd', lkNet', lkNow')
  <2>1. Honest(F, lkNet, lkNow)
    BY <1>1, <1>2, <1>9, NewKeeps DEF Sound, F, r
  <2>2. Honest([F EXCEPT ![e] = step.end], lkNet \cup step.msgs[d], lkNow)
    BY <2>1, <1>1, <1>5, <1>6, KeepHouseKeeps DEF step
  <2>3. [F EXCEPT ![e] = step.end] = lkEnd'
    BY <1>1, <1>4 DEF F
  <2> QED  BY <2>2, <2>3, <1>2, <1>3
<1> QED  BY <1>8, <1>9 DEF Holds

LEMMA HousekeepingStep ==
  ASSUME LkTypeOK, NEW e \in LkEnd, LkHousekeeping(e)
  PROVE  LkTypeOK' /\ Holds(lkEnd', lkNet', lkNow')
<1> DEFINE r == lkEnd[e]
           step == IF r.link THEN LkKeepHouse(e, r) ELSE LkSilent(r)
<1>1. r \in Ends /\ Sound(r) /\ lkNow \in Nat /\ lkNet \subseteq Pings /\ lkEnd \in [LkEnd -> Ends]
  BY DEF LkTypeOK
<1>2. lkNow' = lkNow /\ LkDone(e, step, lkNet)
  BY DEF LkHousekeeping
<1>3. PICK d \in DOMAIN step.msgs : lkNet' = lkNet \cup step.msgs[d]
  BY <1>2 DEF LkDone
<1>4. lkEnd' = [lkEnd EXCEPT ![e] = step.end]
  BY <1>2 DEF LkDone
<1>5. CASE r.link
  <2>1. step = LkKeepHouse(e, r)
    BY <1>5
  <2> HIDE DEF r, step
  <2>2. Sound(step.end) /\ step.msgs[d] \subseteq Pings
    BY <1>1, <1>3, <1>5, <2>1, KeepHouseTyped DEF Sound
  <2>3. LkTypeOK'
    BY <1>1, <1>2, <1>3, <1>4, <2>2 DEF LkTypeOK, Sound
  <2>4. Honest(lkEnd, lkNet, lkNow) => Honest(lkEnd', lkNet', lkNow')
    BY <1>1, <1>2, <1>3, <1>4, <1>5, <2>1, KeepHouseKeeps DEF Sound, r
  <2> QED  BY <2>3, <2>4 DEF Holds
<1>6. CASE ~r.link
  <2>1. step.end = r /\ step.msgs[d] = {}
    BY <1>6 DEF LkSilent
  <2>2. lkEnd' = lkEnd /\ lkNet' = lkNet
    BY <2>1, <1>1, <1>3, <1>4
  <2> QED  BY <2>2, <1>2 DEF LkTypeOK, Holds
<1> QED  BY <1>5, <1>6

LEMMA ReceiveStep ==
  ASSUME LkTypeOK, NEW m \in lkNet, LkReceive(m)
  PROVE  LkTypeOK' /\ Holds(lkEnd', lkNet', lkNow')
<1> DEFINE e == m.to
           r == lkEnd[e]
           heard == Heard(LkClock(e, r), r, m)
           F == [lkEnd EXCEPT ![e] = heard]
           M == lkNet \ {m}
<1>1. /\ m \in Pings /\ e \in LkEnd /\ r \in Ends /\ Sound(r) /\ lkNow \in Nat
      /\ lkNet \subseteq Pings /\ lkEnd \in [LkEnd -> Ends] /\ M \subseteq Pings /\ M \subseteq lkNet
  BY PingHas DEF LkTypeOK
<1>2. CASE r.up /\ r.link
  <2>1. lkNow' = lkNow /\ \E step \in Steps(e, heard) : LkDone(e, step, M)
    BY <1>2 DEF LkReceive, Heard, Steps
  <2>2. PICK step \in Steps(e, heard) : LkDone(e, step, M)
    BY <2>1
  <2>3. PICK d \in DOMAIN step.msgs : lkNet' = M \cup step.msgs[d]
    BY <2>2 DEF LkDone
  <2>4. lkEnd' = [lkEnd EXCEPT ![e] = step.end]
    BY <2>2 DEF LkDone
  <2>5. heard \in Ends /\ heard.link /\ heard.rcvd # 0
    <3>1. LkClock(e, r) \in Int
      <4>1. LkSkew[e] \in Int /\ r.off \in Int
        BY <1>1, Peers, EndHas
      <4> QED  BY <4>1, <1>1 DEF LkClock
    <3> QED  BY <1>1, <1>2, <3>1, HeardIs
  <2>6. F \in [LkEnd -> Ends] /\ F[e] = heard
    BY <1>1, <2>5
  <2> HIDE DEF e, r, heard, F, M
  <2>7. Sound(step.end) /\ step.msgs[d] \subseteq Pings
    BY <1>1, <2>5, StepTyped DEF Sound
  <2>8. LkTypeOK'
    BY <1>1, <2>1, <2>3, <2>4, <2>7 DEF LkTypeOK, Sound
  <2>9. ASSUME Honest(lkEnd, lkNet, lkNow) PROVE Honest(lkEnd', lkNet', lkNow')
    <3>1. Honest(F, M, lkNow)
      BY <1>1, <1>2, <2>9, HearingKeeps DEF F, M, heard, r, e
    <3>2. step \in Steps(e, F[e]) /\ F[e].link /\ F[e].rcvd # 0
      BY <2>5, <2>6
    <3>3. Honest([F EXCEPT ![e] = step.end], M \cup step.msgs[d], lkNow)
      BY <3>1, <3>2, <1>1, <2>6, StepKeeps
    <3>4. [F EXCEPT ![e] = step.end] = lkEnd'
      BY <1>1, <2>4 DEF F
    <3> QED  BY <3>3, <3>4, <2>1, <2>3
  <2> QED  BY <2>8, <2>9 DEF Holds
<1>3. CASE ~(r.up /\ r.link)
  <2>1. lkEnd' = lkEnd /\ lkNow' = lkNow /\ lkNet' = M
    BY <1>3 DEF LkReceive
  <2> HIDE DEF M
  <2>2. LkTypeOK'
    BY <1>1, <2>1 DEF LkTypeOK
  <2>3. Holds(lkEnd', lkNet', lkNow')
    BY <1>1, <2>1, FewerPings DEF Holds
  <2> QED  BY <2>2, <2>3
<1> QED  BY <1>2, <1>3

LEMMA LoseStep ==
  ASSUME LkTypeOK, NEW m \in lkNet, LkLose(m)
  PROVE  LkTypeOK' /\ Holds(lkEnd', lkNet', lkNow')
<1>1. lkEnd' = lkEnd /\ lkNow' = lkNow /\ lkNet' \subseteq lkNet
  BY DEF LkLose
<1>2. LkTypeOK'
  BY <1>1 DEF LkTypeOK
<1> QED  BY <1>1, <1>2, FewerPings DEF Holds, LkTypeOK

LEMMA MapsStep ==
  ASSUME LkTypeOK, NEW b \in BOOLEAN,
         lkEnd' = [e \in LkEnd |-> [lkEnd[e] EXCEPT !.maps = b]], lkNow' = lkNow, lkNet' = lkNet
  PROVE  LkTypeOK' /\ Holds(lkEnd', lkNet', lkNow')
<1>1. ASSUME NEW e \in LkEnd
      PROVE  LET s == lkEnd'[e]
                 r == lkEnd[e]
             IN  /\ s \in Ends
                 /\ s.up = r.up /\ s.link = r.link /\ s.off = r.off /\ s.sample = r.sample
                 /\ s.lost = r.lost /\ s.sent = r.sent /\ s.sentAt = r.sentAt
                 /\ s.rcvd = r.rcvd /\ s.rcvdAt = r.rcvdAt
  <2>1. lkEnd'[e] = [lkEnd[e] EXCEPT !.maps = b] /\ lkEnd[e] \in Ends
    BY DEF LkTypeOK
  <2> QED  BY <2>1 DEF Ends
<1>2. lkEnd' \in [LkEnd -> Ends]
  BY <1>1
<1>3. LkTypeOK'
  BY <1>1, <1>2 DEF LkTypeOK, Sound, Blank
<1>4. Holds(lkEnd', lkNet', lkNow')
  <2>1. /\ lkEnd \in [LkEnd -> Ends] /\ lkNet \in SUBSET Pings /\ lkNow \in Nat
        /\ \A e \in LkEnd : Alike(lkEnd'[e], lkEnd[e])
    BY <1>1 DEF LkTypeOK, Alike
  <2>2. Honest(lkEnd, lkNet, lkNow) => Honest(lkEnd', lkNet, lkNow)
    <3> SUFFICES ASSUME Honest(lkEnd, lkNet, lkNow) PROVE Honest(lkEnd', lkNet, lkNow)
      OBVIOUS
    <3> QED  BY <2>1, <1>2, MapsKeep
  <2> QED  BY <2>2 DEF Holds
<1> QED  BY <1>3, <1>4

LEMMA DieStep ==
  ASSUME LkTypeOK, NEW e \in LkEnd, LkDie(e)
  PROVE  LkTypeOK' /\ Holds(lkEnd', lkNet', lkNow')
<1> DEFINE s == [NoLink EXCEPT !.up = FALSE]
<1>1. lkEnd' = [lkEnd EXCEPT ![e] = s] /\ lkNow' = lkNow /\ lkNet' = lkNet
  BY DEF LkDie
<1>2. /\ s \in Ends /\ Blank(s) /\ ~s.link /\ s.rcvd = -1 /\ s.off = 0 /\ ~s.up
      /\ DOMAIN s.sample = {}
  BY DeadIs
<1> HIDE DEF s
<1>3. LkTypeOK'
  BY <1>1, <1>2 DEF LkTypeOK, Sound
<1>4. Holds(lkEnd', lkNet', lkNow')
  BY <1>1, <1>2, SilenceKeeps DEF Holds, LkTypeOK
<1> QED  BY <1>3, <1>4

(* Time passes once all that has arrived is handled. *)
LEMMA TickStep ==
  ASSUME LkTypeOK, LkTick
  PROVE  LkTypeOK' /\ Holds(lkEnd', lkNet', lkNow')
<1>1. /\ lkEnd' = lkEnd /\ lkNet' = lkNet /\ lkNow' = lkNow + 1 /\ LkAllHandled
      /\ lkNow \in Nat /\ lkNet \subseteq Pings
  BY DEF LkTick, LkTypeOK
<1>2. LkTypeOK'
  BY <1>1 DEF LkTypeOK
<1>3. ASSUME Carried(lkNet, lkNow) PROVE Carried(lkNet, lkNow + 1)
  <2>1. \A m \in lkNet : m.due \in Int /\ m.due > lkNow
    BY <1>1, PingHas DEF LkAllHandled
  <2> QED  BY <1>1, <1>3, <2>1 DEF Carried
<1>4. ASSUME NEW e \in LkEnd, Knows(lkEnd, lkNet, lkNow, e)
      PROVE  Knows(lkEnd, lkNet, lkNow + 1, e)
  <2>0. lkEnd[e] \in Ends
    BY DEF LkTypeOK
  <2>1. lkEnd[e].rcvdAt - LkSkew[e] \in Int
    <3>1. lkEnd[e].rcvdAt \in Int
      BY <2>0, EndHas
    <3>2. LkSkew[e] \in Int
      BY Peers
    <3> QED  BY <3>1, <3>2
  <2>2. Patient(lkEnd[e], e, lkNow) => Patient(lkEnd[e], e, lkNow + 1)
    BY <1>1, <2>1 DEF Patient
  <2>3. Early(e) \in Int
    BY LkAssumption DEF LkAssumption, Early, LkEnd
  <2> QED  BY <1>1, <1>4, <2>2, <2>3 DEF Knows
<1> QED  BY <1>1, <1>2, <1>3, <1>4 DEF Holds, Honest

LEMMA SetClockStep ==
  ASSUME LkTypeOK, NEW e \in LkEnd, LkSetClock(e)
  PROVE  LkTypeOK'
<1> DEFINE r == lkEnd[e]
<1>1. PICK d \in LkJump :
        lkEnd' = [lkEnd EXCEPT ![e] = [(IF r.link THEN LkShifted(r, d) ELSE r) EXCEPT !.off = d]]
  BY DEF LkSetClock
<1>2. d \in Int /\ r \in Ends /\ Sound(r) /\ lkNow' = lkNow /\ lkNet' = lkNet
  BY LkAssumption DEF LkAssumption, LkTypeOK, LkSetClock
<1> DEFINE s == [(IF r.link THEN LkShifted(r, d) ELSE r) EXCEPT !.off = d]
<1>3. Sound(s)
  <2> HIDE DEF r
  <2> QED  BY <1>2, ShiftedIs DEF Sound
<1>4. lkEnd' = [lkEnd EXCEPT ![e] = s]
  BY <1>1
<1> HIDE DEF s
<1> QED  BY <1>2, <1>3, <1>4 DEF LkTypeOK, Sound

LEMMA LinksStart == LkInit => LkIInv
<1> SUFFICES ASSUME LkInit PROVE LkIInv
  OBVIOUS
<1>1. /\ lkNow = 0 /\ lkNet = {} /\ lkEnd = [e \in LkEnd |-> NoLink]
  BY DEF LkInit
<1>4. /\ NoLink \in Ends /\ Blank(NoLink) /\ ~NoLink.link /\ NoLink.rcvd = -1 /\ NoLink.off = 0
      /\ DOMAIN NoLink.sample = {}
  BY NobodyIs
<1>5. \A e \in LkEnd : lkEnd[e] = NoLink /\ lkEnd[LkPeer(e)] = NoLink
  BY <1>1, Peers
<1>6. LkTypeOK
  BY <1>1, <1>4, <1>5 DEF LkTypeOK, Sound
<1>7. Honest(lkEnd, lkNet, lkNow)
  BY <1>1, <1>4, <1>5 DEF Honest, Carried, Knows, Unheard
<1> QED  BY <1>6, <1>7 DEF LkIInv

LEMMA LinksStep == LkIInv /\ [LkNext]_lkVars => LkIInv'
<1> SUFFICES ASSUME LkIInv, [LkNext]_lkVars PROVE LkIInv'
  OBVIOUS
<1>1. LkTypeOK /\ (lkStory # "clock" => Honest(lkEnd, lkNet, lkNow))
  BY DEF LkIInv
<1>2. ASSUME NEW e \in LkEnd, LkConnect(e) PROVE LkIInv'
  BY <1>1, <1>2, ConnectStep DEF LkConnect, LkIInv, Holds
<1>3. ASSUME NEW e \in LkEnd, LkHousekeeping(e) PROVE LkIInv'
  BY <1>1, <1>3, HousekeepingStep DEF LkHousekeeping, LkIInv, Holds
<1>4. ASSUME NEW e \in LkEnd, LkSetClock(e) PROVE LkIInv'
  BY <1>1, <1>4, SetClockStep DEF LkSetClock, LkIInv
<1>5. ASSUME NEW e \in LkEnd, LkDie(e) PROVE LkIInv'
  BY <1>1, <1>5, DieStep DEF LkDie, LkIInv, Holds
<1>6. ASSUME NEW m \in lkNet, LkReceive(m) PROVE LkIInv'
  BY <1>1, <1>6, ReceiveStep DEF LkReceive, LkIInv, Holds
<1>7. ASSUME NEW m \in lkNet, LkLose(m) PROVE LkIInv'
  BY <1>1, <1>7, LoseStep DEF LkLose, LkIInv, Holds
<1>8. CASE LkUnmap
  BY <1>1, <1>8, MapsStep DEF LkUnmap, LkIInv, Holds
<1>9. CASE LkRemap
  BY <1>1, <1>9, MapsStep DEF LkRemap, LkIInv, Holds
<1>10. CASE LkTick
  BY <1>1, <1>10, TickStep DEF LkTick, LkIInv, Holds
<1>11. CASE UNCHANGED lkVars
  BY <1>1, <1>11 DEF lkVars, LkIInv, LkTypeOK, Honest, Carried, Knows, ToldOf, Unheard, Patient,
                     SentOn, Sent, Arrived
<1> QED  BY <1>2, <1>3, <1>4, <1>5, <1>6, <1>7, <1>8, <1>9, <1>10, <1>11 DEF LkNext

(* While no clock is set, the offset a link applies to timetags is the      *)
(* difference of the two clocks, wrong by no more than two messages take    *)
(* (LkInTime): for any clocks, delays and periods, whatever is lost, and    *)
(* however pings cross and overtake each other (mpr_link_update_clock of    *)
(* src/link.c, handler_ping of src/network.c).                              *)
THEOREM OffsetsAreRight == LkSpec => []LkInTime
<1>1. LkIInv => LkInTime
  BY DEF LkIInv, Honest, Knows, Bounds, LkInTime
<1> QED  BY <1>1, LinksStart, LinksStep, PTL DEF LkSpec

-----------------------------------------------------------------------------
(* Links that are let go                                                   *)

(* when a ping last arrived by the one clock, or when silence was noted    *)
Rel(e, r) == r.rcvdAt - LkSkew[e] - r.off

(* The housekeeping of an end is due within a period, and less than a      *)
(* timeout and a period after a ping arrived or silence was noted.         *)
Awaits(e, r, due, heard, t) ==
  /\ r.up => t <= due /\ due <= t + LkLongest
  /\ r.link => /\ r.up /\ due <= Rel(e, r) + LkTimeout + LkLongest
               /\ r.rcvd > 0 => Rel(e, r) = heard
               /\ r.rcvd < 0 => Rel(e, r) <= heard + LkTimeout + LkLongest

LkAwaited ==
  /\ lkDue \in [LkEnd -> Int] /\ lkHeard \in [LkEnd -> Int]
  /\ \A e \in LkEnd : Awaits(e, lkEnd[e], lkDue[e], lkHeard[e], lkNow)

LEMMA LongestIs ==
  /\ LkLongest \in Nat /\ LkTimeout \in Nat
  /\ \A n \in LkPeriod : n \in Nat /\ n <= LkLongest
<1>1. \E n \in LkPeriod : \A k \in LkPeriod : n >= k
  BY LkAssumption DEF LkAssumption
<1>2. LkLongest \in LkPeriod /\ \A k \in LkPeriod : LkLongest >= k
  BY <1>1, Zenon DEF LkLongest
<1> QED  BY <1>2, LkAssumption DEF LkAssumption

(* The clock of an end, when it was last read, and what has passed since.  *)
LEMMA RelIs ==
  ASSUME NEW e \in LkEnd, NEW r \in Ends, lkNow \in Nat
  PROVE  /\ Rel(e, r) \in Int /\ LkClock(e, r) - r.rcvdAt = lkNow - Rel(e, r)
         /\ LkClock(e, r) - LkSkew[e] - r.off = lkNow
<1>1. LkSkew[e] \in Int
  BY Peers
<1>2. r.off \in Int /\ r.rcvdAt \in Int
  BY EndHas
<1> QED  BY <1>1, <1>2 DEF Rel, LkClock

LEMMA StepAwaits ==
  ASSUME NEW e \in LkEnd, NEW r \in Ends, r.rcvd # 0, lkNow \in Nat, NEW due, NEW heard,
         NEW step \in Steps(e, r), Awaits(e, r, due, heard, lkNow)
  PROVE  Awaits(e, step.end, due, heard, lkNow)
<1>1. CASE step = LkPing(e, r)
  <2>1. 0 \in 0 .. LkDelay
    BY LkAssumption DEF LkAssumption
  <2> DEFINE s == LkPing(e, r).end
  <2>2. s.up = r.up /\ s.link = r.link /\ s.rcvd = r.rcvd /\ s.rcvdAt = r.rcvdAt /\ s.off = r.off
    BY <2>1, PingIs
  <2> HIDE DEF s
  <2>3. Awaits(e, s, due, heard, lkNow)
    BY <2>2 DEF Awaits, Rel
  <2> QED  BY <2>3, <1>1 DEF s
<1>2. CASE step = LkSilent(r)
  BY <1>2 DEF LkSilent
<1> QED  BY <1>1, <1>2 DEF Steps

LEMMA ConnectAwaits ==
  ASSUME NEW e \in LkEnd, NEW r \in Ends, Blank(r), r.up, lkNow \in Nat, NEW due \in Int, NEW heard,
         Awaits(e, r, due, heard, lkNow)
  PROVE  Awaits(e, LkKeepHouse(e, New(e, r)).end, due, lkNow, lkNow)
<1> DEFINE s == New(e, r)
<1>1. /\ s \in Ends /\ s.up = r.up /\ s.link /\ s.off = r.off /\ s.rcvd = r.rcvd
      /\ s.rcvdAt = LkClock(e, r) + LkTimeout
  BY NewIs
<1>2. s.rcvd = -1
  BY <1>1 DEF Blank
<1> HIDE DEF s
<1>3. LkClock(e, s) = LkClock(e, r) /\ LkClock(e, r) \in Int
  <2>1. LkSkew[e] \in Int
    BY Peers
  <2>2. r.off \in Int
    BY EndHas
  <2> QED  BY <2>1, <2>2, <1>1 DEF LkClock
<1>4. Rel(e, s) = lkNow + LkTimeout
  <2>1. LkClock(e, r) - LkSkew[e] - r.off = lkNow
    BY RelIs
  <2>2. LkSkew[e] \in Int
    BY Peers
  <2>3. r.off \in Int
    BY EndHas
  <2>4. LkTimeout \in Int
    BY LongestIs
  <2>5. s.rcvdAt = LkClock(e, r) + LkTimeout /\ s.off = r.off
    BY <1>1
  <2>6. Rel(e, s) = s.rcvdAt - LkSkew[e] - s.off
    BY DEF Rel
  <2> QED  BY <2>1, <2>2, <2>3, <2>4, <2>5, <2>6, <1>3
<1>5. Awaits(e, s, due, lkNow, lkNow)
  BY <1>1, <1>2, <1>4, LongestIs DEF Awaits
<1>6. ~Silent(e, s)
  BY <1>1, <1>3, LongestIs DEF Silent
<1>7. LkKeepHouse(e, s) \in Steps(e, s)
  BY <1>1, <1>6, KeepHouseIs DEF Kept
<1>8. s.rcvd # 0
  BY <1>2
<1>9. Awaits(e, LkKeepHouse(e, s).end, due, lkNow, lkNow)
  BY <1>1, <1>5, <1>7, <1>8, StepAwaits
<1> QED  BY <1>9 DEF s

LEMMA HouseAwaits ==
  ASSUME NEW e \in LkEnd, NEW r \in Ends, r.rcvd # 0, r.link, lkNow \in Nat,
         NEW due \in Int, NEW heard \in Int, Awaits(e, r, due, heard, lkNow),
         due <= lkNow, NEW n \in LkPeriod
  PROVE  Awaits(e, LkKeepHouse(e, r).end, lkNow + n, heard, lkNow)
<1>1. n \in Nat /\ n <= LkLongest /\ LkLongest \in Nat /\ LkTimeout \in Nat
  BY LongestIs
<1>2. /\ Rel(e, r) \in Int /\ (Silent(e, r) <=> lkNow - Rel(e, r) > LkTimeout) /\ r.rcvd \in Int
  BY RelIs, EndHas DEF Silent
<1>3. /\ r.up /\ due = lkNow /\ lkNow <= Rel(e, r) + LkTimeout + LkLongest
      /\ r.rcvd > 0 => Rel(e, r) = heard
      /\ r.rcvd < 0 => Rel(e, r) <= heard + LkTimeout + LkLongest
  BY <1>1 DEF Awaits
<1>4. CASE Silent(e, r) /\ r.rcvd <= 0 /\ LkKeepHouse(e, r) = LkSilent(LkGone(r))
  <2>1. LkKeepHouse(e, r).end = LkGone(r) /\ ~LkGone(r).link
    <3>1. LkKeepHouse(e, r).end = LkGone(r)
      BY <1>4 DEF LkSilent
    <3>2. ~LkGone(r).link
      BY GoneIs
    <3> QED  BY <3>1, <3>2
  <2> QED  BY <2>1, <1>1 DEF Awaits
<1>5. CASE ~Silent(e, r) /\ LkKeepHouse(e, r) \in Steps(e, Kept(e, r))
  <2>1. Awaits(e, r, lkNow + n, heard, lkNow)
    BY <1>1, <1>2, <1>3, <1>5 DEF Awaits
  <2> QED  BY <2>1, <1>5, StepAwaits DEF Kept
<1>6. CASE Silent(e, r) /\ r.rcvd > 0 /\ LkKeepHouse(e, r) \in Steps(e, Kept(e, r))
  <2> DEFINE s == Doubt(e, r)
  <2>1. LkClock(e, r) \in Int
    <3>1. LkSkew[e] \in Int
      BY Peers
    <3>2. r.off \in Int
      BY EndHas
    <3> QED  BY <3>1, <3>2 DEF LkClock
  <2>2. s \in Ends /\ s.up = r.up /\ s.link /\ s.off = r.off /\ s.rcvd = -1 /\ s.rcvdAt = LkClock(e, r)
    BY <2>1, DoubtIs DEF Doubt
  <2> HIDE DEF s
  <2>3. Rel(e, s) = lkNow
    BY <2>2, RelIs DEF Rel
  <2>4. Awaits(e, s, lkNow + n, heard, lkNow)
    BY <2>2, <2>3, <1>1, <1>2, <1>3, <1>6 DEF Awaits
  <2>5. LkKeepHouse(e, r) \in Steps(e, s)
    BY <1>6 DEF Kept, s
  <2> QED  BY <2>2, <2>4, <2>5, StepAwaits
<1> QED  BY <1>2, <1>4, <1>5, <1>6, KeepHouseIs

(* The steps of an end leave the other's housekeeping alone. *)
LEMMA OneAwaits ==
  ASSUME LkTypeOK, LkAwaited, NEW e \in LkEnd, NEW s \in Ends, NEW due \in Int, NEW heard \in Int,
         lkEnd' = [lkEnd EXCEPT ![e] = s], lkDue' = [lkDue EXCEPT ![e] = due],
         lkHeard' = [lkHeard EXCEPT ![e] = heard], lkNow' = lkNow, Awaits(e, s, due, heard, lkNow)
  PROVE  LkAwaited'
<1>1. lkDue' \in [LkEnd -> Int] /\ lkHeard' \in [LkEnd -> Int]
  BY DEF LkAwaited
<1>2. ASSUME NEW q \in LkEnd PROVE Awaits(q, lkEnd'[q], lkDue'[q], lkHeard'[q], lkNow)
  BY DEF LkTypeOK, LkAwaited
<1> QED  BY <1>1, <1>2 DEF LkAwaited, Awaits, Rel

LEMMA AwaitedStart == LkInit => LkAwaited
<1> SUFFICES ASSUME LkInit PROVE LkAwaited
  OBVIOUS
<1>1. /\ lkNow = 0 /\ lkEnd = [e \in LkEnd |-> NoLink] /\ lkHeard = [e \in LkEnd |-> 0]
      /\ lkDue \in {LkLongest} \X (1 .. LkLongest)
  BY DEF LkInit
<1>2. PICK k \in 1 .. LkLongest : lkDue = <<LkLongest, k>>
  BY <1>1
<1>3. LkLongest \in Nat
  BY LongestIs
<1>4. lkDue \in [LkEnd -> Int] /\ \A e \in LkEnd : lkDue[e] \in 0 .. LkLongest
  BY <1>2, <1>3 DEF LkEnd
<1>5. NoLink.link = FALSE
  BY DEF NoLink
<1>6. \A e \in LkEnd : lkEnd[e] = NoLink
  BY <1>1
<1>7. \A e \in LkEnd : Awaits(e, lkEnd[e], lkDue[e], lkHeard[e], lkNow)
  BY <1>1, <1>3, <1>4, <1>5, <1>6 DEF Awaits
<1> QED  BY <1>1, <1>4, <1>7 DEF LkAwaited

LEMMA AwaitedStep == LkTypeOK /\ LkAwaited /\ [LkNext]_lkVars => LkAwaited'
<1> SUFFICES ASSUME LkTypeOK, LkAwaited, [LkNext]_lkVars PROVE LkAwaited'
  OBVIOUS
<1>0a. ASSUME NEW e \in LkEnd
      PROVE  /\ lkEnd[e] \in Ends /\ Sound(lkEnd[e]) /\ lkDue[e] \in Int /\ lkHeard[e] \in Int
             /\ Awaits(e, lkEnd[e], lkDue[e], lkHeard[e], lkNow)
  BY DEF LkTypeOK, LkAwaited
<1>0b. /\ lkNow \in Nat /\ lkDue \in [LkEnd -> Int] /\ lkHeard \in [LkEnd -> Int]
      /\ lkEnd \in [LkEnd -> Ends]
  BY DEF LkTypeOK, LkAwaited
<1>1. ASSUME NEW e \in LkEnd, LkConnect(e) PROVE LkAwaited'
  <2> DEFINE step == LkKeepHouse(e, New(e, lkEnd[e]))
  <2>1. /\ lkEnd[e].up /\ ~lkEnd[e].link /\ LkDone(e, step, lkNet)
        /\ lkHeard' = [lkHeard EXCEPT ![e] = lkNow] /\ lkNow' = lkNow /\ lkDue' = lkDue
    BY <1>1 DEF LkConnect, New
  <2>2. lkEnd' = [lkEnd EXCEPT ![e] = step.end] /\ \E d \in DOMAIN step.msgs : TRUE
    BY <2>1 DEF LkDone
  <2>3. New(e, lkEnd[e]) \in Ends /\ New(e, lkEnd[e]).link /\ New(e, lkEnd[e]).rcvd # 0
    BY <1>0a, <1>0b, NewIs DEF Sound
  <2>4. step.end \in Ends
    BY <2>2, <2>3, <1>0b, KeepHouseTyped
  <2>5. Awaits(e, step.end, lkDue[e], lkNow, lkNow)
    BY <2>1, <1>0a, <1>0b, ConnectAwaits DEF Sound
  <2>6. lkDue' = [lkDue EXCEPT ![e] = lkDue[e]]
    BY <2>1, <1>0b
  <2>7. lkNow \in Int /\ lkDue[e] \in Int
    BY <1>0a, <1>0b
  <2> HIDE DEF step
  <2> QED  BY <2>1, <2>2, <2>4, <2>5, <2>6, <2>7, OneAwaits
<1>2. ASSUME NEW e \in LkEnd, LkHousekeeping(e) PROVE LkAwaited'
  <2> DEFINE step == IF lkEnd[e].link THEN LkKeepHouse(e, lkEnd[e]) ELSE LkSilent(lkEnd[e])
  <2>1. /\ lkEnd[e].up /\ lkDue[e] <= lkNow /\ LkDone(e, step, lkNet)
        /\ lkHeard' = lkHeard /\ lkNow' = lkNow
    BY <1>2 DEF LkHousekeeping
  <2>2. PICK n \in LkPeriod : lkDue' = [lkDue EXCEPT ![e] = lkNow + n]
    BY <1>2 DEF LkHousekeeping
  <2>3. lkEnd' = [lkEnd EXCEPT ![e] = step.end] /\ \E d \in DOMAIN step.msgs : TRUE
    BY <2>1 DEF LkDone
  <2>4. step.end \in Ends /\ Awaits(e, step.end, lkNow + n, lkHeard[e], lkNow)
    <3>1. CASE lkEnd[e].link
      <4>1. step = LkKeepHouse(e, lkEnd[e])
        BY <3>1
      <4> HIDE DEF step
      <4>2. step.end \in Ends
        BY <4>1, <3>1, <2>3, <1>0a, <1>0b, KeepHouseTyped DEF Sound
      <4>3. Awaits(e, step.end, lkNow + n, lkHeard[e], lkNow)
        BY <4>1, <3>1, <2>1, <1>0a, <1>0b, HouseAwaits DEF Sound
      <4> QED  BY <4>2, <4>3
    <3>2. CASE ~lkEnd[e].link
      <4>1. step.end = lkEnd[e]
        BY <3>2 DEF LkSilent
      <4> HIDE DEF step
      <4>2. n \in Nat /\ n <= LkLongest /\ LkLongest \in Nat
        BY LongestIs
      <4> QED  BY <4>1, <4>2, <3>2, <1>0a, <1>0b DEF Awaits
    <3> QED  BY <3>1, <3>2
  <2>5. lkHeard' = [lkHeard EXCEPT ![e] = lkHeard[e]] /\ lkNow + n \in Int
    BY <2>1, <1>0b, LongestIs
  <2> QED  BY <2>1, <2>2, <2>3, <2>4, <2>5, <1>0a, OneAwaits
<1>3. ASSUME NEW e \in LkEnd, LkSetClock(e) PROVE LkAwaited'
  <2> DEFINE r == lkEnd[e]
  <2>1. PICK d \in LkJump :
          lkEnd' = [lkEnd EXCEPT ![e] = [(IF r.link THEN LkShifted(r, d) ELSE r) EXCEPT !.off = d]]
    BY <1>3 DEF LkSetClock
  <2> DEFINE s == [(IF r.link THEN LkShifted(r, d) ELSE r) EXCEPT !.off = d]
  <2>2. /\ d \in Int /\ r \in Ends /\ Sound(r) /\ lkNow' = lkNow /\ lkDue' = lkDue
        /\ lkHeard' = lkHeard /\ r.off = 0
    BY <1>3, <1>0a, LkAssumption DEF LkAssumption, LkSetClock
  <2>3. /\ s \in Ends /\ s.up = r.up /\ s.rcvd = r.rcvd /\ s.link = r.link /\ s.off = d
        /\ r.link => s.rcvdAt = r.rcvdAt + d
    <3> HIDE DEF r
    <3> QED  BY <2>2, ShiftedIs
  <2>4. lkEnd' = [lkEnd EXCEPT ![e] = s]
    BY <2>1
  <2> HIDE DEF s
  <2>5. r.link => Rel(e, s) = Rel(e, r)
    <3>1. LkSkew[e] \in Int
      BY Peers
    <3>2. r.rcvdAt \in Int
      BY <2>2, EndHas
    <3> QED  BY <3>1, <3>2, <2>2, <2>3 DEF Rel
  <2>6. Awaits(e, s, lkDue[e], lkHeard[e], lkNow)
    BY <2>3, <2>5, <1>0a DEF Awaits
  <2>7. lkHeard' = [lkHeard EXCEPT ![e] = lkHeard[e]] /\ lkDue' = [lkDue EXCEPT ![e] = lkDue[e]]
    BY <2>2, <1>0b
  <2> QED  BY <2>2, <2>3, <2>4, <2>6, <2>7, <1>0a, OneAwaits
<1>4. ASSUME NEW e \in LkEnd, LkDie(e) PROVE LkAwaited'
  <2> DEFINE s == [NoLink EXCEPT !.up = FALSE]
  <2>1. /\ lkEnd' = [lkEnd EXCEPT ![e] = s] /\ lkNow' = lkNow /\ lkDue' = lkDue
        /\ lkHeard' = lkHeard
    BY <1>4 DEF LkDie
  <2>2. s \in Ends /\ ~s.link /\ ~s.up
    BY DeadIs
  <2> HIDE DEF s
  <2>3. Awaits(e, s, lkDue[e], lkHeard[e], lkNow)
    BY <2>2 DEF Awaits
  <2>4. lkHeard' = [lkHeard EXCEPT ![e] = lkHeard[e]] /\ lkDue' = [lkDue EXCEPT ![e] = lkDue[e]]
    BY <2>1, <1>0b
  <2> QED  BY <2>1, <2>2, <2>3, <2>4, <1>0a, OneAwaits
<1>5. ASSUME NEW m \in lkNet, LkReceive(m) PROVE LkAwaited'
  <2> DEFINE e == m.to
             r == lkEnd[e]
             s == Heard(LkClock(e, r), r, m)
  <2>1. m \in Pings /\ e \in LkEnd
    BY PingHas DEF LkTypeOK
  <2>2. lkNow' = lkNow /\ lkDue' = lkDue
    BY <1>5 DEF LkReceive
  <2>3. CASE r.up /\ r.link
    <3>1. /\ \E step \in Steps(e, s) : LkDone(e, step, lkNet \ {m})
          /\ lkHeard' = [lkHeard EXCEPT ![e] = lkNow]
      BY <2>3, <1>5 DEF LkReceive, Heard, Steps
    <3>2. PICK step \in Steps(e, s) : LkDone(e, step, lkNet \ {m})
      BY <3>1
    <3>3. lkEnd' = [lkEnd EXCEPT ![e] = step.end] /\ \E d \in DOMAIN step.msgs : TRUE
      BY <3>2 DEF LkDone
    <3> HIDE DEF e, r
    <3>4. r \in Ends /\ Awaits(e, r, lkDue[e], lkHeard[e], lkNow) /\ lkDue[e] \in Int
      BY <2>1, <1>0a DEF r
    <3>5. LkClock(e, r) \in Int
      <4>1. LkSkew[e] \in Int
        BY <2>1, Peers
      <4>2. r.off \in Int
        BY <3>4, EndHas
      <4> QED  BY <4>1, <4>2, <1>0b DEF LkClock
    <3>6. /\ s \in Ends /\ s.up = r.up /\ s.link = r.link /\ s.off = r.off
          /\ s.rcvd > 0 /\ s.rcvd \in Int /\ s.rcvdAt = LkClock(e, r)
      <4>1. /\ s \in Ends /\ s.up = r.up /\ s.link = r.link /\ s.off = r.off
            /\ s.rcvd > 0 /\ s.rcvdAt = LkClock(e, r)
        BY <2>1, <3>4, <3>5, HeardIs
      <4> HIDE DEF s
      <4> QED  BY <4>1, EndHas
    <3> HIDE DEF s
    <3>7. Rel(e, s) = lkNow
      BY <2>1, <1>0b, <3>4, <3>6, RelIs DEF Rel
    <3>8. Awaits(e, s, lkDue[e], lkNow, lkNow)
      BY <2>3, <3>4, <3>6, <3>7, <1>0b, LongestIs DEF Awaits
    <3>9. step.end \in Ends /\ Awaits(e, step.end, lkDue[e], lkNow, lkNow)
      <4>1. s.rcvd # 0 /\ s.link
        BY <2>3, <3>6
      <4>2. step.end \in Ends
        BY <4>1, <2>1, <3>3, <3>6, <1>0b, StepTyped
      <4>3. Awaits(e, step.end, lkDue[e], lkNow, lkNow)
        BY <4>1, <2>1, <3>6, <3>8, <1>0b, StepAwaits
      <4> QED  BY <4>2, <4>3
    <3>10. lkDue' = [lkDue EXCEPT ![e] = lkDue[e]]
      BY <2>2, <1>0b
    <3>11. lkNow \in Int
      BY <1>0b
    <3> QED  BY <2>1, <2>2, <3>1, <3>3, <3>4, <3>9, <3>10, <3>11, OneAwaits
  <2>4. CASE ~(r.up /\ r.link)
    <3>1. lkEnd' = lkEnd /\ lkHeard' = lkHeard
      BY <2>4, <1>5 DEF LkReceive
    <3> QED  BY <3>1, <2>2 DEF LkAwaited, Awaits, Rel
  <2> QED  BY <2>3, <2>4
<1>6. ASSUME NEW m \in lkNet, LkLose(m) PROVE LkAwaited'
  BY <1>6 DEF LkLose, LkAwaited, Awaits, Rel
<1>7. ASSUME NEW b \in BOOLEAN, lkEnd' = [e \in LkEnd |-> [lkEnd[e] EXCEPT !.maps = b]],
             lkNow' = lkNow, lkDue' = lkDue, lkHeard' = lkHeard
      PROVE  LkAwaited'
  <2>1. ASSUME NEW e \in LkEnd PROVE Awaits(e, lkEnd'[e], lkDue[e], lkHeard[e], lkNow)
    <3>1. lkEnd'[e] = [lkEnd[e] EXCEPT !.maps = b]
      BY <1>7
    <3>2. LET s == lkEnd'[e]
              r == lkEnd[e]
          IN  s.up = r.up /\ s.link = r.link /\ s.off = r.off /\ s.rcvd = r.rcvd /\ s.rcvdAt = r.rcvdAt
      BY <3>1, <1>0a, MapsAre
    <3> QED  BY <3>2, <1>0a DEF Awaits, Rel
  <2> QED  BY <2>1, <1>7 DEF LkAwaited, Awaits, Rel
<1>8. CASE LkUnmap
  BY <1>7, <1>8 DEF LkUnmap
<1>9. CASE LkRemap
  BY <1>7, <1>9 DEF LkRemap
<1>10. CASE LkTick
  <2>1. /\ lkEnd' = lkEnd /\ lkDue' = lkDue /\ lkHeard' = lkHeard /\ lkNow' = lkNow + 1
        /\ \A e \in LkEnd : lkEnd[e].up => lkDue[e] > lkNow
    BY <1>10 DEF LkTick
  <2>2. ASSUME NEW e \in LkEnd PROVE Awaits(e, lkEnd[e], lkDue[e], lkHeard[e], lkNow + 1)
    BY <2>1, <1>0a, <1>0b, LongestIs DEF Awaits
  <2> QED  BY <2>1, <2>2 DEF LkAwaited, Awaits, Rel
<1>11. CASE UNCHANGED lkVars
  BY <1>11 DEF lkVars, LkAwaited, Awaits, Rel
<1> QED  BY <1>1, <1>2, <1>3, <1>4, <1>5, <1>6, <1>8, <1>9, <1>10, <1>11 DEF LkNext

(* No link outlives the other end by more than two timeouts and the         *)
(* housekeepings that find it silent (LkLetGo, the second half of           *)
(* LkAbandoned): for any periods and timeouts, and although programs set    *)
(* the clocks it is measured by (mpr_link_housekeeping of src/link.c).      *)
THEOREM LinksAreLetGo == LkSpec => []LkLetGo
<1>1. LkTypeOK /\ LkAwaited => LkLetGo
  <2> SUFFICES ASSUME LkTypeOK, LkAwaited, NEW e \in LkEnd, lkEnd[e].link
               PROVE  lkNow - lkHeard[e] <= 2 * (LkTimeout + LkLongest)
    BY DEF LkLetGo
  <2>1. /\ lkEnd[e] \in Ends /\ lkEnd[e].rcvd # 0 /\ lkDue[e] \in Int /\ lkHeard[e] \in Int
        /\ Awaits(e, lkEnd[e], lkDue[e], lkHeard[e], lkNow) /\ lkNow \in Nat
    BY DEF LkTypeOK, LkAwaited, Sound
  <2>2. lkEnd[e].rcvd \in Int /\ Rel(e, lkEnd[e]) \in Int
    BY <2>1, EndHas, RelIs
  <2> QED  BY <2>1, <2>2, LongestIs DEF Awaits
<1>2. LkIInv => LkTypeOK
  BY DEF LkIInv
<1> QED  BY <1>1, <1>2, LinksStart, LinksStep, AwaitedStart, AwaitedStep, PTL DEF LkSpec

-----------------------------------------------------------------------------
(***************************************************************************)
(* Where handlers neither start nor stop the thread, polls are kept apart  *)
(* by the counter and the thread data, whatever the number of calls.       *)
(*                                                                         *)
(* The counter alone would not do: it is read in one step and written in   *)
(* another.  What helps is that never two threads are in, or on their way  *)
(* into, a poll: the program does not get there while there is a thread,   *)
(* and while it is there no thread is made.                                *)
(***************************************************************************)

Places == {"called", "load", "store", "polling", "created", "join"}
Frames == [at : Places, read : Nat, whom : PlWorker \cup {PlNone}]

(* Every variable keeps its type. *)
PlTypeOK ==
  /\ plPolling \in Nat /\ plData \in PlWorker \cup {PlNone}
  /\ plActive \in [PlWorker -> BOOLEAN] /\ plAlive \subseteq PlWorker
  /\ plStack \in [PlThread -> Seq(Frames)]

(* the outermost call of a thread *)
Outer(t) == IF plStack[t] = <<>> THEN "idle" ELSE plStack[t][1].at
Busy(t)  == Outer(t) \in {"load", "store", "polling"}

(* Only a handler calls inside of a call, and only to poll; a worker does  *)
(* nothing else than to poll, and only while it lives.                     *)
Nesting ==
  /\ \A t \in PlThread :
       /\ Len(plStack[t]) <= 2
       /\ Len(plStack[t]) = 2 => Outer(t) = "polling" /\ plStack[t][2].at = "called"
  /\ \A w \in PlWorker : Outer(w) = "idle" \/ (Busy(w) /\ w \in plAlive)

(* The counter says whether somebody polls, and nobody else is about to. *)
Counter ==
  /\ \A t, u \in PlThread : Busy(t) /\ Busy(u) => t = u
  /\ \A t \in PlThread : Outer(t) = "polling" => plPolling = 1
  /\ (\A t \in PlThread : Outer(t) # "polling") => plPolling = 0
  /\ \A t \in PlThread : Outer(t) = "store" => plStack[t][1].read = 0

(* The thread data are about the thread that lives, from when they are     *)
(* noted until the thread was joined.                                      *)
Call == Outer("program")
Of   == plStack["program"][1].whom
Threads ==
  /\ \A w \in plAlive : plData = w \/ (Call = "created" /\ Of = w)
  /\ Call = "created" => plData = PlNone /\ Of \in plAlive
  /\ Call = "join" => Of \in PlWorker /\ plData = Of
  /\ Busy("program") => plData = PlNone
  /\ plData \in PlWorker => plData \in plAlive \/ Call = "join"
  /\ Call # "join" => \A w \in plAlive : plActive[w]

PlIInv == PlTypeOK /\ Nesting /\ Counter /\ Threads

-----------------------------------------------------------------------------
(* Stacks *)

LEMMA FrontOf ==
  ASSUME NEW s \in Seq(Frames), s # <<>>
  PROVE  /\ Front(s) \in Seq(Frames) /\ Len(Front(s)) = Len(s) - 1
         /\ \A i \in 1..(Len(s) - 1) : Front(s)[i] = s[i]
<1>1. Len(s) \in Nat \ {0}
  BY EmptySeq
<1>2. \A i \in 1..(Len(s) - 1) : s[i] \in Frames
  BY ElementOfSeq, <1>1
<1>3. /\ SubSeq(s, 1, Len(s) - 1) \in Seq(Frames)
      /\ Len(SubSeq(s, 1, Len(s) - 1)) = IF 1 <= Len(s) - 1 THEN (Len(s) - 1) - 1 + 1 ELSE 0
      /\ \A i \in 1..((Len(s) - 1) - 1 + 1) : SubSeq(s, 1, Len(s) - 1)[i] = s[1 + i - 1]
  BY SubSeqProperties, <1>1, <1>2
<1>4. Front(s) \in Seq(Frames) /\ Len(Front(s)) = Len(s) - 1
  <2>1. \A n \in Nat \ {0} : (IF 1 <= n - 1 THEN (n - 1) - 1 + 1 ELSE 0) = n - 1
    OBVIOUS
  <2> QED
    BY <1>1, <1>3, <2>1 DEF Front
<1>5. ASSUME NEW i \in 1..(Len(s) - 1)
      PROVE  Front(s)[i] = s[i]
  <2>1. i \in 1..((Len(s) - 1) - 1 + 1) /\ 1 + i - 1 = i
    BY <1>1
  <2> QED
    BY <1>3, <2>1 DEF Front
<1> QED
  BY <1>4, <1>5

LEMMA Entered ==
  ASSUME PlTypeOK, NEW t \in PlThread, NEW p \in Frames, plStack' = [plStack EXCEPT ![t] = Append(@, p)]
  PROVE  /\ plStack' \in [PlThread -> Seq(Frames)]
         /\ \A u \in PlThread \ {t} : plStack'[u] = plStack[u]
         /\ Len(plStack'[t]) = Len(plStack[t]) + 1 /\ plStack'[t] # <<>>
         /\ plStack'[t][Len(plStack[t]) + 1] = p
         /\ \A i \in 1..Len(plStack[t]) : plStack'[t][i] = plStack[t][i]
<1>1. plStack \in [PlThread -> Seq(Frames)] /\ plStack[t] \in Seq(Frames)
  BY DEF PlTypeOK
<1>2. plStack'[t] = Append(plStack[t], p) /\ Append(plStack[t], p) \in Seq(Frames)
  BY <1>1, AppendProperties
<1> QED
  BY <1>1, <1>2, AppendProperties

LEMMA Returned ==
  ASSUME PlTypeOK, NEW t \in PlThread, plStack[t] # <<>>, PlReturn(t)
  PROVE  /\ plStack' \in [PlThread -> Seq(Frames)]
         /\ \A u \in PlThread \ {t} : plStack'[u] = plStack[u]
         /\ Len(plStack'[t]) = Len(plStack[t]) - 1
         /\ \A i \in 1..(Len(plStack[t]) - 1) : plStack'[t][i] = plStack[t][i]
<1>1. plStack \in [PlThread -> Seq(Frames)] /\ plStack[t] \in Seq(Frames)
  BY DEF PlTypeOK
<1>2. plStack'[t] = Front(plStack[t]) /\ Front(plStack[t]) \in Seq(Frames)
  BY <1>1, FrontOf DEF PlReturn
<1> QED
  BY <1>1, <1>2, FrontOf DEF PlReturn

LEMMA Gone ==
  ASSUME PlTypeOK, NEW t \in PlThread, NEW p \in Frames, plStack[t] # <<>>,
         plStack' = [plStack EXCEPT ![t] = Append(Front(@), p)]
  PROVE  /\ plStack' \in [PlThread -> Seq(Frames)]
         /\ \A u \in PlThread \ {t} : plStack'[u] = plStack[u]
         /\ Len(plStack'[t]) = Len(plStack[t]) /\ plStack'[t] # <<>>
         /\ plStack'[t][Len(plStack[t])] = p
         /\ \A i \in 1..(Len(plStack[t]) - 1) : plStack'[t][i] = plStack[t][i]
<1>1. plStack \in [PlThread -> Seq(Frames)] /\ plStack[t] \in Seq(Frames) /\ Len(plStack[t]) \in Nat \ {0}
  BY EmptySeq DEF PlTypeOK
<1>2. Front(plStack[t]) \in Seq(Frames) /\ Len(Front(plStack[t])) = Len(plStack[t]) - 1
  BY <1>1, FrontOf
<1>3. plStack'[t] = Append(Front(plStack[t]), p) /\ Append(Front(plStack[t]), p) \in Seq(Frames)
  BY <1>1, <1>2, AppendProperties
<1>4. /\ Append(Front(plStack[t]), p) # <<>>
      /\ Len(Append(Front(plStack[t]), p)) = Len(Front(plStack[t])) + 1
      /\ \A i \in 1..Len(Front(plStack[t])) : Append(Front(plStack[t]), p)[i] = Front(plStack[t])[i]
      /\ Append(Front(plStack[t]), p)[Len(Front(plStack[t])) + 1] = p
  BY <1>2, AppendProperties
<1> QED
  BY <1>1, <1>2, <1>3, <1>4, FrontOf

(* A thread whose innermost place is not "called" is in one call only, and *)
(* that place is of its outermost call.                                    *)
LEMMA Innermost ==
  ASSUME PlIInv, NEW t \in PlThread, NEW place \in Places, PlAt(t, place)
  PROVE  /\ plStack[t] # <<>> /\ Len(plStack[t]) \in {1, 2}
         /\ place # "called" => Len(plStack[t]) = 1
         /\ Len(plStack[t]) = 1 => Outer(t) = place /\ Last(plStack[t]) = plStack[t][1]
         /\ Len(plStack[t]) = 2 => Outer(t) = "polling"
         /\ plStack[t][1] \in Frames
<1>1. plStack[t] \in Seq(Frames) /\ plStack[t] # <<>> /\ plStack[t][Len(plStack[t])].at = place
  BY DEF PlIInv, PlTypeOK, PlAt, Last
<1>2. Len(plStack[t]) \in Nat \ {0} /\ plStack[t][1] \in Frames
  BY <1>1, EmptySeq, ElementOfSeq
<1>3. Len(plStack[t]) <= 2 /\ (Len(plStack[t]) = 2 => Outer(t) = "polling" /\ plStack[t][2].at = "called")
  BY DEF PlIInv, Nesting
<1>4. Len(plStack[t]) \in {1, 2}
  <2>1. \A n \in Nat \ {0} : n <= 2 => n \in {1, 2}
    OBVIOUS
  <2> QED
    BY <1>2, <1>3, <2>1
<1>5. Len(plStack[t]) = 1 => Outer(t) = place /\ Last(plStack[t]) = plStack[t][1]
  BY <1>1 DEF Outer, Last
<1>6. Len(plStack[t]) = 2 => Outer(t) = "polling" /\ place = "called"
  BY <1>1, <1>3
<1> QED
  BY <1>1, <1>2, <1>4, <1>5, <1>6

-----------------------------------------------------------------------------
(* Steps that leave the outermost calls as they are *)

LEMMA SameCalls ==
  ASSUME PlIInv, UNCHANGED <<plPolling, plData, plActive, plAlive>>,
         \A u \in PlThread : Outer(u)' = Outer(u)
                             /\ (plStack[u] # <<>> => plStack'[u][1] = plStack[u][1])
  PROVE  Counter' /\ Threads'
<1>1. \A u \in PlThread : Busy(u)' <=> Busy(u)
  BY DEF Busy
<1>2. \A u \in PlThread : Outer(u)' = "store" => plStack'[u][1].read = plStack[u][1].read
  BY DEF Outer
<1>3. Counter'
  BY <1>1, <1>2 DEF PlIInv, Counter
<1>4. "program" \in PlThread /\ Call' = Call /\ (Call \in {"created", "join"} => Of' = Of)
  BY DEF PlThread, Call, Of, Outer
<1>5. Threads'
  BY <1>1, <1>4 DEF PlIInv, Threads
<1> QED
  BY <1>3, <1>5

LEMMA StutterStep ==
  ASSUME PlIInv, UNCHANGED plVars
  PROVE  PlIInv'
BY DEF PlIInv, PlTypeOK, Nesting, Counter, Threads, Outer, Busy, Call, Of, plVars

(* A step of one thread keeps the nesting if that thread keeps to it. *)
LEMMA NestingKept ==
  ASSUME PlIInv, NEW t \in PlThread, \A u \in PlThread \ {t} : plStack'[u] = plStack[u],
         Len(plStack'[t]) <= 2,
         Len(plStack'[t]) = 2 => Outer(t)' = "polling" /\ plStack'[t][2].at = "called",
         t \in PlWorker => Outer(t)' = "idle" \/ (Busy(t)' /\ t \in plAlive'),
         plAlive \ {t} \subseteq plAlive'
  PROVE  Nesting'
<1>1. \A u \in PlThread \ {t} : Outer(u)' = Outer(u) /\ (Busy(u)' <=> Busy(u))
  BY DEF Outer, Busy
<1>2. ASSUME NEW u \in PlThread
      PROVE  /\ Len(plStack'[u]) <= 2
             /\ Len(plStack'[u]) = 2 => Outer(u)' = "polling" /\ plStack'[u][2].at = "called"
  <2>1. CASE u = t
    BY <2>1
  <2>2. CASE u # t
    <3>1. plStack'[u] = plStack[u] /\ Outer(u)' = Outer(u)
      BY <1>1, <2>2
    <3> QED
      BY <3>1 DEF PlIInv, Nesting
  <2> QED
    BY <2>1, <2>2
<1>3. ASSUME NEW w \in PlWorker
      PROVE  Outer(w)' = "idle" \/ (Busy(w)' /\ w \in plAlive')
  <2>1. w \in PlThread
    BY DEF PlThread
  <2>2. CASE w # t
    BY <1>1, <2>1, <2>2 DEF PlIInv, Nesting
  <2> QED
    BY <2>2
<1> QED
  BY <1>2, <1>3 DEF Nesting

LEMMA FramesAre ==
  ASSUME NEW place \in Places, NEW n \in Nat, NEW w \in PlWorker \cup {PlNone}
  PROVE  /\ PlPlace(place) \in Frames /\ PlPlace(place).at = place
         /\ [PlPlace(place) EXCEPT !.read = n] \in Frames
         /\ [PlPlace(place) EXCEPT !.read = n].at = place
         /\ [PlPlace(place) EXCEPT !.read = n].read = n
         /\ [PlPlace(place) EXCEPT !.whom = w] \in Frames
         /\ [PlPlace(place) EXCEPT !.whom = w].at = place
         /\ [PlPlace(place) EXCEPT !.whom = w].whom = w
BY DEF PlPlace, Frames

(* a handler, or the program, calls to poll *)
LEMMA PollStep ==
  ASSUME PlIInv, NEW t \in PlThread, PlPoll(t)
  PROVE  PlIInv'
<1> DEFINE p == PlPlace("called")
<1>1. p \in Frames /\ p.at = "called"
  BY FramesAre DEF Places
<1>2. plStack' = [plStack EXCEPT ![t] = Append(@, p)]
  BY DEF PlPoll, PlEnter
<1> HIDE DEF p
<1>3. PlTypeOK
  BY DEF PlIInv
<1>4. /\ plStack' \in [PlThread -> Seq(Frames)]
      /\ \A u \in PlThread \ {t} : plStack'[u] = plStack[u]
      /\ Len(plStack'[t]) = Len(plStack[t]) + 1 /\ plStack'[t] # <<>>
      /\ plStack'[t][Len(plStack[t]) + 1] = p
      /\ \A i \in 1..Len(plStack[t]) : plStack'[t][i] = plStack[t][i]
  BY <1>1, <1>2, <1>3, Entered
<1>5. UNCHANGED <<plPolling, plData, plActive, plAlive>>
  BY DEF PlPoll
<1>6. PlTypeOK'
  BY <1>3, <1>4, <1>5 DEF PlTypeOK
<1>7. \A u \in PlThread \ {t} : Outer(u)' = Outer(u)
  BY <1>4 DEF Outer
<1>8. CASE PlInside(t)
  <2>1. Len(plStack[t]) = 1 /\ Outer(t) = "polling" /\ plStack[t] # <<>>
    BY <1>8, Innermost DEF PlInside, Places
  <2>2. plStack'[t][1] = plStack[t][1] /\ Len(plStack'[t]) = 2 /\ plStack'[t][2] = p
    BY <1>4, <2>1
  <2>3. Outer(t)' = Outer(t)
    BY <1>4, <2>1, <2>2 DEF Outer
  <2>4. Counter' /\ Threads'
    BY <1>4, <1>5, <1>7, <2>2, <2>3, SameCalls
  <2>5. Nesting'
    <3>1. t \in PlWorker => Busy(t)' /\ t \in plAlive'
      BY <1>5, <2>1, <2>3 DEF PlIInv, Nesting, Busy
    <3>2. Len(plStack'[t]) <= 2 /\ Outer(t)' = "polling" /\ plStack'[t][2].at = "called"
      BY <1>1, <2>1, <2>2, <2>3
    <3>3. plAlive \ {t} \subseteq plAlive'
      BY <1>5
    <3> QED
      BY <1>4, <3>1, <3>2, <3>3, NestingKept
  <2> QED
    BY <1>6, <2>4, <2>5 DEF PlIInv
<1>9. CASE t = "program" /\ plStack[t] = <<>>
  <2>1. Len(plStack[t]) = 0 /\ Len(plStack'[t]) = 1 /\ plStack'[t][1] = p
    BY <1>4, <1>9
  <2>2. Outer(t)' = "called" /\ Outer(t) = "idle"
    BY <1>1, <1>4, <1>9, <2>1 DEF Outer
  <2>3. \A u \in PlThread : Busy(u)' <=> Busy(u)
    BY <1>7, <2>2 DEF Busy
  <2>4. t \notin PlWorker /\ Call' = "called" /\ Call = "idle"
    BY <1>9, <2>2, PlAssumption DEF Call
  <2>5. Nesting'
    BY <1>4, <1>5, <2>1, <2>4, NestingKept
  <2>6. Counter'
    BY <1>4, <1>5, <1>7, <2>2, <2>3 DEF PlIInv, Counter
  <2>7. Threads'
    BY <1>5, <2>3, <2>4, <1>9 DEF PlIInv, Threads
  <2> QED
    BY <1>6, <2>5, <2>6, <2>7 DEF PlIInv
<1> QED
  BY <1>8, <1>9 DEF PlPoll, PlMayCall

(* Only the program is in a call that is none of poll's. *)
LEMMA OnlyTheProgram ==
  ASSUME PlIInv, NEW t \in PlThread, Outer(t) \notin {"idle", "load", "store", "polling"}
  PROVE  t = "program" /\ t \notin PlWorker
BY PlAssumption DEF PlIInv, Nesting, Busy, PlThread

(* A worker in a poll lives, and so it is the one of the data or the one   *)
(* that was just created.                                                  *)
LEMMA BusyWorker ==
  ASSUME PlIInv, NEW u \in PlThread, u # "program", Outer(u) # "idle"
  PROVE  u \in PlWorker /\ u \in plAlive /\ (plData = u \/ (Call = "created" /\ Of = u))
BY DEF PlIInv, Nesting, Threads, PlThread

(* A call of the program that neither polls nor is about the thread. *)
LEMMA ProgramMoves ==
  ASSUME PlIInv, UNCHANGED <<plPolling, plData, plActive, plAlive>>,
         \A u \in PlThread \ {"program"} : plStack'[u] = plStack[u],
         Call \in {"idle", "called"}, Call' \in {"idle", "called"}
  PROVE  Counter' /\ Threads'
<1>1. \A u \in PlThread \ {"program"} : Outer(u)' = Outer(u)
  BY DEF Outer
<1>2. \A u \in PlThread : Busy(u)' <=> Busy(u)
  BY <1>1 DEF Busy, Call
<1>3. Counter'
  BY <1>1, <1>2 DEF PlIInv, Counter, Call
<1>4. "program" \in PlThread
  BY DEF PlThread
<1>5. Threads'
  BY <1>2, <1>4 DEF PlIInv, Threads
<1> QED
  BY <1>3, <1>5

LEMMA CheckStep ==
  ASSUME PlIInv, NEW t \in PlThread, PlCheck(t)
  PROVE  PlIInv'
<1> DEFINE p == PlPlace("load")
<1>1. p \in Frames /\ p.at = "load"
  BY FramesAre DEF Places
<1>2. /\ plStack[t] # <<>> /\ Len(plStack[t]) \in {1, 2}
      /\ Len(plStack[t]) = 1 => Outer(t) = "called"
      /\ Len(plStack[t]) = 2 => Outer(t) = "polling"
  BY Innermost DEF PlCheck, Places
<1>3. PlTypeOK /\ UNCHANGED <<plPolling, plData, plActive, plAlive>>
  BY DEF PlIInv, PlCheck
<1>4. CASE PlFree
  <2>1. plStack' = [plStack EXCEPT ![t] = Append(Front(@), p)]
    BY <1>4 DEF PlCheck, PlGoto
  <2> HIDE DEF p
  <2>2. /\ plStack' \in [PlThread -> Seq(Frames)]
        /\ \A u \in PlThread \ {t} : plStack'[u] = plStack[u]
        /\ Len(plStack'[t]) = Len(plStack[t]) /\ plStack'[t] # <<>>
        /\ plStack'[t][Len(plStack[t])] = p
    BY <1>1, <1>2, <1>3, <2>1, Gone
  <2>3. Len(plStack[t]) = 1 /\ Outer(t) = "called"
    BY <1>2, <1>4 DEF PlIInv, Counter, PlFree
  <2>4. t = "program" /\ t \notin PlWorker /\ Call = "called"
    BY <2>3, OnlyTheProgram DEF Call
  <2>5. Outer(t)' = "load" /\ \A u \in PlThread \ {t} : Outer(u)' = Outer(u)
    BY <1>1, <2>2, <2>3 DEF Outer
  <2>6. \A u \in PlThread \ {t} : Outer(u) = "idle"
    BY <1>4, <2>4, BusyWorker, PlAssumption DEF PlFree
  <2>7. PlTypeOK'
    BY <1>3, <2>2 DEF PlTypeOK
  <2>8. Nesting'
    <3>1. Len(plStack'[t]) <= 2 /\ Len(plStack'[t]) # 2 /\ plAlive \ {t} \subseteq plAlive'
      BY <1>3, <2>2, <2>3
    <3> QED
      BY <2>2, <2>4, <3>1, NestingKept
  <2>9. Counter'
    BY <1>3, <1>4, <2>5, <2>6 DEF Counter, Busy, PlFree
  <2>10. Call' = "load"
    BY <2>4, <2>5 DEF Call
  <2>11. Threads'
    BY <1>3, <1>4, <2>4, <2>10, PlAssumption DEF PlIInv, Threads, PlFree
  <2> QED
    BY <2>7, <2>8, <2>9, <2>11 DEF PlIInv
<1>5. CASE ~PlFree
  <2>1. PlReturn(t)
    BY <1>5 DEF PlCheck
  <2>2. /\ plStack' \in [PlThread -> Seq(Frames)]
        /\ \A u \in PlThread \ {t} : plStack'[u] = plStack[u]
        /\ Len(plStack'[t]) = Len(plStack[t]) - 1
        /\ \A i \in 1..(Len(plStack[t]) - 1) : plStack'[t][i] = plStack[t][i]
    BY <1>2, <1>3, <2>1, Returned
  <2>3. PlTypeOK' /\ plStack'[t] \in Seq(Frames)
    BY <1>3, <2>2 DEF PlTypeOK
  <2>4. CASE Len(plStack[t]) = 1
    <3>1. t = "program" /\ t \notin PlWorker /\ Call = "called"
      BY <1>2, <2>4, OnlyTheProgram DEF Call
    <3>2. Len(plStack'[t]) = 0 /\ plStack'[t] = <<>>
      BY <2>2, <2>3, <2>4, EmptySeq
    <3>3. Call' = "idle"
      BY <3>1, <3>2 DEF Call, Outer
    <3>4. Counter' /\ Threads'
      BY <1>3, <2>2, <3>1, <3>3, ProgramMoves
    <3>5. Nesting'
      <4>1. Len(plStack'[t]) <= 2 /\ Len(plStack'[t]) # 2 /\ plAlive \ {t} \subseteq plAlive'
        BY <1>3, <3>2
      <4> QED
        BY <2>2, <3>1, <4>1, NestingKept
    <3> QED
      BY <2>3, <3>4, <3>5 DEF PlIInv
  <2>5. CASE Len(plStack[t]) = 2
    <3>1. Len(plStack'[t]) = 1 /\ plStack'[t][1] = plStack[t][1] /\ plStack'[t] # <<>>
      <4>1. Len(plStack[t]) - 1 = 1 /\ 1 \in 1..(Len(plStack[t]) - 1)
        BY <2>5
      <4>2. Len(plStack'[t]) = 1 /\ plStack'[t][1] = plStack[t][1]
        BY <2>2, <4>1
      <4> QED
        BY <4>2, EmptySeq
    <3>2. Outer(t)' = Outer(t) /\ Outer(t) = "polling"
      BY <1>2, <2>5, <3>1 DEF Outer
    <3>3. \A u \in PlThread : Outer(u)' = Outer(u)
                              /\ (plStack[u] # <<>> => plStack'[u][1] = plStack[u][1])
      BY <2>2, <3>1, <3>2 DEF Outer
    <3>4. Counter' /\ Threads'
      BY <1>3, <3>3, SameCalls
    <3>5. t \in PlWorker => Busy(t)' /\ t \in plAlive'
      BY <1>3, <3>2 DEF PlIInv, Nesting, Busy
    <3>6. Nesting'
      <4>1. Len(plStack'[t]) <= 2 /\ Len(plStack'[t]) # 2 /\ plAlive \ {t} \subseteq plAlive'
        BY <1>3, <3>1
      <4> QED
        BY <2>2, <3>5, <4>1, NestingKept
    <3> QED
      BY <2>3, <3>4, <3>6 DEF PlIInv
  <2> QED
    BY <1>2, <2>4, <2>5
<1> QED
  BY <1>4, <1>5

(* A thread on the way into a poll goes on from one place to the next. *)
LEMMA Onward ==
  ASSUME PlIInv, NEW t \in PlThread, NEW place \in {"load", "store"}, PlAt(t, place),
         NEW p \in Frames, PlGoto(t, p), p.at \in {"store", "polling"},
         UNCHANGED <<plData, plActive, plAlive>>
  PROVE  /\ plStack' \in [PlThread -> Seq(Frames)]
         /\ \A u \in PlThread \ {t} : plStack'[u] = plStack[u] /\ Outer(u)' = Outer(u)
         /\ plStack'[t][1] = p /\ Outer(t)' = p.at /\ Outer(t) = place
         /\ Last(plStack[t]) = plStack[t][1]
         /\ Nesting' /\ Threads'
<1>1. /\ plStack[t] # <<>> /\ Len(plStack[t]) = 1 /\ Outer(t) = place
      /\ Last(plStack[t]) = plStack[t][1]
  BY Innermost DEF Places
<1>2. PlTypeOK /\ plStack' = [plStack EXCEPT ![t] = Append(Front(@), p)]
  BY DEF PlIInv, PlGoto
<1>3. /\ plStack' \in [PlThread -> Seq(Frames)]
      /\ \A u \in PlThread \ {t} : plStack'[u] = plStack[u]
      /\ Len(plStack'[t]) = Len(plStack[t]) /\ plStack'[t] # <<>>
      /\ plStack'[t][Len(plStack[t])] = p
  BY <1>1, <1>2, Gone
<1>4. Len(plStack'[t]) <= 2 /\ Len(plStack'[t]) # 2 /\ plStack'[t][1] = p
  BY <1>1, <1>3
<1>5. Outer(t)' = p.at /\ \A u \in PlThread \ {t} : Outer(u)' = Outer(u)
  BY <1>3, <1>4 DEF Outer
<1>6. t \in PlWorker => Busy(t)' /\ t \in plAlive'
  BY <1>1, <1>5 DEF PlIInv, Nesting, Busy
<1>7. plAlive \ {t} \subseteq plAlive'
  OBVIOUS
<1>8. Nesting'
  BY <1>3, <1>4, <1>6, <1>7, NestingKept
<1>9. \A u \in PlThread : Busy(u)' <=> Busy(u)
  BY <1>1, <1>5 DEF Busy
<1>10. CASE t = "program"
  <2>1. Call = place /\ Call' = p.at
    BY <1>1, <1>5, <1>10 DEF Call
  <2>2. Threads'
    BY <1>9, <1>10, <2>1 DEF PlIInv, Threads
  <2> QED
    BY <1>1, <1>3, <1>4, <1>5, <1>8, <2>2
<1>11. CASE t # "program"
  <2>1. "program" \in PlThread
    BY DEF PlThread
  <2>2. Call' = Call /\ Of' = Of
    BY <1>3, <1>5, <1>11, <2>1 DEF Call, Of
  <2>3. Threads'
    BY <1>9, <2>1, <2>2 DEF PlIInv, Threads
  <2> QED
    BY <1>1, <1>3, <1>4, <1>5, <1>8, <2>3
<1> QED
  BY <1>10, <1>11

LEMMA LoadStep ==
  ASSUME PlIInv, NEW t \in PlThread, PlLoad(t)
  PROVE  PlIInv'
<1> DEFINE p == [PlPlace("store") EXCEPT !.read = plPolling]
<1>1. p \in Frames /\ p.at = "store" /\ p.read = plPolling
  <2>1. plPolling \in Nat /\ "store" \in Places /\ PlNone \in PlWorker \cup {PlNone}
    BY DEF Places, PlIInv, PlTypeOK
  <2> QED
    BY <2>1, FramesAre
<1>2. PlAt(t, "load") /\ PlGoto(t, p) /\ UNCHANGED <<plPolling, plData, plActive, plAlive>>
  BY DEF PlLoad
<1> HIDE DEF p
<1>3. /\ plStack' \in [PlThread -> Seq(Frames)]
      /\ \A u \in PlThread \ {t} : plStack'[u] = plStack[u] /\ Outer(u)' = Outer(u)
      /\ plStack'[t][1] = p /\ Outer(t)' = "store" /\ Outer(t) = "load"
      /\ Nesting' /\ Threads'
  BY <1>1, <1>2, Onward
<1>4. PlTypeOK'
  BY <1>2, <1>3 DEF PlIInv, PlTypeOK
<1>5. \A u \in PlThread : Busy(u)' <=> Busy(u)
  BY <1>3 DEF Busy
<1>6. \A u \in PlThread : Outer(u) # "polling"
  BY <1>3 DEF PlIInv, Counter, Busy
<1>7. plPolling = 0
  BY <1>6 DEF PlIInv, Counter
<1>8. Counter'
  BY <1>1, <1>2, <1>3, <1>5, <1>6, <1>7 DEF PlIInv, Counter
<1> QED
  BY <1>3, <1>4, <1>8 DEF PlIInv

LEMMA StoreStep ==
  ASSUME PlIInv, NEW t \in PlThread, PlStore(t)
  PROVE  PlIInv'
<1> DEFINE p == PlPlace("polling")
<1>1. p \in Frames /\ p.at = "polling"
  BY FramesAre DEF Places
<1>2. PlAt(t, "store") /\ UNCHANGED <<plData, plActive, plAlive>>
  BY DEF PlStore
<1>3. Outer(t) = "store" /\ Last(plStack[t]) = plStack[t][1]
  BY <1>2, Innermost DEF Places
<1>4. Last(plStack[t]).read + 1 = 1
  BY <1>3 DEF PlIInv, Counter
<1>5. plPolling' = 1 /\ PlGoto(t, p)
  BY <1>4 DEF PlStore
<1> HIDE DEF p
<1>6. /\ plStack' \in [PlThread -> Seq(Frames)]
      /\ \A u \in PlThread \ {t} : plStack'[u] = plStack[u] /\ Outer(u)' = Outer(u)
      /\ plStack'[t][1] = p /\ Outer(t)' = "polling"
      /\ Nesting' /\ Threads'
  BY <1>1, <1>2, <1>5, Onward
<1>7. PlTypeOK'
  BY <1>2, <1>5, <1>6 DEF PlIInv, PlTypeOK
<1>8. \A u \in PlThread : Busy(u)' <=> Busy(u)
  BY <1>3, <1>6 DEF Busy
<1>9. Counter'
  <2>1. \A u, x \in PlThread : Busy(u)' /\ Busy(x)' => u = x
    BY <1>8 DEF PlIInv, Counter
  <2>2. \A u \in PlThread : Outer(u)' = "store" => plStack'[u][1].read = 0
    BY <1>6 DEF PlIInv, Counter
  <2> QED
    BY <1>5, <1>6, <2>1, <2>2 DEF Counter
<1> QED
  BY <1>6, <1>7, <1>9 DEF PlIInv

LEMMA LeaveStep ==
  ASSUME PlIInv, NEW t \in PlThread, PlLeave(t)
  PROVE  PlIInv'
<1>1. plStack[t] # <<>> /\ Len(plStack[t]) = 1 /\ Outer(t) = "polling"
  BY Innermost DEF PlLeave, PlInside, Places
<1>2. /\ PlTypeOK /\ PlReturn(t) /\ plPolling' = 0
      /\ UNCHANGED <<plData, plActive, plAlive>>
  BY DEF PlIInv, PlLeave
<1>3. /\ plStack' \in [PlThread -> Seq(Frames)]
      /\ \A u \in PlThread \ {t} : plStack'[u] = plStack[u]
      /\ Len(plStack'[t]) = Len(plStack[t]) - 1
  BY <1>1, <1>2, Returned
<1>4. plStack'[t] = <<>> /\ Len(plStack'[t]) = 0
  BY <1>1, <1>3, EmptySeq
<1>5. Outer(t)' = "idle" /\ \A u \in PlThread \ {t} : Outer(u)' = Outer(u)
  BY <1>3, <1>4 DEF Outer
<1>6. PlTypeOK'
  BY <1>2, <1>3 DEF PlTypeOK
<1>7. Nesting'
  <2>1. Len(plStack'[t]) <= 2 /\ Len(plStack'[t]) # 2 /\ plAlive \ {t} \subseteq plAlive'
    BY <1>2, <1>4
  <2> QED
    BY <1>3, <1>5, <2>1, NestingKept
<1>8. \A u \in PlThread \ {t} : ~Busy(u)
  BY <1>1 DEF PlIInv, Counter, Busy
<1>9. \A u \in PlThread : ~Busy(u)'
  BY <1>5, <1>8 DEF Busy
<1>10. Counter'
  BY <1>2, <1>9 DEF Counter, Busy
<1>11. "program" \in PlThread
  BY DEF PlThread
<1>12. CASE t = "program"
  <2>1. Call = "polling" /\ Call' = "idle"
    BY <1>1, <1>5, <1>12 DEF Call
  <2>2. Threads'
    BY <1>2, <1>9, <1>11, <2>1 DEF PlIInv, Threads
  <2> QED
    BY <1>6, <1>7, <1>10, <2>2 DEF PlIInv
<1>13. CASE t # "program"
  <2>1. Call' = Call /\ Of' = Of
    BY <1>3, <1>5, <1>11, <1>13 DEF Call, Of
  <2>2. Threads'
    BY <1>2, <1>9, <1>11, <2>1 DEF PlIInv, Threads
  <2> QED
    BY <1>6, <1>7, <1>10, <2>2 DEF PlIInv
<1> QED
  BY <1>12, <1>13

(* There is one thread at most, and none while the program is in a poll. *)
LEMMA OneWorker ==
  ASSUME PlIInv, NEW w \in plAlive
  PROVE  /\ ~Busy("program")
         /\ \A u \in PlThread \ {w} : Outer(u) = "idle" \/ (u = "program" /\ ~Busy(u))
<1>1. w \in PlWorker
  BY DEF PlIInv, PlTypeOK
<1>2. ~Busy("program")
  BY <1>1, PlAssumption DEF PlIInv, Threads, Busy, Call
<1>3. ASSUME NEW u \in PlThread \ {w}, u # "program", Outer(u) # "idle"
      PROVE  FALSE
  <2>1. u \in plAlive /\ u \in PlWorker
    BY <1>3, BusyWorker
  <2> QED
    BY <1>1, <1>3, <2>1, PlAssumption DEF PlIInv, Threads
<1> QED
  BY <1>2, <1>3

LEMMA LoopStep ==
  ASSUME PlIInv, NEW w \in PlWorker, PlLoop(w)
  PROVE  PlIInv'
<1> DEFINE p == PlPlace("load")
<1>1. p \in Frames /\ p.at = "load"
  BY FramesAre DEF Places
<1>2. w \in plAlive /\ plStack[w] = <<>> /\ UNCHANGED <<plPolling, plData, plActive>>
  BY DEF PlLoop
<1>3. PlTypeOK /\ w \in PlThread /\ w # "program" /\ "program" \in PlThread /\ Outer(w) = "idle"
  BY <1>2, PlAssumption DEF PlIInv, PlThread, Outer
<1>4. CASE plActive[w]
  <2>1. plStack' = [plStack EXCEPT ![w] = Append(@, p)] /\ UNCHANGED plAlive
    BY <1>4 DEF PlLoop, PlEnter
  <2> HIDE DEF p
  <2>2. /\ plStack' \in [PlThread -> Seq(Frames)]
        /\ \A u \in PlThread \ {w} : plStack'[u] = plStack[u]
        /\ Len(plStack'[w]) = Len(plStack[w]) + 1 /\ plStack'[w] # <<>>
        /\ plStack'[w][Len(plStack[w]) + 1] = p
    BY <1>1, <1>3, <2>1, Entered
  <2>3. Len(plStack'[w]) = 1 /\ plStack'[w][1] = p
    BY <1>2, <2>2
  <2>4. Outer(w)' = "load" /\ \A u \in PlThread \ {w} : Outer(u)' = Outer(u)
    BY <1>1, <2>2, <2>3 DEF Outer
  <2>5. PlTypeOK'
    BY <1>2, <1>3, <2>1, <2>2 DEF PlTypeOK
  <2>6. Nesting'
    <3>1. Len(plStack'[w]) <= 2 /\ Len(plStack'[w]) # 2 /\ plAlive \ {w} \subseteq plAlive'
      <4>1. Len(plStack'[w]) <= 2 /\ Len(plStack'[w]) # 2
        BY <2>3
      <4> QED
        BY <2>1, <4>1
    <3>2. Busy(w)' /\ w \in plAlive'
      BY <1>2, <2>1, <2>4 DEF Busy
    <3> QED
      BY <1>3, <2>2, <3>1, <3>2, NestingKept
  <2>7. \A u \in PlThread \ {w} : ~Busy(u)
    BY <1>2, OneWorker DEF Busy
  <2>8. \A u \in PlThread : Outer(u) # "polling"
    BY <1>3, <2>7 DEF Busy
  <2>9. Counter'
    BY <1>2, <2>4, <2>7, <2>8 DEF PlIInv, Counter, Busy
  <2>10. Call' = Call /\ Of' = Of /\ (Busy("program")' <=> Busy("program"))
    BY <1>3, <2>2, <2>4 DEF Call, Of, Busy
  <2>11. Threads'
    BY <1>2, <2>1, <2>10 DEF PlIInv, Threads
  <2> QED
    BY <2>5, <2>6, <2>9, <2>11 DEF PlIInv
<1>5. CASE ~plActive[w]
  <2>1. plAlive' = plAlive \ {w} /\ UNCHANGED plStack
    BY <1>5 DEF PlLoop
  <2>2. PlTypeOK'
    BY <1>2, <1>3, <2>1 DEF PlTypeOK
  <2>3. \A u \in PlThread : Outer(u)' = Outer(u) /\ (Busy(u)' <=> Busy(u)) /\ plStack'[u] = plStack[u]
    BY <2>1 DEF Outer, Busy
  <2>4. Nesting'
    <3>1. /\ Len(plStack'[w]) <= 2 /\ Len(plStack'[w]) # 2 /\ plAlive \ {w} \subseteq plAlive'
          /\ Outer(w)' = "idle"
      <4>1. Len(plStack'[w]) = 0
        BY <1>2, <1>3, <2>3, EmptySeq
      <4>2. Len(plStack'[w]) <= 2 /\ Len(plStack'[w]) # 2
        BY <4>1
      <4>3. Outer(w)' = "idle"
        BY <1>3, <2>3
      <4> QED
        BY <2>1, <4>2, <4>3
    <3> QED
      BY <1>3, <2>3, <3>1, NestingKept
  <2>5. Counter'
    BY <1>2, <2>1, <2>3 DEF PlIInv, Counter
  <2>6. Call = "join" /\ Call' = Call /\ Of' = Of
    BY <1>2, <1>3, <1>5, <2>3 DEF PlIInv, Threads, Call, Of
  <2>7. Threads'
    BY <1>2, <1>3, <2>1, <2>3, <2>6 DEF PlIInv, Threads
  <2> QED
    BY <2>2, <2>4, <2>5, <2>7 DEF PlIInv
<1> QED
  BY <1>4, <1>5

(* Where handlers do no more than poll, only the program, between two      *)
(* calls, starts and stops the thread.                                     *)
LEMMA StartStep ==
  ASSUME PlMay = {}, PlIInv, NEW t \in PlThread, PlStart(t)
  PROVE  PlIInv'
<1>1. t = "program" /\ plStack[t] = <<>> /\ t \notin PlWorker
  BY PlAssumption DEF PlStart, PlMayCall
<1>2. PlTypeOK /\ UNCHANGED <<plPolling, plData>> /\ Call = "idle"
  BY <1>1 DEF PlIInv, PlStart, Call, Outer
<1>3. CASE plData # PlNone
  <2>1. UNCHANGED <<plActive, plAlive, plStack>>
    BY <1>3 DEF PlStart
  <2> QED
    BY <1>2, <2>1 DEF PlIInv, PlTypeOK, Nesting, Counter, Threads, Outer, Busy, Call, Of
<1>4. CASE plData = PlNone
  <2>1. PICK w \in PlWorker \ plAlive :
          /\ plActive' = [plActive EXCEPT ![w] = TRUE] /\ plAlive' = plAlive \cup {w}
          /\ PlEnter(t, [PlPlace("created") EXCEPT !.whom = w])
    BY <1>4 DEF PlStart
  <2> DEFINE p == [PlPlace("created") EXCEPT !.whom = w]
  <2>2. p \in Frames /\ p.at = "created" /\ p.whom = w
    <3>1. "created" \in Places /\ w \in PlWorker \cup {PlNone} /\ 0 \in Nat
      BY DEF Places
    <3> QED
      BY <3>1, FramesAre
  <2>3. plStack' = [plStack EXCEPT ![t] = Append(@, p)]
    BY <2>1 DEF PlEnter
  <2> HIDE DEF p
  <2>4. /\ plStack' \in [PlThread -> Seq(Frames)]
        /\ \A u \in PlThread \ {t} : plStack'[u] = plStack[u]
        /\ Len(plStack'[t]) = Len(plStack[t]) + 1 /\ plStack'[t] # <<>>
        /\ plStack'[t][Len(plStack[t]) + 1] = p
    BY <1>2, <2>2, <2>3, Entered
  <2>5. Len(plStack'[t]) = 1 /\ plStack'[t][1] = p
    BY <1>1, <2>4
  <2>6. Outer(t)' = "created" /\ \A u \in PlThread \ {t} : Outer(u)' = Outer(u)
    BY <2>2, <2>4, <2>5 DEF Outer
  <2>7. PlTypeOK'
    <3>1. plActive' \in [PlWorker -> BOOLEAN] /\ plAlive' \subseteq PlWorker
      BY <1>2, <2>1 DEF PlTypeOK
    <3> QED
      BY <1>2, <2>4, <3>1 DEF PlTypeOK
  <2>8. Nesting'
    <3>1. Len(plStack'[t]) <= 2 /\ Len(plStack'[t]) # 2 /\ plAlive \ {t} \subseteq plAlive'
      BY <2>1, <2>5
    <3> QED
      BY <1>1, <2>4, <3>1, NestingKept
  <2>9. \A u \in PlThread : Busy(u)' <=> Busy(u)
    BY <1>1, <1>2, <2>6 DEF Busy, Call
  <2>10. Counter'
    <3>1. Outer(t) = "idle"
      BY <1>1, <1>2 DEF Call
    <3> QED
      BY <1>2, <2>4, <2>6, <2>9, <3>1 DEF PlIInv, Counter
  <2>11. plAlive = {}
    BY <1>2, <1>4, PlAssumption DEF PlIInv, Threads, PlTypeOK
  <2>12. Call' = "created" /\ Of' = w
    BY <1>1, <2>2, <2>5, <2>6 DEF Call, Of
  <2>13. plAlive' = {w} /\ plActive'[w]
    BY <1>2, <2>1, <2>11 DEF PlTypeOK
  <2>14. Threads'
    BY <1>2, <1>4, <2>12, <2>13, <2>9, PlAssumption DEF Threads, Busy, Call
  <2> QED
    BY <2>7, <2>8, <2>10, <2>14 DEF PlIInv
<1> QED
  BY <1>3, <1>4

(* The program comes back from a call about the thread. *)
LEMMA BackFrom ==
  ASSUME PlIInv, NEW t \in PlThread, NEW place \in {"created", "join"}, PlAt(t, place), PlReturn(t),
         UNCHANGED <<plPolling, plActive, plAlive>>
  PROVE  /\ t = "program" /\ Call = place /\ Call' = "idle" /\ Last(plStack[t]).whom = Of
         /\ plStack' \in [PlThread -> Seq(Frames)]
         /\ Nesting' /\ Counter' /\ ~Busy("program")'
<1>1. /\ plStack[t] # <<>> /\ Len(plStack[t]) = 1 /\ Outer(t) = place
      /\ Last(plStack[t]) = plStack[t][1]
  BY Innermost DEF Places
<1>2. t = "program" /\ t \notin PlWorker
  BY <1>1, OnlyTheProgram
<1>3. PlTypeOK
  BY DEF PlIInv
<1>4. /\ plStack' \in [PlThread -> Seq(Frames)]
      /\ \A u \in PlThread \ {t} : plStack'[u] = plStack[u]
      /\ Len(plStack'[t]) = Len(plStack[t]) - 1
  BY <1>1, <1>3, Returned
<1>5. plStack'[t] = <<>> /\ Len(plStack'[t]) = 0
  BY <1>1, <1>4, EmptySeq
<1>6. Outer(t)' = "idle" /\ \A u \in PlThread \ {t} : Outer(u)' = Outer(u)
  BY <1>4, <1>5 DEF Outer
<1>7. Nesting'
  <2>1. Len(plStack'[t]) <= 2 /\ Len(plStack'[t]) # 2 /\ plAlive \ {t} \subseteq plAlive'
    BY <1>5
  <2> QED
    BY <1>2, <1>4, <2>1, NestingKept
<1>8. \A u \in PlThread : Busy(u)' <=> Busy(u)
  BY <1>1, <1>6 DEF Busy
<1>9. Counter'
  BY <1>1, <1>4, <1>6, <1>8 DEF PlIInv, Counter
<1> QED
  BY <1>1, <1>2, <1>4, <1>6, <1>7, <1>9 DEF Call, Of, Busy

LEMMA NoteStep ==
  ASSUME PlIInv, NEW t \in PlThread, PlNote(t)
  PROVE  PlIInv'
<1>1. /\ PlAt(t, "created") /\ PlReturn(t) /\ plData' = Last(plStack[t]).whom
      /\ UNCHANGED <<plPolling, plActive, plAlive>>
  BY DEF PlNote
<1>2. /\ t = "program" /\ Call = "created" /\ Call' = "idle" /\ plData' = Of
      /\ plStack' \in [PlThread -> Seq(Frames)]
      /\ Nesting' /\ Counter' /\ ~Busy("program")'
  BY <1>1, BackFrom
<1>3. Of \in plAlive /\ Of \in PlWorker /\ plData = PlNone
  BY <1>2 DEF PlIInv, Threads, PlTypeOK
<1>4. PlTypeOK'
  BY <1>1, <1>2, <1>3 DEF PlIInv, PlTypeOK
<1>5. Threads'
  BY <1>1, <1>2, <1>3, PlAssumption DEF PlIInv, Threads, PlTypeOK
<1> QED
  BY <1>2, <1>4, <1>5 DEF PlIInv

LEMMA JoinStep ==
  ASSUME PlIInv, NEW t \in PlThread, PlJoin(t)
  PROVE  PlIInv'
<1>1. /\ PlAt(t, "join") /\ PlReturn(t) /\ plData' = PlNone /\ Last(plStack[t]).whom \notin plAlive
      /\ UNCHANGED <<plPolling, plActive, plAlive>>
  BY DEF PlJoin, PlAwaits
<1>2. /\ t = "program" /\ Call = "join" /\ Call' = "idle" /\ Of \notin plAlive
      /\ plStack' \in [PlThread -> Seq(Frames)]
      /\ Nesting' /\ Counter' /\ ~Busy("program")'
  BY <1>1, BackFrom
<1>3. plAlive = {}
  BY <1>2 DEF PlIInv, Threads
<1>4. PlTypeOK'
  BY <1>1, <1>2 DEF PlIInv, PlTypeOK
<1>5. Threads'
  BY <1>1, <1>2, <1>3, PlAssumption DEF PlIInv, Threads
<1> QED
  BY <1>2, <1>4, <1>5 DEF PlIInv

LEMMA StopStep ==
  ASSUME PlMay = {}, PlIInv, NEW t \in PlThread, PlStop(t)
  PROVE  PlIInv'
<1>1. t = "program" /\ plStack[t] = <<>> /\ t \notin PlWorker
  BY PlAssumption DEF PlStop, PlMayCall
<1>2. PlTypeOK /\ UNCHANGED <<plPolling, plData, plAlive>> /\ Call = "idle"
  BY <1>1 DEF PlIInv, PlStop, Call, Outer
<1>3. CASE plData = PlNone \/ ~plActive[plData]
  <2>1. UNCHANGED <<plActive, plStack>>
    BY <1>3 DEF PlStop
  <2> QED
    BY <1>2, <2>1 DEF PlIInv, PlTypeOK, Nesting, Counter, Threads, Outer, Busy, Call, Of
<1>4. CASE ~(plData = PlNone \/ ~plActive[plData])
  <2>1. plData \in PlWorker /\ t # plData
    BY <1>1, <1>2, <1>4 DEF PlTypeOK
  <2> DEFINE p == [PlPlace("join") EXCEPT !.whom = plData]
  <2>2. p \in Frames /\ p.at = "join" /\ p.whom = plData
    <3>1. "join" \in Places /\ plData \in PlWorker \cup {PlNone} /\ 0 \in Nat
      BY <2>1 DEF Places
    <3> QED
      BY <3>1, FramesAre
  <2>3. plActive' = [plActive EXCEPT ![plData] = FALSE] /\ plStack' = [plStack EXCEPT ![t] = Append(@, p)]
    BY <1>4, <2>1 DEF PlStop, PlEnter
  <2> HIDE DEF p
  <2>4. /\ plStack' \in [PlThread -> Seq(Frames)]
        /\ \A u \in PlThread \ {t} : plStack'[u] = plStack[u]
        /\ Len(plStack'[t]) = Len(plStack[t]) + 1 /\ plStack'[t] # <<>>
        /\ plStack'[t][Len(plStack[t]) + 1] = p
    BY <1>2, <2>2, <2>3, Entered
  <2>5. Len(plStack'[t]) = 1 /\ plStack'[t][1] = p
    BY <1>1, <2>4
  <2>6. Outer(t)' = "join" /\ \A u \in PlThread \ {t} : Outer(u)' = Outer(u)
    BY <2>2, <2>4, <2>5 DEF Outer
  <2>7. PlTypeOK'
    <3>1. plActive' \in [PlWorker -> BOOLEAN]
      BY <1>2, <2>1, <2>3 DEF PlTypeOK
    <3> QED
      BY <1>2, <2>4, <3>1 DEF PlTypeOK
  <2>8. Nesting'
    <3>1. Len(plStack'[t]) <= 2 /\ Len(plStack'[t]) # 2 /\ plAlive \ {t} \subseteq plAlive'
      BY <1>2, <2>5
    <3> QED
      BY <1>1, <2>4, <3>1, NestingKept
  <2>9. \A u \in PlThread : Busy(u)' <=> Busy(u)
    BY <1>1, <1>2, <2>6 DEF Busy, Call
  <2>10. Counter'
    <3>1. Outer(t) = "idle"
      BY <1>1, <1>2 DEF Call
    <3> QED
      BY <1>2, <2>4, <2>6, <2>9, <3>1 DEF PlIInv, Counter
  <2>11. Call' = "join" /\ Of' = plData
    BY <1>1, <2>2, <2>5, <2>6 DEF Call, Of
  <2>12. Threads'
    BY <1>2, <2>1, <2>9, <2>11 DEF PlIInv, Threads, Busy, Call
  <2> QED
    BY <2>7, <2>8, <2>10, <2>12 DEF PlIInv
<1> QED
  BY <1>3, <1>4

-----------------------------------------------------------------------------
(* Results *)

LEMMA PollingInvariant ==
  ASSUME PlMay = {}
  PROVE  PlSpec => []PlIInv
<1>1. PlInit => PlIInv
  <2> SUFFICES ASSUME PlInit PROVE PlIInv
    OBVIOUS
  <2>1. \A t \in PlThread : plStack[t] = <<>> /\ Outer(t) = "idle" /\ ~Busy(t)
    BY DEF PlInit, Outer, Busy
  <2>2. PlTypeOK
    <3>1. plStack \in [PlThread -> Seq(Frames)]
      BY EmptySeq DEF PlInit
    <3> QED
      BY <3>1 DEF PlInit, PlTypeOK
  <2>3. Nesting
    <3>1. \A t \in PlThread : Len(plStack[t]) = 0
      BY <2>1, EmptySeq
    <3>2. \A n : n = 0 => n <= 2 /\ n # 2
      OBVIOUS
    <3>3. \A t \in PlThread : Len(plStack[t]) <= 2 /\ Len(plStack[t]) # 2
      BY <3>1, <3>2, Zenon
    <3> QED
      BY <2>1, <3>3 DEF Nesting, PlThread
  <2>4. Counter
    BY <2>1 DEF PlInit, Counter
  <2>5. Threads
    BY <2>1, PlAssumption DEF PlInit, Threads, Call, PlThread
  <2> QED
    BY <2>2, <2>3, <2>4, <2>5 DEF PlIInv
<1>2. PlIInv /\ [PlNext]_plVars => PlIInv'
  <2> SUFFICES ASSUME PlIInv, [PlNext]_plVars PROVE PlIInv'
    OBVIOUS
  <2>1. CASE UNCHANGED plVars
    BY <2>1, StutterStep
  <2>2. ASSUME NEW t \in PlThread, PlPoll(t)
        PROVE  PlIInv'
    BY <2>2, PollStep
  <2>3. ASSUME NEW t \in PlThread, PlCheck(t)
        PROVE  PlIInv'
    BY <2>3, CheckStep
  <2>4. ASSUME NEW t \in PlThread, PlLoad(t)
        PROVE  PlIInv'
    BY <2>4, LoadStep
  <2>5. ASSUME NEW t \in PlThread, PlStore(t)
        PROVE  PlIInv'
    BY <2>5, StoreStep
  <2>6. ASSUME NEW t \in PlThread, PlLeave(t)
        PROVE  PlIInv'
    BY <2>6, LeaveStep
  <2>7. ASSUME NEW t \in PlThread, PlStart(t)
        PROVE  PlIInv'
    BY <2>7, StartStep
  <2>8. ASSUME NEW t \in PlThread, PlNote(t)
        PROVE  PlIInv'
    BY <2>8, NoteStep
  <2>9. ASSUME NEW t \in PlThread, PlStop(t)
        PROVE  PlIInv'
    BY <2>9, StopStep
  <2>10. ASSUME NEW t \in PlThread, PlJoin(t)
         PROVE  PlIInv'
    BY <2>10, JoinStep
  <2>11. ASSUME NEW w \in PlWorker, PlLoop(w)
         PROVE  PlIInv'
    BY <2>11, LoopStep
  <2> QED
    BY <2>1, <2>2, <2>3, <2>4, <2>5, <2>6, <2>7, <2>8, <2>9, <2>10, <2>11 DEF PlNext
<1> QED
  BY <1>1, <1>2, PTL DEF PlSpec

LEMMA AloneFromInvariant == PlIInv => PlAlone
<1> SUFFICES ASSUME PlIInv PROVE PlAlone
  OBVIOUS
<1>1. ASSUME NEW t \in PlThread, NEW i \in DOMAIN plStack[t], plStack[t][i].at = "polling"
      PROVE  i = 1 /\ Outer(t) = "polling"
  <2>1. plStack[t] \in Seq(Frames) /\ i \in 1..Len(plStack[t]) /\ Len(plStack[t]) \in Nat
    BY <1>1, LenProperties DEF PlIInv, PlTypeOK
  <2>2. Len(plStack[t]) <= 2 /\ (Len(plStack[t]) = 2 => plStack[t][2].at = "called")
    BY DEF PlIInv, Nesting
  <2>3. i = 1
    <3>1. \A n \in Nat : \A k \in 1..n : n <= 2 => k = 1 \/ (k = 2 /\ n = 2)
      OBVIOUS
    <3>2. i = 1 \/ (i = 2 /\ Len(plStack[t]) = 2)
      BY <2>1, <2>2, <3>1
    <3> QED
      BY <1>1, <2>2, <3>2
  <2>4. plStack[t] # <<>>
    BY <2>1, EmptySeq
  <2> QED
    BY <1>1, <2>3, <2>4 DEF Outer
<1>2. ASSUME NEW t \in PlThread, NEW u \in PlThread,
             NEW i \in DOMAIN plStack[t], NEW j \in DOMAIN plStack[u],
             plStack[t][i].at = "polling", plStack[u][j].at = "polling"
      PROVE  t = u /\ i = j
  <2>1. i = 1 /\ j = 1 /\ Busy(t) /\ Busy(u)
    BY <1>1, <1>2 DEF Busy
  <2> QED
    BY <2>1 DEF PlIInv, Counter
<1>3. ASSUME plStack["program"] = <<>>, plData = PlNone
      PROVE  plAlive = {}
  BY <1>3, PlAssumption DEF PlIInv, PlTypeOK, Threads, Call, Outer
<1>4. ASSUME plStack["program"] = <<>>, plAlive = {}
      PROVE  PlFree
  <2>1. Call = "idle"
    BY <1>4 DEF Call, Outer
  <2>2. plData = PlNone
    BY <1>4, <2>1 DEF PlIInv, PlTypeOK, Threads
  <2>3. \A t \in PlThread : Outer(t) # "polling"
    BY <1>4, <2>1 DEF PlIInv, Nesting, PlThread, Call
  <2> QED
    BY <2>2, <2>3 DEF PlIInv, Counter, PlFree
<1> QED
  BY <1>2, <1>3, <1>4 DEF PlAlone

(* No two polls are ever under way at once, in one thread or in two, for   *)
(* any number of threads and calls and however the thread's loop and the   *)
(* program's calls interleave: neither a handler that polls nor a program  *)
(* that polls while its thread does gets in, and after a stop the counter  *)
(* is as before (mpr_net_poll, mpr_net_start_polling and                   *)
(* mpr_net_stop_polling of src/network.c).  The one hypothesis is that     *)
(* handlers neither start nor stop the thread.                             *)
THEOREM PollsAreAlone ==
  ASSUME PlMay = {}
  PROVE  PlSpec => []PlAlone
BY PollingInvariant, AloneFromInvariant, PTL

-----------------------------------------------------------------------------
(***************************************************************************)
(* Where no call is made in the middle of another, messages go where their *)
(* callers said, for any peers, any kinds of subscriptions, bundles of any *)
(* size, and any number of calls.                                          *)
(*                                                                         *)
(* What is left to do is looked at as a sequence: whatever adds a message  *)
(* comes after the step that chose its destination, with nothing between   *)
(* the two that sends, drops or chooses again, or, while the bundle is     *)
(* renewed, after the step that opens it (Served).                         *)
(***************************************************************************)

ObSpec == ObInit /\ [][ObNext]_obVars

Remote == {ObBus} \cup {ObMesh(p) : p \in ObPeer} \cup {ObSubs(k) : k \in ObKind}
ObPlaces == Remote \cup {ObLocal}
Doings ==
  {"use", "use_at", "set", "send", "receive", "init", "add", "put", "tell_each", "drop",
   "handler"}
ObSteps == {s \in [do : Doings, to : ObPlaces \cup SUBSET Remote] :
            IF s.do = "tell_each" THEN s.to \in SUBSET Remote ELSE s.to \in ObPlaces}

Does(s, what) == s.do \in what
To(s)         == s.to
Fills(s)      == Does(s, {"add", "put"})
Chooses(s)    == Does(s, {"use", "use_at", "set"})
Locally(s)    == Does(s, {"use", "use_at"}) /\ To(s) = ObLocal

(* Between the m-th and the i-th step the destination stays, and the       *)
(* bundle is open.                                                         *)
Keeps(T, m, i) == \A k \in m + 1 .. i - 1 : Fills(T[k]) \/ Does(T[k], {"handler"})

(* The bundle is opened anew by the m-th step, for the same destination. *)
Renews(T, m) ==
  Does(T[m], {"init"}) /\ \A k \in 1 .. m - 1 : Does(T[k], {"send", "receive", "init"})

(* When the first i - 1 of the steps T are done, there is an open bundle   *)
(* for p: it was chosen on the way, or it is open now, or renewed, and for *)
(* d, which is p.                                                          *)
Serves(T, d, open, i, p) ==
  \/ \E j \in 1 .. i - 1 : Chooses(T[j]) /\ To(T[j]) = p /\ Keeps(T, j, i)
  \/ d = p /\ open /\ Keeps(T, 0, i)
  \/ d = p /\ \E m \in 1 .. i - 1 : Renews(T, m) /\ Keeps(T, m, i)

(* A destination is set only when what was in the bundle is gone, or was   *)
(* for the same.                                                           *)
Settable(T, d, open, i) ==
  /\ \A k \in 1 .. i - 1 : Does(T[k], {"send", "receive"})
  /\ open => d = To(T[i]) \/ \E k \in 1 .. i - 1 : Does(T[k], {"send"})

(* A message is added where it is served.  The process itself is chosen    *)
(* first in a call, when nothing waits for the bus.                        *)
Orderly(T, d, open, i) ==
  /\ Fills(T[i]) => Serves(T, d, open, i, To(T[i]))
  /\ Does(T[i], {"set"}) => Settable(T, d, open, i)
  /\ Locally(T[i]) => i = 1 /\ ~(open /\ d = ObBus)

Orders(T, d, open) == \A i \in 1 .. Len(T) : Orderly(T, d, open, i)

(* What is in the bundle is for its destination. *)
Uniform == /\ obMsgs \in Seq({obDst})
           /\ ~obOpen => obMsgs = <<>>

ObTypeOK == obOpen \in BOOLEAN /\ obDst \in ObPlaces /\ obTodo \in Seq(ObSteps)

ObIInv ==
  /\ ObTypeOK /\ Uniform
  /\ Orders(obTodo, obDst, obOpen)
  /\ obLost = {} /\ \A x \in obSent : x[1] = x[2]

-----------------------------------------------------------------------------
(* Steps that are done, and those put in their place *)

(* Where the steps S take the place of the first of T. *)
LEMMA Replaced ==
  ASSUME NEW T \in Seq(ObSteps), T # <<>>, NEW S \in Seq(ObSteps), NEW U, U = S \o Tail(T)
  PROVE  /\ U \in Seq(ObSteps) /\ Len(S) \in Nat /\ Len(T) \in Nat
         /\ Len(U) = Len(S) + Len(T) - 1
         /\ \A i \in 1 .. Len(S) : U[i] = S[i]
         /\ \A i \in 2 .. Len(T) : U[i - 1 + Len(S)] = T[i]
         /\ Len(T) >= 1 /\ T[1] = Head(T)
         /\ \A i \in 1 .. Len(T) : T[i] \in ObSteps
<1>1. /\ Tail(T) \in Seq(ObSteps) /\ Len(T) \in Nat /\ Len(Tail(T)) = Len(T) - 1
      /\ \A i \in 1 .. Len(Tail(T)) : Tail(T)[i] = T[i + 1]
  BY HeadTailProperties, LenProperties
<1>2. /\ U \in Seq(ObSteps) /\ Len(S) \in Nat /\ Len(U) = Len(S) + Len(Tail(T))
      /\ \A i \in 1 .. Len(U) : U[i] = IF i <= Len(S) THEN S[i] ELSE Tail(T)[i - Len(S)]
  BY <1>1, ConcatProperties, LenProperties
<1>3. ASSUME NEW i \in 2 .. Len(T)
      PROVE  U[i - 1 + Len(S)] = T[i]
  <2>1. i - 1 + Len(S) \in 1 .. Len(U) /\ ~(i - 1 + Len(S) <= Len(S))
    BY <1>1, <1>2
  <2>2. U[i - 1 + Len(S)] = Tail(T)[i - 1 + Len(S) - Len(S)]
    BY <1>2, <2>1
  <2>3. i - 1 + Len(S) - Len(S) = i - 1 /\ i - 1 \in 1 .. Len(Tail(T)) /\ i - 1 + 1 = i
    BY <1>1, <1>2
  <2> QED  BY <1>1, <2>2, <2>3
<1>4. Len(T) >= 1 /\ T[1] = Head(T) /\ \A i \in 1 .. Len(T) : T[i] \in ObSteps
  BY <1>1, ElementOfSeq, EmptySeq, LenProperties
<1> QED  BY <1>1, <1>2, <1>3, <1>4

(* One more. *)
Longer(U, S, x) == U = S \o <<x>>
LEMMA Behind ==
  ASSUME NEW S \in Seq(ObSteps), NEW x \in ObSteps, NEW U, Longer(U, S, x)
  PROVE  /\ U \in Seq(ObSteps) /\ Len(S) \in Nat /\ Len(U) = Len(S) + 1
         /\ U[Len(S) + 1] = x /\ \A i \in 1 .. Len(S) : U[i] = S[i]
<1>1. <<x>> \in Seq(ObSteps) /\ Len(<<x>>) = 1 /\ <<x>>[1] = x
  OBVIOUS
<1>2. /\ U \in Seq(ObSteps) /\ Len(S) \in Nat /\ Len(U) = Len(S) + 1
      /\ \A i \in 1 .. Len(S) + 1 : U[i] = IF i <= Len(S) THEN S[i] ELSE <<x>>[i - Len(S)]
  BY <1>1, ConcatProperties, LenProperties DEF Longer
<1> QED  BY <1>1, <1>2

(* What a step S of the sequence says does not depend on what follows. *)
LEMMA Prefix ==
  ASSUME NEW S, NEW U, NEW i \in Nat, \A k \in 1 .. i : U[k] = S[k],
         NEW d, NEW open
  PROVE  /\ \A p : Serves(S, d, open, i + 1, p) => Serves(U, d, open, i + 1, p)
         /\ i > 0 /\ Orderly(S, d, open, i) => Orderly(U, d, open, i)
<1>1. ASSUME NEW n \in 1 .. i + 1, NEW m \in 0 .. n - 1, Keeps(S, m, n)
      PROVE  Keeps(U, m, n)
  BY <1>1 DEF Keeps
<1>2. ASSUME NEW n \in 1 .. i + 1, NEW m \in 1 .. n - 1, Renews(S, m)
      PROVE  Renews(U, m)
  BY <1>2 DEF Renews
<1>3. ASSUME NEW n \in 1 .. i + 1, NEW p, Serves(S, d, open, n, p)
      PROVE  Serves(U, d, open, n, p)
  <2>1. ASSUME NEW j \in 1 .. n - 1, Chooses(S[j]), To(S[j]) = p, Keeps(S, j, n)
        PROVE  Serves(U, d, open, n, p)
    <3>1. Keeps(U, j, n) /\ U[j] = S[j]
      BY <1>1, <2>1
    <3> QED  BY <2>1, <3>1 DEF Serves
  <2>2. ASSUME d = p, open, Keeps(S, 0, n)
        PROVE  Serves(U, d, open, n, p)
    <3>1. Keeps(U, 0, n)
      BY <1>1, <2>2
    <3> QED  BY <2>2, <3>1 DEF Serves
  <2>3. ASSUME d = p, NEW m \in 1 .. n - 1, Renews(S, m), Keeps(S, m, n)
        PROVE  Serves(U, d, open, n, p)
    <3>1. Keeps(U, m, n) /\ Renews(U, m)
      BY <1>1, <1>2, <2>3
    <3> QED  BY <2>3, <3>1 DEF Serves
  <2> QED  BY <1>3, <2>1, <2>2, <2>3 DEF Serves
<1>4. ASSUME i > 0, Orderly(S, d, open, i)
      PROVE  Orderly(U, d, open, i)
  <2>1. U[i] = S[i] /\ i \in 1 .. i + 1
    BY <1>4
  <2>2. Fills(U[i]) => Serves(U, d, open, i, To(U[i]))
    BY <1>3, <1>4, <2>1 DEF Orderly
  <2>3. Does(U[i], {"set"}) => Settable(U, d, open, i)
    BY <1>4, <2>1 DEF Orderly, Settable
  <2> QED  BY <1>4, <2>1, <2>2, <2>3 DEF Orderly
<1> QED  BY <1>3, <1>4

(* A step x behind others. *)
LEMMA Extended ==
  ASSUME NEW S \in Seq(ObSteps), NEW x \in ObSteps, NEW U, Longer(U, S, x),
         NEW d, NEW open, Orders(S, d, open),
         ~Does(x, {"set"}), ~Locally(x),
         Fills(x) => Serves(S, d, open, Len(S) + 1, To(x))
  PROVE  /\ U \in Seq(ObSteps) /\ Orders(U, d, open) /\ Len(U) = Len(S) + 1
         /\ Chooses(x) => Serves(U, d, open, Len(U) + 1, To(x))
         /\ Fills(x) \/ Does(x, {"handler"}) =>
              \A p : Serves(S, d, open, Len(S) + 1, p) => Serves(U, d, open, Len(U) + 1, p)
<1> DEFINE n == Len(S)
<1>2. /\ U \in Seq(ObSteps) /\ n \in Nat /\ Len(U) = n + 1
  BY Behind
<1>3. U[n + 1] = x /\ \A i \in 1 .. n : U[i] = S[i]
  BY Behind
<1>4a. \A i \in 1 .. n : Orderly(S, d, open, i)
  BY DEF Orders
<1> HIDE DEF n
<1>4. ASSUME NEW i \in 1 .. n
      PROVE  Orderly(U, d, open, i)
  <2>1. Orderly(S, d, open, i)
    BY <1>4a
  <2> QED  BY <1>2, <1>3, <2>1, Prefix
<1>5. \A p : Serves(S, d, open, n + 1, p) => Serves(U, d, open, n + 1, p)
  BY <1>2, <1>3, Prefix
<1>6. Orderly(U, d, open, n + 1)
  BY <1>3, <1>5 DEF Orderly, n
<1>7. Orders(U, d, open)
  BY <1>2, <1>4, <1>6 DEF Orders
<1>8. Chooses(x) => Serves(U, d, open, n + 2, To(x))
  <2>1. n + 1 \in 1 .. (n + 2) - 1 /\ Keeps(U, n + 1, n + 2)
    BY <1>2 DEF Keeps
  <2> QED  BY <1>3, <2>1 DEF Serves
<1>9. ASSUME Fills(x) \/ Does(x, {"handler"}), NEW p, Serves(S, d, open, n + 1, p)
      PROVE  Serves(U, d, open, n + 2, p)
  <2>1. Serves(U, d, open, n + 1, p)
    BY <1>5, <1>9
  <2>2. \A m \in 0 .. n : Keeps(U, m, n + 1) => Keeps(U, m, n + 2)
    BY <1>2, <1>3, <1>9 DEF Keeps
  <2> QED  BY <1>2, <2>1, <2>2 DEF Serves
<1> QED  BY <1>2, <1>7, <1>8, <1>9 DEF n

(* Where the first of the steps T is done and S are in its place, they     *)
(* have to serve whom the first served.                                    *)
LEMMA Proceeds ==
  ASSUME NEW T \in Seq(ObSteps), T # <<>>, NEW S \in Seq(ObSteps), NEW U, U = S \o Tail(T),
         NEW d, NEW open, NEW e, NEW now,
         Orders(T, d, open), Orders(S, e, now),
         Chooses(T[1]) => Serves(S, e, now, Len(S) + 1, To(T[1])),
         (Fills(T[1]) \/ Does(T[1], {"handler"})) /\ open => Serves(S, e, now, Len(S) + 1, d),
         Does(T[1], {"init"}) => Serves(S, e, now, Len(S) + 1, d),
         Does(T[1], {"send", "receive", "init"}) =>
           e = d /\ \A k \in 1 .. Len(S) : Does(S[k], {"send", "receive", "init"}),
         Does(T[1], {"send"}) => ~now /\ \A k \in 1 .. Len(S) : Does(S[k], {"receive"}),
         Does(T[1], {"receive"}) => now = open /\ Len(S) = 0
  PROVE  U \in Seq(ObSteps) /\ Orders(U, e, now)
<1> DEFINE n == Len(S)
<1>1. /\ U \in Seq(ObSteps) /\ n \in Nat /\ Len(T) \in Nat
      /\ Len(U) = n + Len(T) - 1
      /\ \A k \in 1 .. n : U[k] = S[k]
      /\ \A k \in 2 .. Len(T) : U[k - 1 + n] = T[k]
  BY Replaced
<1>2. \A p : Serves(S, e, now, n + 1, p) => Serves(U, e, now, n + 1, p)
  BY <1>1, Prefix
<1>3a. \A i \in 1 .. n : Orderly(S, e, now, i)
  BY DEF Orders
<1> HIDE DEF n
<1>3. ASSUME NEW i \in 1 .. n
      PROVE  Orderly(U, e, now, i)
  <2>1. Orderly(S, e, now, i) /\ i \in Nat /\ i > 0 /\ \A k \in 1 .. i : U[k] = S[k]
    BY <1>1, <1>3a
  <2> QED  BY <2>1, Prefix
<1>4. ASSUME NEW i \in 2 .. Len(T), NEW m \in 1 .. i - 1, Keeps(T, m, i)
      PROVE  Keeps(U, m - 1 + n, i - 1 + n)
  <2>1. ASSUME NEW k \in (m - 1 + n) + 1 .. (i - 1 + n) - 1
        PROVE  Fills(U[k]) \/ Does(U[k], {"handler"})
    <3>1. PICK l \in m + 1 .. i - 1 : l = k + 1 - n
      BY <1>1
    <3>2. l - 1 + n = k /\ l \in 2 .. Len(T)
      BY <1>1, <3>1
    <3> QED  BY <1>1, <1>4, <3>1, <3>2 DEF Keeps
  <2> QED  BY <2>1 DEF Keeps
<1>5. ASSUME NEW i \in 2 .. Len(T), Keeps(T, 1, i), NEW p, Serves(S, e, now, n + 1, p)
      PROVE  Serves(U, e, now, i - 1 + n, p)
  <2>1. Keeps(U, n, i - 1 + n)
    BY <1>1, <1>4, <1>5
  <2>2. Serves(U, e, now, n + 1, p)
    BY <1>2, <1>5
  <2>3. ASSUME NEW m \in 0 .. n, Keeps(U, m, n + 1)
        PROVE  Keeps(U, m, i - 1 + n)
    <3>1. ASSUME NEW k \in m + 1 .. (i - 1 + n) - 1
          PROVE  Fills(U[k]) \/ Does(U[k], {"handler"})
      <4>1. k \in m + 1 .. (n + 1) - 1 \/ k \in n + 1 .. (i - 1 + n) - 1
        BY <1>1
      <4> QED  BY <2>1, <2>3, <4>1 DEF Keeps
    <3> QED  BY <3>1 DEF Keeps
  <2>4. 1 .. (n + 1) - 1 \subseteq 1 .. (i - 1 + n) - 1 /\ 1 .. (n + 1) - 1 \subseteq 0 .. n /\ 0 \in 0 .. n
    BY <1>1
  <2> QED  BY <2>2, <2>3, <2>4 DEF Serves
<1>6. ASSUME NEW i \in 2 .. Len(T), NEW p, Serves(T, d, open, i, p)
      PROVE  Serves(U, e, now, i - 1 + n, p)
  <2>1. ASSUME NEW j \in 1 .. i - 1, Chooses(T[j]), To(T[j]) = p, Keeps(T, j, i)
        PROVE  Serves(U, e, now, i - 1 + n, p)
    <3>1. CASE j = 1
      BY <1>5, <2>1, <3>1 DEF n
    <3>2. CASE j # 1
      <4>1. j \in 2 .. Len(T) /\ j - 1 + n \in 1 .. (i - 1 + n) - 1
        BY <1>1, <3>2
      <4>2. U[j - 1 + n] = T[j] /\ Keeps(U, j - 1 + n, i - 1 + n)
        BY <1>1, <1>4, <2>1, <4>1
      <4> QED  BY <2>1, <4>1, <4>2 DEF Serves
    <3> QED  BY <3>1, <3>2
  <2>2. ASSUME d = p, open, Keeps(T, 0, i)
        PROVE  Serves(U, e, now, i - 1 + n, p)
    <3>1. Keeps(T, 1, i) /\ (Fills(T[1]) \/ Does(T[1], {"handler"}))
      BY <1>1, <2>2 DEF Keeps
    <3> QED  BY <1>5, <2>2, <3>1 DEF n
  <2>3. ASSUME d = p, NEW m \in 1 .. i - 1, Renews(T, m), Keeps(T, m, i)
        PROVE  Serves(U, e, now, i - 1 + n, p)
    <3>1. CASE m = 1
      <4>1. Does(T[1], {"init"})
        BY <2>3, <3>1 DEF Renews
      <4> QED  BY <1>5, <2>3, <3>1, <4>1 DEF n
    <3>2. CASE m # 1
      <4>1. m \in 2 .. Len(T) /\ m - 1 + n \in 1 .. (i - 1 + n) - 1
        BY <1>1, <3>2
      <4>2. U[m - 1 + n] = T[m] /\ Keeps(U, m - 1 + n, i - 1 + n)
        BY <1>1, <1>4, <2>3, <4>1
      <4>3. Does(T[1], {"send", "receive", "init"})
        BY <2>3, <4>1 DEF Renews
      <4>4. e = d /\ \A k \in 1 .. n : Does(U[k], {"send", "receive", "init"})
        BY <1>1, <4>3 DEF n
      <4>5. ASSUME NEW k \in 1 .. (m - 1 + n) - 1
            PROVE  Does(U[k], {"send", "receive", "init"})
        <5>1. CASE k <= n
          BY <1>1, <4>4, <5>1
        <5>2. CASE ~(k <= n)
          <6>1. PICK l \in 2 .. m - 1 : l = k + 1 - n
            BY <1>1, <4>1, <5>2
          <6>2. l - 1 + n = k /\ l \in 2 .. Len(T) /\ l \in 1 .. m - 1
            BY <1>1, <4>1, <6>1
          <6> QED  BY <1>1, <2>3, <6>2 DEF Renews
        <5> QED  BY <5>1, <5>2
      <4>6. Renews(U, m - 1 + n)
        BY <2>3, <4>2, <4>5 DEF Renews
      <4> QED  BY <2>3, <4>1, <4>2, <4>4, <4>6 DEF Serves
    <3> QED  BY <3>1, <3>2
  <2> QED  BY <1>6, <2>1, <2>2, <2>3 DEF Serves
<1>7. ASSUME NEW i \in 2 .. Len(T)
      PROVE  Orderly(U, e, now, i - 1 + n)
  <2>1. Orderly(T, d, open, i) /\ U[i - 1 + n] = T[i]
    BY <1>1 DEF Orders
  <2>2. Fills(U[i - 1 + n]) => Serves(U, e, now, i - 1 + n, To(U[i - 1 + n]))
    BY <1>6, <2>1 DEF Orderly
  <2>3. ASSUME Does(T[i], {"set"})
        PROVE  Settable(U, e, now, i - 1 + n)
    <3>1. Settable(T, d, open, i)
      BY <2>1, <2>3 DEF Orderly
    <3>2. Does(T[1], {"send", "receive"})
      BY <1>1, <3>1 DEF Settable
    <3>3. e = d /\ (now => open) /\ \A k \in 1 .. n : Does(U[k], {"send", "receive"})
      BY <1>1, <3>2 DEF n, Does
    <3>4. ASSUME NEW k \in 1 .. (i - 1 + n) - 1
          PROVE  Does(U[k], {"send", "receive"})
      <4>1. CASE k <= n
        BY <1>1, <3>3, <4>1
      <4>2. CASE ~(k <= n)
        <5>1. PICK l \in 2 .. i - 1 : l = k + 1 - n
          BY <1>1, <4>2
        <5>2. l - 1 + n = k /\ l \in 2 .. Len(T) /\ l \in 1 .. i - 1
          BY <1>1, <5>1
        <5> QED  BY <1>1, <3>1, <5>2 DEF Settable
      <4> QED  BY <4>1, <4>2
    <3>5. ASSUME now
          PROVE  e = To(T[i]) \/ \E k \in 1 .. (i - 1 + n) - 1 : Does(U[k], {"send"})
      <4>1. Does(T[1], {"receive"}) /\ n = 0 /\ open
        BY <3>2, <3>3, <3>5 DEF n, Does
      <4>2. ASSUME NEW k \in 1 .. i - 1, Does(T[k], {"send"})
            PROVE  \E l \in 1 .. (i - 1 + n) - 1 : Does(U[l], {"send"})
        <5>1. k # 1
          BY <4>1, <4>2
        <5>2. k - 1 \in 1 .. (i - 1 + n) - 1 /\ U[k - 1] = T[k]
          BY <1>1, <4>1, <5>1
        <5> QED  BY <4>2, <5>2
      <4> QED  BY <3>1, <3>3, <4>1, <4>2 DEF Settable
    <3> QED  BY <2>1, <3>4, <3>5 DEF Settable
  <2>4. ~Locally(T[i])
    BY <2>1 DEF Orderly
  <2> QED  BY <2>1, <2>2, <2>3, <2>4 DEF Orderly
<1>8. ASSUME NEW i \in 1 .. Len(U)
      PROVE  Orderly(U, e, now, i)
  <2>1. CASE i <= n
    BY <1>1, <1>3, <2>1 DEF n
  <2>2. CASE ~(i <= n)
    <3>1. PICK k \in 2 .. Len(T) : k = i + 1 - n
      BY <1>1, <2>2
    <3>2. i = k - 1 + n
      BY <1>1, <3>1
    <3> QED  BY <1>7, <3>2
  <2> QED  BY <2>1, <2>2
<1> QED  BY <1>1, <1>8 DEF Orders

-----------------------------------------------------------------------------
(* Single steps, and none *)

Step(w, p) == [do |-> w, to |-> p]

LEMMA StepIs ==
  ASSUME NEW w \in Doings, w # "tell_each", NEW p \in ObPlaces
  PROVE  /\ Step(w, p) \in ObSteps /\ To(Step(w, p)) = p
         /\ \A W : Does(Step(w, p), W) <=> w \in W
BY DEF ObSteps, To, Does, Step

LEMMA TellEachIs ==
  ASSUME NEW D \in SUBSET Remote
  PROVE  /\ Step("tell_each", D) \in ObSteps /\ To(Step("tell_each", D)) = D
         /\ \A W : Does(Step("tell_each", D), W) <=> "tell_each" \in W
BY DEF ObSteps, To, Does, Doings, Step

LEMMA OneStep ==
  ASSUME NEW x \in ObSteps
  PROVE  <<x>> \in Seq(ObSteps) /\ Len(<<x>>) = 1 /\ <<x>>[1] = x
OBVIOUS

Two(x, y) == <<x>> \o <<y>>

LEMMA TwoSteps ==
  ASSUME NEW x \in ObSteps, NEW y \in ObSteps
  PROVE  /\ Two(x, y) \in Seq(ObSteps) /\ Len(Two(x, y)) = 2
         /\ Two(x, y)[1] = x /\ Two(x, y)[2] = y
<1>1. <<x>> \in Seq(ObSteps) /\ Len(<<x>>) = 1 /\ <<x>>[1] = x
  BY OneStep
<1>2. PICK S : S = <<x>>
  OBVIOUS
<1>3. S \in Seq(ObSteps) /\ Len(S) = 1 /\ S[1] = x
  BY <1>1, <1>2
<1>4. <<y>> \in Seq(ObSteps) /\ Len(<<y>>) = 1 /\ <<y>>[1] = y
  BY OneStep
<1>5. PICK V : V = <<y>>
  OBVIOUS
<1>6. V \in Seq(ObSteps) /\ Len(V) = 1 /\ V[1] = y
  BY <1>4, <1>5
<1>7. /\ S \o V \in Seq(ObSteps) /\ Len(S \o V) = 2
      /\ \A i \in 1 .. 2 : (S \o V)[i] = IF i <= 1 THEN S[i] ELSE V[i - 1]
  BY <1>3, <1>6, ConcatProperties
<1>8. (S \o V)[1] = x /\ (S \o V)[2] = y
  BY <1>3, <1>6, <1>7
<1> QED  BY <1>2, <1>5, <1>7, <1>8 DEF Two

Three(x, y, z) == Two(x, y) \o <<z>>

LEMMA ThreeSteps ==
  ASSUME NEW x \in ObSteps, NEW y \in ObSteps, NEW z \in ObSteps
  PROVE  /\ Three(x, y, z) \in Seq(ObSteps) /\ Len(Three(x, y, z)) = 3
         /\ Three(x, y, z)[1] = x /\ Three(x, y, z)[2] = y /\ Three(x, y, z)[3] = z
<1>1. /\ Two(x, y) \in Seq(ObSteps) /\ Len(Two(x, y)) = 2
      /\ Two(x, y)[1] = x /\ Two(x, y)[2] = y
  BY TwoSteps
<1>2. PICK S : S = Two(x, y)
  OBVIOUS
<1>3. Longer(Three(x, y, z), S, z)
  BY <1>2 DEF Longer, Three
<1>4. /\ S \in Seq(ObSteps) /\ Len(S) = 2 /\ S[1] = x /\ S[2] = y
  BY <1>1, <1>2
<1>6. PICK U : U = Three(x, y, z)
  OBVIOUS
<1>7. Longer(U, S, z)
  BY <1>3, <1>6
<1>8. S \in Seq(ObSteps)
  BY <1>4
<1>5. /\ U \in Seq(ObSteps) /\ Len(U) = Len(S) + 1 /\ U[Len(S) + 1] = z
      /\ \A i \in 1 .. Len(S) : U[i] = S[i]
  BY <1>7, <1>8, Behind
<1> QED  BY <1>4, <1>5, <1>6

(* Nothing to do is in order, and leaves what is open. *)
LEMMA NoStep ==
  ASSUME NEW d, NEW open
  PROVE  /\ <<>> \in Seq(ObSteps) /\ Len(<<>>) = 0 /\ Orders(<<>>, d, open)
         /\ open => Serves(<<>>, d, open, Len(<<>>) + 1, d)
<1>1. <<>> \in Seq(ObSteps) /\ Len(<<>>) = 0
  BY EmptySeq
<1>2. Orders(<<>>, d, open)
  BY <1>1 DEF Orders
<1>3. Keeps(<<>>, 0, 1)
  BY DEF Keeps
<1> QED  BY <1>1, <1>2, <1>3 DEF Serves

-----------------------------------------------------------------------------
(* Calls: the steps S are a plan, and a plan is ready to add for p *)

Plan(S, d, open) == S \in Seq(ObSteps) /\ Orders(S, d, open)
Ready(S, d, open, p) == Plan(S, d, open) /\ Serves(S, d, open, Len(S) + 1, p)

LEMMA RemoteIs ==
  /\ \A p \in Remote : p \in ObPlaces /\ p # ObLocal
  /\ ObBus \in Remote /\ ObLocal \in ObPlaces
  /\ \A q \in ObPeer : ObMesh(q) \in Remote
  /\ \A k \in ObKind : ObSubs(k) \in Remote
<1>1. ObBus # ObLocal
  BY DEF ObBus, ObLocal
<1>2. \A q : ObMesh(q) # ObLocal
  <2>1. \A q : Len(ObMesh(q)) = 2
    BY DEF ObMesh
  <2>2. Len(ObLocal) = 1
    BY DEF ObLocal
  <2> QED  BY <2>1, <2>2
<1>3. \A q : ObSubs(q) # ObLocal
  <2>1. \A q : Len(ObSubs(q)) = 2
    BY DEF ObSubs
  <2>2. Len(ObLocal) = 1
    BY DEF ObLocal
  <2> QED  BY <2>1, <2>2
<1> QED  BY <1>1, <1>2, <1>3 DEF Remote, ObPlaces

LEMMA Uses ==
  ASSUME NEW d, NEW open, NEW S, Plan(S, d, open), NEW p \in Remote, NEW w \in {"use", "use_at"}
  PROVE  Ready(S \o <<[do |-> w, to |-> p]>>, d, open, p)
<1>1. PICK x : x = Step(w, p)
  OBVIOUS
<1>2. w \in Doings /\ w # "tell_each" /\ p \in ObPlaces /\ p # ObLocal
  BY RemoteIs DEF Doings
<1>3. x \in ObSteps /\ To(x) = p /\ \A W : Does(x, W) <=> w \in W
  BY <1>1, <1>2, StepIs
<1>4. /\ ~Does(x, {"set"}) /\ ~Locally(x) /\ ~Fills(x) /\ Chooses(x)
  BY <1>2, <1>3 DEF Locally, Fills, Chooses
<1>5. PICK U : U = S \o <<x>>
  OBVIOUS
<1>6. Longer(U, S, x)
  BY <1>5 DEF Longer
<1>7. Ready(U, d, open, p)
  BY <1>3, <1>4, <1>6, Extended DEF Plan, Ready
<1> QED  BY <1>1, <1>5, <1>7 DEF Step

LEMMA Adds ==
  ASSUME NEW d, NEW open, NEW p \in ObPlaces, NEW S, Ready(S, d, open, p)
  PROVE  Ready(S \o ObAdd(p), d, open, p)
<1>1. PICK x : x = Step("add", p)
  OBVIOUS
<1>3. x \in ObSteps /\ To(x) = p /\ \A W : Does(x, W) <=> "add" \in W
  BY <1>1, StepIs DEF Doings
<1>4. /\ ~Does(x, {"set"}) /\ ~Locally(x) /\ Fills(x)
  BY <1>3 DEF Locally, Fills
<1>5. PICK U : U = S \o <<x>>
  OBVIOUS
<1>6. Longer(U, S, x)
  BY <1>5 DEF Longer
<1>7. Ready(U, d, open, p)
  BY <1>3, <1>4, <1>6, Extended DEF Plan, Ready
<1> QED  BY <1>1, <1>5, <1>7 DEF Step, ObAdd

LEMMA Tells ==
  ASSUME NEW d, NEW open, NEW S, Plan(S, d, open), NEW p \in Remote
  PROVE  Ready(S \o ObTell(p), d, open, p)
<1>1. Ready(S \o ObUse(p), d, open, p)
  BY Uses DEF ObUse
<1>2. Ready((S \o ObUse(p)) \o ObAdd(p), d, open, p)
  BY <1>1, Adds DEF ObPlaces
<1>3. S \in Seq(ObSteps) /\ ObUse(p) \in Seq(ObSteps) /\ ObAdd(p) \in Seq(ObSteps)
  BY StepIs, OneStep DEF Plan, ObUse, ObAdd, Doings, ObPlaces, Step
<1>4. S \o ObTell(p) = (S \o ObUse(p)) \o ObAdd(p)
  BY <1>3, ConcatAssociative DEF ObTell
<1> QED  BY <1>2, <1>4

LEMMA TellsEach ==
  ASSUME NEW d, NEW open, NEW S, Plan(S, d, open), NEW D \in SUBSET Remote
  PROVE  Plan(S \o ObTellEach(D), d, open)
<1>1. PICK x : x = Step("tell_each", D)
  OBVIOUS
<1>3. x \in ObSteps /\ To(x) = D /\ \A W : Does(x, W) <=> "tell_each" \in W
  BY <1>1, TellEachIs
<1>4. /\ ~Does(x, {"set"}) /\ ~Locally(x) /\ ~Fills(x)
  BY <1>3 DEF Locally, Fills
<1>5. PICK U : U = S \o <<x>>
  OBVIOUS
<1>6. Longer(U, S, x)
  BY <1>5 DEF Longer
<1>7. Plan(U, d, open)
  BY <1>3, <1>4, <1>6, Extended DEF Plan
<1> QED  BY <1>1, <1>5, <1>7 DEF Step, ObTellEach

LEMMA Does1 ==
  ASSUME NEW d, NEW open, NEW S, Plan(S, d, open), NEW w \in {"send", "drop", "handler"}
  PROVE  /\ Plan(S \o ObDo(w), d, open)
         /\ w = "handler" => \A p : Ready(S, d, open, p) => Ready(S \o ObDo(w), d, open, p)
<1>1. PICK x : x = Step(w, ObBus)
  OBVIOUS
<1>2. w \in Doings /\ w # "tell_each" /\ ObBus \in ObPlaces
  BY DEF Doings, ObPlaces, Remote
<1>3. x \in ObSteps /\ To(x) = ObBus /\ \A W : Does(x, W) <=> w \in W
  BY <1>1, <1>2, StepIs
<1>4. /\ ~Does(x, {"set"}) /\ ~Locally(x) /\ ~Fills(x) /\ (w = "handler" => Does(x, {"handler"}))
  BY <1>3 DEF Locally, Fills
<1>5. PICK U : U = S \o <<x>>
  OBVIOUS
<1>6. Longer(U, S, x)
  BY <1>5 DEF Longer
<1>7. Plan(U, d, open)
  BY <1>3, <1>4, <1>6, Extended DEF Plan
<1>8. ASSUME w = "handler", NEW p, Ready(S, d, open, p)
      PROVE  Ready(U, d, open, p)
  BY <1>3, <1>4, <1>6, <1>8, Extended DEF Plan, Ready
<1> QED  BY <1>1, <1>5, <1>7, <1>8 DEF ObDo, Step

(* A call for others, whatever waits in the bundle. *)
LEMMA CallsPlanned ==
  ASSUME NEW d, NEW open, NEW call \in ObCall
  PROVE  Plan(call, d, open)
<1>1. Plan(<<>>, d, open)
  BY NoStep DEF Plan
<1>2. \A p, S : Ready(S, d, open, p) => Plan(S, d, open)
  BY DEF Ready
<1>3. \A p \in Remote : Ready(ObTell(p), d, open, p)
  <2> SUFFICES ASSUME NEW p \in Remote PROVE Ready(ObTell(p), d, open, p)
    OBVIOUS
  <2>1. Ready(<<>> \o ObTell(p), d, open, p)
    BY <1>1, Tells
  <2>2. ObTell(p) \in Seq(ObSteps)
    BY StepIs, TwoSteps, RemoteIs DEF ObTell, ObUse, ObAdd, Doings, Step, Two
  <2> QED  BY <2>1, <2>2, ConcatEmptySeq
<1>4. \A p \in Remote : Ready(ObUse(p), d, open, p) /\ Ready(ObUseAt(p), d, open, p)
  <2> SUFFICES ASSUME NEW p \in Remote
               PROVE  Ready(ObUse(p), d, open, p) /\ Ready(ObUseAt(p), d, open, p)
    OBVIOUS
  <2>1. Ready(<<>> \o ObUse(p), d, open, p) /\ Ready(<<>> \o ObUseAt(p), d, open, p)
    BY <1>1, Uses DEF ObUse, ObUseAt
  <2>2. ObUse(p) \in Seq(ObSteps) /\ ObUseAt(p) \in Seq(ObSteps)
    BY StepIs, OneStep, RemoteIs DEF ObUse, ObUseAt, Doings, Step
  <2> QED  BY <2>1, <2>2, ConcatEmptySeq
<1>5. ObBus \in Remote
  BY RemoteIs
<1>6. CASE call \in {ObProbe, ObPush}
  <2>1. Plan(ObTell(ObBus), d, open)
    BY <1>2, <1>3, <1>5
  <2>2. Plan(ObTell(ObBus) \o ObDo("send"), d, open)
    BY <2>1, Does1
  <2> QED  BY <1>6, <2>1, <2>2 DEF ObProbe, ObPush
<1>7. ASSUME NEW k \in ObKind, call \in {ObInform(k), ObGiveUp(k), ObHousekeep(k)}
      PROVE  Plan(call, d, open)
  <2>1. ObSubs(k) \in Remote /\ ObSubs(k) \in ObPlaces
    BY RemoteIs
  <2>2. Plan(ObInform(k), d, open)
    BY <1>2, <1>3, <2>1 DEF ObInform
  <2>3. Plan(ObGiveUp(k), d, open)
    <3>1. Ready(ObUse(ObSubs(k)), d, open, ObSubs(k))
      BY <1>4, <2>1
    <3>2. Ready(ObUse(ObSubs(k)) \o ObDo("handler"), d, open, ObSubs(k))
      BY <1>2, <3>1, Does1
    <3>3. Ready((ObUse(ObSubs(k)) \o ObDo("handler")) \o ObAdd(ObSubs(k)), d, open, ObSubs(k))
      BY <2>1, <3>2, Adds
    <3>4. /\ ObUse(ObSubs(k)) \in Seq(ObSteps) /\ ObDo("handler") \in Seq(ObSteps)
          /\ ObAdd(ObSubs(k)) \in Seq(ObSteps)
      BY <2>1, StepIs, OneStep, RemoteIs DEF ObUse, ObDo, ObAdd, Doings, Step
    <3>5. ObGiveUp(k) = (ObUse(ObSubs(k)) \o ObDo("handler")) \o ObAdd(ObSubs(k))
      BY <3>4, ConcatAssociative DEF ObGiveUp
    <3> QED  BY <1>2, <3>3, <3>5
  <2>4. Plan(ObHousekeep(k), d, open)
    <3>1. Plan(<<>> \o ObDo("send"), d, open)
      BY <1>1, Does1
    <3>2. ObDo("send") \in Seq(ObSteps)
      BY StepIs, OneStep, RemoteIs DEF ObDo, Doings, Step
    <3>3. Plan(ObDo("send"), d, open)
      BY <3>1, <3>2, ConcatEmptySeq
    <3>4. Plan(ObDo("send") \o ObTell(ObSubs(k)), d, open)
      BY <1>2, <2>1, <3>3, Tells
    <3>5. Plan((ObDo("send") \o ObTell(ObSubs(k))) \o ObTell(ObBus), d, open)
      BY <1>2, <1>5, <3>4, Tells
    <3>6. ObTell(ObSubs(k)) \in Seq(ObSteps) /\ ObTell(ObBus) \in Seq(ObSteps)
      BY <1>3, <1>5, <2>1 DEF Ready, Plan
    <3>7. ObHousekeep(k) = (ObDo("send") \o ObTell(ObSubs(k))) \o ObTell(ObBus)
      BY <3>2, <3>6, ConcatAssociative DEF ObHousekeep
    <3> QED  BY <3>5, <3>7
  <2> QED  BY <1>7, <2>2, <2>3, <2>4
<1>8. ASSUME NEW k \in ObKind, NEW P \in SUBSET ObPeer, call = ObFreeSig(k, P)
      PROVE  Plan(call, d, open)
  <2>1. ObSubs(k) \in Remote /\ {ObMesh(p) : p \in P} \in SUBSET Remote
    BY RemoteIs
  <2>2. Plan(ObTell(ObSubs(k)), d, open)
    BY <1>2, <1>3, <2>1
  <2> QED  BY <1>8, <2>1, <2>2, TellsEach DEF ObFreeSig
<1>9. ASSUME NEW q \in ObPeer, call \in {ObAnswer(q), ObPing(q), ObSubscribed(q)}
      PROVE  Plan(call, d, open)
  <2> DEFINE p == ObMesh(q)
  <2>1. p \in Remote /\ p \in ObPlaces
    BY RemoteIs
  <2>2. Ready(ObTell(p), d, open, p) /\ Ready(ObUseAt(p), d, open, p)
    BY <1>3, <1>4, <2>1
  <2> HIDE DEF p
  <2>3. /\ ObTell(p) \in Seq(ObSteps) /\ ObUseAt(p) \in Seq(ObSteps)
        /\ ObAdd(p) \in Seq(ObSteps) /\ ObDo("send") \in Seq(ObSteps)
    BY <2>1, <2>2, StepIs, OneStep, RemoteIs DEF ObDo, ObAdd, Doings, Step, Ready, Plan
  <2>4. Ready(ObTell(p) \o ObAdd(p), d, open, p)
    BY <2>1, <2>2, Adds
  <2>5. Plan((ObUseAt(p) \o ObAdd(p)) \o ObDo("send"), d, open)
    <3>1. Ready(ObUseAt(p) \o ObAdd(p), d, open, p)
      BY <2>1, <2>2, Adds
    <3> QED  BY <1>2, <3>1, Does1
  <2>6. Plan(((ObTell(p) \o ObAdd(p)) \o ObAdd(p)) \o ObDo("send"), d, open)
    <3>1. Ready((ObTell(p) \o ObAdd(p)) \o ObAdd(p), d, open, p)
      BY <2>1, <2>4, Adds
    <3> QED  BY <1>2, <3>1, Does1
  <2>7. ObPing(q) = (ObUseAt(p) \o ObAdd(p)) \o ObDo("send")
    BY <2>3, ConcatAssociative DEF ObPing, p
  <2>8. ObSubscribed(q) = ((ObTell(p) \o ObAdd(p)) \o ObAdd(p)) \o ObDo("send")
    BY <2>3, ConcatProperties, ConcatAssociative DEF ObSubscribed, p
  <2> QED  BY <1>2, <1>9, <2>4, <2>5, <2>6, <2>7, <2>8 DEF ObAnswer, p
<1> DEFINE About(k)   == {ObInform(k), ObGiveUp(k), ObHousekeep(k)}
           Freeing    == {ObFreeSig(k, P) : k \in ObKind, P \in SUBSET ObPeer}
           Linked(q)  == {ObAnswer(q), ObPing(q), ObSubscribed(q)}
           Alone      == {ObProbe, ObPush}
           AboutAll   == UNION {About(k) : k \in ObKind}
           LinkedAll  == UNION {Linked(q) : q \in ObPeer}
<1>10. call \in AboutAll => \E k \in ObKind : call \in About(k)
  OBVIOUS
<1>11. call \in Freeing => \E k \in ObKind, P \in SUBSET ObPeer : call = ObFreeSig(k, P)
  OBVIOUS
<1>12. call \in LinkedAll => \E q \in ObPeer : call \in Linked(q)
  OBVIOUS
<1>13. ObCall = ((Alone \cup AboutAll) \cup Freeing) \cup LinkedAll
  BY DEF ObCall
<1>14. call \in Alone \/ call \in AboutAll \/ call \in Freeing \/ call \in LinkedAll
  <2> HIDE DEF Alone, AboutAll, Freeing, LinkedAll
  <2> QED  BY <1>13
<1> QED  BY <1>6, <1>7, <1>8, <1>9, <1>10, <1>11, <1>12, <1>14

LEMMA LeavePlanned ==
  ASSUME NEW d, NEW open
  PROVE  Plan(ObLeave, d, open)
<1>1. Plan(<<>> \o ObDo("drop"), d, open)
  <2>1. Plan(<<>>, d, open)
    BY NoStep DEF Plan
  <2> QED  BY <2>1, Does1
<1>2. ObDo("drop") \in Seq(ObSteps) /\ ObBus \in Remote
  BY StepIs, OneStep, RemoteIs DEF ObDo, Doings, Step
<1>3. Plan(ObDo("drop"), d, open)
  BY <1>1, <1>2, ConcatEmptySeq
<1>4. Plan(ObDo("drop") \o ObTell(ObBus), d, open)
  BY <1>2, <1>3, Tells DEF Ready
<1>5. Plan((ObDo("drop") \o ObTell(ObBus)) \o ObDo("send"), d, open)
  BY <1>4, Does1
<1> QED  BY <1>5 DEF ObLeave

(* A local map is released while nothing waits for the bus. *)
LEMMA ReleasePlanned ==
  ASSUME NEW d, NEW open, ~(open /\ d = ObBus)
  PROVE  Plan(ObReleaseLocal, d, open)
<1>1. PICK x : x = Step("use", ObLocal)
  OBVIOUS
<1>2. x \in ObSteps /\ To(x) = ObLocal /\ \A W : Does(x, W) <=> "use" \in W
  BY <1>1, StepIs, RemoteIs DEF Doings
<1>3. <<x>> \in Seq(ObSteps) /\ Len(<<x>>) = 1 /\ <<x>>[1] = x
  BY <1>2, OneStep
<1>4. ~Fills(x) /\ ~Does(x, {"set"}) /\ Chooses(x)
  BY <1>2 DEF Fills, Chooses
<1>5. Orderly(<<x>>, d, open, 1)
  BY <1>3, <1>4 DEF Orderly
<1>6. Orders(<<x>>, d, open)
  BY <1>3, <1>5 DEF Orders
<1>7. Serves(<<x>>, d, open, 2, ObLocal)
  <2>1. Keeps(<<x>>, 1, 2)
    BY DEF Keeps
  <2> QED  BY <1>2, <1>3, <1>4, <2>1 DEF Serves
<1>8. Ready(<<x>>, d, open, ObLocal)
  BY <1>3, <1>6, <1>7 DEF Ready, Plan
<1>9. Ready(<<x>> \o ObAdd(ObLocal), d, open, ObLocal)
  BY <1>8, Adds, RemoteIs
<1>10. ObReleaseLocal = <<x>> \o ObAdd(ObLocal)
  BY <1>1 DEF ObReleaseLocal, ObTell, ObUse, Step
<1> QED  BY <1>9, <1>10 DEF Ready

-----------------------------------------------------------------------------
(* Every step keeps the order *)

(* The first step, where it is at, is w. *)
LEMMA FirstIs ==
  ASSUME ObIInv, NEW w, ObIs(w)
  PROVE  /\ obTodo # <<>> /\ obTodo[1] \in ObSteps /\ To(obTodo[1]) = ObTo
         /\ \A W : Does(obTodo[1], W) <=> w \in W
         /\ w = "tell_each" => ObTo \in SUBSET Remote
         /\ w # "tell_each" => ObTo \in ObPlaces
         /\ Orderly(obTodo, obDst, obOpen, 1)
         /\ w \in {"add", "put"} => obOpen /\ obDst = ObTo
<1>1. obTodo \in Seq(ObSteps) /\ Orders(obTodo, obDst, obOpen) /\ obTodo # <<>>
  BY DEF ObIInv, ObTypeOK, ObIs
<1>2. Len(obTodo) \in Nat /\ Len(obTodo) >= 1 /\ obTodo[1] = Head(obTodo) /\ obTodo[1] \in ObSteps
  BY <1>1, EmptySeq, LenProperties, HeadTailProperties, ElementOfSeq
<1>3. Orderly(obTodo, obDst, obOpen, 1)
  BY <1>1, <1>2 DEF Orders
<1>4. To(obTodo[1]) = ObTo /\ \A W : Does(obTodo[1], W) <=> w \in W
  BY <1>2 DEF To, ObTo, Does, ObIs
<1>5. /\ w = "tell_each" => ObTo \in SUBSET Remote
      /\ w # "tell_each" => ObTo \in ObPlaces
  BY <1>2 DEF ObSteps, ObTo, ObIs
<1>6. w \in {"add", "put"} => obOpen /\ obDst = ObTo
  BY <1>3, <1>4 DEF Orderly, Serves, Fills
<1> QED  BY <1>1, <1>2, <1>3, <1>4, <1>5, <1>6

(* The steps S, in place of one that does w, serve whom it served. *)
Continues(w, S) ==
  /\ w \in {"use", "use_at", "set"} => Serves(S, obDst', obOpen', Len(S) + 1, ObTo)
  /\ w \in {"add", "put", "handler"} /\ obOpen => Serves(S, obDst', obOpen', Len(S) + 1, obDst)
  /\ w = "init" => Serves(S, obDst', obOpen', Len(S) + 1, obDst)
  /\ w \in {"send", "receive", "init"} =>
       obDst' = obDst /\ \A k \in 1 .. Len(S) : Does(S[k], {"send", "receive", "init"})
  /\ w = "send" => ~obOpen' /\ \A k \in 1 .. Len(S) : Does(S[k], {"receive"})
  /\ w = "receive" => obOpen' = obOpen /\ Len(S) = 0

(* Proceeds, of what there is to do. *)
LEMMA ObOnward ==
  ASSUME ObIInv, NEW w, ObIs(w), NEW S \in Seq(ObSteps), ObThen(S),
         Orders(S, obDst', obOpen'), Continues(w, S)
  PROVE  obTodo' \in Seq(ObSteps) /\ Orders(obTodo', obDst', obOpen')
<1>1. PICK T \in Seq(ObSteps) : T = obTodo
  BY DEF ObIInv, ObTypeOK
<1>2. /\ T # <<>> /\ To(T[1]) = ObTo /\ Orders(T, obDst, obOpen)
      /\ \A W : Does(T[1], W) <=> w \in W
  BY <1>1, FirstIs DEF ObIInv
<1>3. PICK U : U = S \o Tail(T)
  OBVIOUS
<1>4. /\ Chooses(T[1]) <=> w \in {"use", "use_at", "set"}
      /\ Fills(T[1]) \/ Does(T[1], {"handler"}) <=> w \in {"add", "put", "handler"}
      /\ Does(T[1], {"init"}) <=> w = "init"
      /\ Does(T[1], {"send"}) <=> w = "send"
      /\ Does(T[1], {"receive"}) <=> w = "receive"
      /\ Does(T[1], {"send", "receive", "init"}) <=> w \in {"send", "receive", "init"}
  BY <1>2 DEF Chooses, Fills
<1>5. U \in Seq(ObSteps) /\ Orders(U, obDst', obOpen')
  <2>1. /\ Chooses(T[1]) => Serves(S, obDst', obOpen', Len(S) + 1, To(T[1]))
        /\ (Fills(T[1]) \/ Does(T[1], {"handler"})) /\ obOpen =>
             Serves(S, obDst', obOpen', Len(S) + 1, obDst)
        /\ Does(T[1], {"init"}) => Serves(S, obDst', obOpen', Len(S) + 1, obDst)
    BY <1>2, <1>4 DEF Continues
  <2>2. /\ Does(T[1], {"send", "receive", "init"}) =>
             obDst' = obDst /\ \A k \in 1 .. Len(S) : Does(S[k], {"send", "receive", "init"})
        /\ Does(T[1], {"send"}) => ~obOpen' /\ \A k \in 1 .. Len(S) : Does(S[k], {"receive"})
        /\ Does(T[1], {"receive"}) => obOpen' = obOpen /\ Len(S) = 0
    BY <1>4 DEF Continues
  <2> QED  BY <1>2, <1>3, <2>1, <2>2, Proceeds
<1>6. obTodo' = U
  BY <1>1, <1>3 DEF ObThen
<1> QED  BY <1>5, <1>6

(* The same where nothing takes its place. *)
LEMMA Done ==
  ASSUME ObIInv, NEW w \in {"set", "receive", "init", "put", "tell_each", "drop", "handler"},
         ObIs(w), ObThen(<<>>),
         w \in {"set", "init"} => obOpen',
         w = "set" => obDst' = ObTo,
         w \in {"put", "handler"} /\ obOpen => obOpen',
         w # "set" => obDst' = obDst,
         w = "receive" => obOpen' = obOpen
  PROVE  obTodo' \in Seq(ObSteps) /\ Orders(obTodo', obDst', obOpen')
<1>1. /\ <<>> \in Seq(ObSteps) /\ Len(<<>>) = 0 /\ Orders(<<>>, obDst', obOpen')
      /\ obOpen' => Serves(<<>>, obDst', obOpen', Len(<<>>) + 1, obDst')
  BY NoStep
<1>2. PICK S : S = <<>>
  OBVIOUS
<1>3. Continues(w, S)
  BY <1>1, <1>2 DEF Continues
<1> QED  BY <1>1, <1>2, <1>3, ObOnward

LEMMA UseStep ==
  ASSUME ObIInv, ObStepUse
  PROVE  ObIInv'
<1>1. PICK w \in {"use", "use_at"} : ObIs(w)
  BY DEF ObStepUse
<1>2. PICK p \in ObPlaces : p = ObTo
  BY <1>1, FirstIs
<1>3. p = ObLocal => ~(obOpen /\ obDst = ObBus)
  BY <1>1, <1>2, FirstIs DEF Orderly, Locally
<1>5. PICK choose : choose = Step("set", p)
  OBVIOUS
<1>6. choose \in ObSteps /\ To(choose) = p /\ \A W : Does(choose, W) <=> "set" \in W
  BY <1>5, StepIs DEF Doings
<1>7. PICK send : send = Step("send", ObBus)
  OBVIOUS
<1>8. send \in ObSteps /\ \A W : Does(send, W) <=> "send" \in W
  BY <1>7, StepIs, RemoteIs DEF Doings
<1>9. ~Fills(choose) /\ Chooses(choose) /\ ~Locally(choose) /\ ~Fills(send) /\ ~Locally(send)
  BY <1>6, <1>8 DEF Fills, Chooses, Locally
<1>10. PICK S : S = IF obOpen /\ (ObOther(p) \/ ObIs("use_at")) THEN Two(send, choose) ELSE <<choose>>
  OBVIOUS
<1>11. S \in Seq(ObSteps) /\ Orders(S, obDst, obOpen) /\ Serves(S, obDst, obOpen, Len(S) + 1, p)
  <2>1. CASE S = Two(send, choose)
    <3>1. S \in Seq(ObSteps) /\ Len(S) = 2 /\ S[1] = send /\ S[2] = choose
      BY <1>6, <1>8, <2>1, TwoSteps
    <3>2. Orderly(S, obDst, obOpen, 1) /\ Orderly(S, obDst, obOpen, 2)
      BY <1>6, <1>8, <1>9, <3>1 DEF Orderly, Settable
    <3>3. Keeps(S, 2, 3)
      BY DEF Keeps
    <3> QED  BY <1>6, <1>9, <3>1, <3>2, <3>3 DEF Orders, Serves
  <2>2. CASE S # Two(send, choose)
    <3>1. S = <<choose>> /\ ~(obOpen /\ ObOther(p))
      BY <1>10, <2>2
    <3>2. obOpen => obDst = p
      BY <1>3, <3>1 DEF ObOther
    <3>3. S \in Seq(ObSteps) /\ Len(S) = 1 /\ S[1] = choose
      BY <1>6, <3>1, OneStep
    <3>4. Orderly(S, obDst, obOpen, 1)
      BY <1>6, <1>9, <3>2, <3>3 DEF Orderly, Settable
    <3>5. Keeps(S, 1, 2)
      BY DEF Keeps
    <3> QED  BY <1>6, <1>9, <3>3, <3>4, <3>5 DEF Orders, Serves
  <2> QED  BY <2>1, <2>2
<1>12. ObThen(S)
  <2>1. ObThen((IF obOpen /\ (ObOther(p) \/ ObIs("use_at")) THEN ObDo("send") ELSE <<>>)
                 \o <<[do |-> "set", to |-> p]>>)
    BY <1>2 DEF ObStepUse
  <2>2. ObDo("send") \o <<[do |-> "set", to |-> p]>> = Two(send, choose)
    BY <1>5, <1>7 DEF ObDo, Two, Step
  <2>3. <<>> \o <<[do |-> "set", to |-> p]>> = <<choose>>
    BY <1>5, <1>6, OneStep, ConcatEmptySeq DEF Step
  <2> QED  BY <1>10, <2>1, <2>2, <2>3
<1>13. UNCHANGED <<obOpen, obMsgs, obDst, obSent, obLost>>
  BY DEF ObStepUse, obNet
<1>14. obTodo' \in Seq(ObSteps) /\ Orders(obTodo', obDst', obOpen')
  <2>1. Continues(w, S)
    BY <1>2, <1>11, <1>13 DEF Continues
  <2> QED  BY <1>1, <1>11, <1>12, <1>13, <2>1, ObOnward
<1> QED  BY <1>13, <1>14 DEF ObIInv, ObTypeOK, Uniform

LEMMA SetStep ==
  ASSUME ObIInv, ObStepSet
  PROVE  ObIInv'
<1>1. ObIs("set")
  BY DEF ObStepSet
<1>2. PICK p \in ObPlaces : p = ObTo
  BY <1>1, FirstIs
<1>3. obOpen => obDst = p
  <2>1. Does(obTodo[1], {"set"}) /\ To(obTodo[1]) = p /\ Orderly(obTodo, obDst, obOpen, 1)
    BY <1>1, <1>2, FirstIs
  <2> QED  BY <2>1 DEF Orderly, Settable
<1>5. PICK init : init = Step("init", ObBus)
  OBVIOUS
<1>6. init \in ObSteps /\ \A W : Does(init, W) <=> "init" \in W
  BY <1>5, StepIs, RemoteIs DEF Doings
<1>9. ~Fills(init) /\ ~Locally(init)
  BY <1>6 DEF Fills, Locally
<1>10. PICK S : S = IF obOpen THEN <<>> ELSE <<init>>
  OBVIOUS
<1>11. S \in Seq(ObSteps) /\ Orders(S, p, obOpen) /\ Serves(S, p, obOpen, Len(S) + 1, p)
  <2>1. CASE obOpen
    BY <1>10, <2>1, NoStep
  <2>2. CASE ~obOpen
    <3>1. S = <<init>>
      BY <1>10, <2>2
    <3>3. S \in Seq(ObSteps) /\ Len(S) = 1 /\ S[1] = init
      BY <1>6, <3>1, OneStep
    <3>4. Orderly(S, p, obOpen, 1)
      BY <1>6, <1>9, <3>3 DEF Orderly
    <3>5. Keeps(S, 1, 2) /\ Renews(S, 1)
      BY <1>6, <3>3 DEF Keeps, Renews
    <3> QED  BY <3>3, <3>4, <3>5 DEF Orders, Serves
  <2> QED  BY <2>1, <2>2
<1>12. ObThen(S)
  BY <1>5, <1>10 DEF ObStepSet, ObDo, Step
<1>14. obDst' = p /\ UNCHANGED <<obOpen, obMsgs, obSent, obLost>>
  BY <1>2 DEF ObStepSet
<1>13. obTodo' \in Seq(ObSteps) /\ Orders(obTodo', obDst', obOpen')
  <2>1. Continues("set", S)
    BY <1>2, <1>11, <1>14 DEF Continues
  <2> QED  BY <1>1, <1>11, <1>12, <1>14, <2>1, ObOnward
<1>15. Uniform'
  BY <1>3, <1>14, EmptySeq DEF Uniform, ObIInv
<1> QED  BY <1>13, <1>14, <1>15 DEF ObIInv, ObTypeOK

LEMMA SendStep ==
  ASSUME ObIInv, ObStepSend
  PROVE  ObIInv'
<1>1. ObIs("send")
  BY DEF ObStepSend
<1>2. obMsgs \in Seq({obDst}) /\ obDst \in ObPlaces
  BY DEF ObIInv, ObTypeOK, Uniform
<1>3. \A i \in DOMAIN obMsgs : obMsgs[i] = obDst
  BY <1>2, ElementOfSeq, LenProperties
<1>4. PICK receive : receive = Step("receive", obDst)
  OBVIOUS
<1>5. receive \in ObSteps /\ \A W : Does(receive, W) <=> "receive" \in W
  BY <1>2, <1>4, StepIs DEF Doings
<1>6. ~Fills(receive) /\ ~Locally(receive) /\ ~Does(receive, {"set"})
  BY <1>5 DEF Fills, Locally
<1>7. PICK S : S = IF obOpen /\ obDst = ObLocal THEN [i \in DOMAIN obMsgs |-> receive] ELSE <<>>
  OBVIOUS
<1>8. S \in Seq(ObSteps) /\ \A k \in 1 .. Len(S) : S[k] = receive
  <2>1. DOMAIN obMsgs = 1 .. Len(obMsgs) /\ Len(obMsgs) \in Nat
    BY <1>2, LenProperties
  <2>2. CASE obOpen /\ obDst = ObLocal
    <3>1. S = [i \in 1 .. Len(obMsgs) |-> receive]
      BY <1>7, <2>1, <2>2
    <3> QED  BY <1>5, <2>1, <3>1
  <2>3. CASE ~(obOpen /\ obDst = ObLocal)
    BY <1>7, <2>3, EmptySeq
  <2> QED  BY <2>2, <2>3
<1>9. Orders(S, obDst, FALSE)
  BY <1>5, <1>6, <1>8 DEF Orders, Orderly
<1>10. ObThen(S)
  <2>1. [i \in DOMAIN obMsgs |-> [do |-> "receive", to |-> obMsgs[i]]]
          = [i \in DOMAIN obMsgs |-> receive]
    BY <1>3, <1>4 DEF Step
  <2> QED  BY <1>7, <2>1 DEF ObStepSend
<1>12. /\ obOpen' = FALSE /\ obMsgs' = <<>> /\ UNCHANGED <<obDst, obLost>>
       /\ obSent' = {<<obMsgs[i], obDst>> : i \in DOMAIN obMsgs}
  BY DEF ObStepSend
<1>11. obTodo' \in Seq(ObSteps) /\ Orders(obTodo', obDst', obOpen')
  <2>1. Continues("send", S)
    BY <1>5, <1>8, <1>12 DEF Continues
  <2>2. Orders(S, obDst', obOpen')
    BY <1>9, <1>12
  <2> QED  BY <1>1, <1>8, <1>10, <2>1, <2>2, ObOnward
<1>13. \A x \in obSent' : x[1] = x[2]
  BY <1>3, <1>12
<1> QED  BY <1>11, <1>12, <1>13, EmptySeq DEF ObIInv, ObTypeOK, Uniform

LEMMA ObReceiveStep ==
  ASSUME ObIInv, ObStepReceive, "answers" \notin ObMay
  PROVE  ObIInv'
<1>1. ObIs("receive") /\ ObThen(<<>>) /\ UNCHANGED <<obOpen, obMsgs, obDst, obSent, obLost>>
  BY DEF ObStepReceive, obNet
<1>2. obTodo' \in Seq(ObSteps) /\ Orders(obTodo', obDst', obOpen')
  BY <1>1, Done
<1> QED  BY <1>1, <1>2 DEF ObIInv, ObTypeOK, Uniform

LEMMA InitStep ==
  ASSUME ObIInv, ObStepInit
  PROVE  ObIInv'
<1>1. ObIs("init") /\ UNCHANGED <<obMsgs, obDst, obSent, obLost>>
  BY DEF ObStepInit
<1>2. CASE obOpen
  <2>1. PICK send, init : send = Step("send", ObBus) /\ init = Step("init", ObBus)
    OBVIOUS
  <2>2. send \in ObSteps /\ \A W : Does(send, W) <=> "send" \in W
    BY <2>1, StepIs, RemoteIs DEF Doings
  <2>3. init \in ObSteps /\ \A W : Does(init, W) <=> "init" \in W
    BY <2>1, StepIs, RemoteIs DEF Doings
  <2>4. ~Fills(send) /\ ~Locally(send) /\ ~Fills(init) /\ ~Locally(init)
    BY <2>2, <2>3 DEF Fills, Locally
  <2>5. PICK S : S = Two(send, init)
    OBVIOUS
  <2>6. S \in Seq(ObSteps) /\ Len(S) = 2 /\ S[1] = send /\ S[2] = init
    BY <2>2, <2>3, <2>5, TwoSteps
  <2>7. Orders(S, obDst, obOpen)
    BY <2>2, <2>3, <2>4, <2>6 DEF Orders, Orderly
  <2>8. Serves(S, obDst, obOpen, 3, obDst)
    <3>1. Renews(S, 2) /\ Keeps(S, 2, 3)
      BY <2>2, <2>3, <2>6 DEF Renews, Keeps
    <3> QED  BY <3>1 DEF Serves
  <2>9. ObThen(S) /\ obOpen' = obOpen
    BY <1>2, <2>1, <2>5 DEF ObStepInit, ObDo, Two, Step
  <2>10. \A k \in 1 .. Len(S) : Does(S[k], {"send", "receive", "init"})
    BY <2>2, <2>3, <2>6
  <2>11. obTodo' \in Seq(ObSteps) /\ Orders(obTodo', obDst', obOpen')
    <3>1. Continues("init", S)
      BY <1>1, <2>6, <2>8, <2>9, <2>10 DEF Continues
    <3> QED  BY <1>1, <2>6, <2>7, <2>9, <3>1, ObOnward
  <2> QED  BY <1>1, <2>9, <2>11 DEF ObIInv, ObTypeOK, Uniform
<1>3. CASE ~obOpen
  <2>1. ObThen(<<>>) /\ obOpen' = TRUE
    BY <1>3 DEF ObStepInit
  <2>2. obTodo' \in Seq(ObSteps) /\ Orders(obTodo', obDst', obOpen')
    BY <1>1, <2>1, Done
  <2> QED  BY <1>1, <2>1, <2>2 DEF ObIInv, ObTypeOK, Uniform
<1> QED  BY <1>2, <1>3

LEMMA AddStep ==
  ASSUME ObIInv, ObStepAdd
  PROVE  ObIInv'
<1>1. ObIs("add") /\ UNCHANGED <<obOpen, obMsgs, obDst, obSent, obLost>>
  BY DEF ObStepAdd, obNet
<1>2. obOpen /\ obDst = ObTo /\ obDst \in ObPlaces
  BY <1>1, FirstIs DEF ObIInv, ObTypeOK
<1>3. PICK send, init, put :
        send = Step("send", ObBus) /\ init = Step("init", ObBus) /\ put = Step("put", obDst)
  OBVIOUS
<1>4. send \in ObSteps /\ \A W : Does(send, W) <=> "send" \in W
  BY <1>3, StepIs, RemoteIs DEF Doings
<1>5. init \in ObSteps /\ \A W : Does(init, W) <=> "init" \in W
  BY <1>3, StepIs, RemoteIs DEF Doings
<1>6. put \in ObSteps /\ To(put) = obDst /\ \A W : Does(put, W) <=> "put" \in W
  BY <1>2, <1>3, StepIs DEF Doings
<1>7. /\ ~Fills(send) /\ ~Locally(send) /\ ~Fills(init) /\ ~Locally(init)
      /\ Fills(put) /\ ~Locally(put) /\ ~Does(put, {"set"})
  BY <1>4, <1>5, <1>6 DEF Fills, Locally
<1>8. PICK S : S = IF Len(obMsgs) >= ObFull THEN Three(send, init, put) ELSE <<put>>
  OBVIOUS
<1>9. S \in Seq(ObSteps) /\ Orders(S, obDst, obOpen) /\ Serves(S, obDst, obOpen, Len(S) + 1, obDst)
  <2>1. CASE Len(obMsgs) >= ObFull
    <3>1. /\ S \in Seq(ObSteps) /\ Len(S) = 3
          /\ S[1] = send /\ S[2] = init /\ S[3] = put
      BY <1>4, <1>5, <1>6, <1>8, <2>1, ThreeSteps
    <3>2. Renews(S, 2) /\ Keeps(S, 2, 3) /\ Keeps(S, 2, 4)
      BY <1>4, <1>5, <1>7, <3>1 DEF Renews, Keeps
    <3>3. Serves(S, obDst, obOpen, 3, obDst) /\ Serves(S, obDst, obOpen, 4, obDst)
      BY <3>2 DEF Serves
    <3>4. Orderly(S, obDst, obOpen, 1) /\ Orderly(S, obDst, obOpen, 2)
            /\ Orderly(S, obDst, obOpen, 3)
      BY <1>4, <1>5, <1>6, <1>7, <3>1, <3>3 DEF Orderly
    <3> QED  BY <3>1, <3>3, <3>4 DEF Orders
  <2>2. CASE ~(Len(obMsgs) >= ObFull)
    <3>1. S \in Seq(ObSteps) /\ Len(S) = 1 /\ S[1] = put
      BY <1>6, <1>8, <2>2, OneStep
    <3>2. Keeps(S, 0, 1) /\ Keeps(S, 0, 2)
      BY <1>7, <3>1 DEF Keeps
    <3>3. Serves(S, obDst, obOpen, 1, obDst) /\ Serves(S, obDst, obOpen, 2, obDst)
      BY <1>2, <3>2 DEF Serves
    <3>4. Orderly(S, obDst, obOpen, 1)
      BY <1>6, <1>7, <3>1, <3>3 DEF Orderly
    <3> QED  BY <3>1, <3>3, <3>4 DEF Orders
  <2> QED  BY <2>1, <2>2
<1>10. ObThen(S)
  <2>1. (ObDo("send") \o ObDo("init")) \o <<[do |-> "put", to |-> obDst]>> = Three(send, init, put)
    BY <1>3 DEF ObDo, Three, Two, Step
  <2>2. <<>> \o <<[do |-> "put", to |-> obDst]>> = <<put>>
    BY <1>3, <1>6, OneStep, ConcatEmptySeq DEF Step
  <2> QED  BY <1>2, <1>8, <2>1, <2>2 DEF ObStepAdd
<1>11. obTodo' \in Seq(ObSteps) /\ Orders(obTodo', obDst', obOpen')
  <2>1. Continues("add", S)
    BY <1>1, <1>9 DEF Continues
  <2> QED  BY <1>1, <1>9, <1>10, <2>1, ObOnward
<1> QED  BY <1>1, <1>11 DEF ObIInv, ObTypeOK, Uniform

LEMMA PutStep ==
  ASSUME ObIInv, ObStepPut
  PROVE  ObIInv'
<1>1. ObIs("put") /\ ObThen(<<>>) /\ UNCHANGED <<obOpen, obDst, obSent>>
  BY DEF ObStepPut
<1>2. obOpen /\ obDst = ObTo
  BY <1>1, FirstIs
<1>3. obMsgs' = Append(obMsgs, obDst) /\ UNCHANGED obLost
  BY <1>2 DEF ObStepPut
<1>4. obMsgs' \in Seq({obDst})
  BY <1>3, AppendProperties DEF ObIInv, Uniform
<1>5. obTodo' \in Seq(ObSteps) /\ Orders(obTodo', obDst', obOpen')
  BY <1>1, Done
<1> QED  BY <1>1, <1>2, <1>3, <1>4, <1>5 DEF ObIInv, ObTypeOK, Uniform

LEMMA TellEachStep ==
  ASSUME ObIInv, ObStepTellEach
  PROVE  ObIInv'
<1>1. ObIs("tell_each") /\ UNCHANGED <<obOpen, obMsgs, obDst, obSent, obLost>>
  BY DEF ObStepTellEach, obNet
<1>2. ObTo \in SUBSET Remote
  BY <1>1, FirstIs
<1>3. PICK S : S \in Seq(ObSteps) /\ Orders(S, obDst, obOpen) /\ ObThen(S)
  <2>1. CASE ObTo = {}
    BY <2>1, NoStep DEF ObStepTellEach
  <2>2. CASE ObTo # {}
    <3>1. PICK p \in ObTo : ObThen(ObTell(p) \o ObTellEach(ObTo \ {p}))
      BY <2>2 DEF ObStepTellEach
    <3>2. Plan(<<>>, obDst, obOpen)
      BY NoStep DEF Plan
    <3>3. Ready(<<>> \o ObTell(p), obDst, obOpen, p)
      BY <1>2, <3>1, <3>2, Tells
    <3>4. ObTell(p) \in Seq(ObSteps)
      BY <1>2, <3>1, StepIs, TwoSteps, RemoteIs DEF ObTell, ObUse, ObAdd, Doings, Step, Two
    <3>5. Plan(ObTell(p), obDst, obOpen)
      BY <3>3, <3>4, ConcatEmptySeq DEF Ready
    <3>6. Plan(ObTell(p) \o ObTellEach(ObTo \ {p}), obDst, obOpen)
      BY <1>2, <3>5, TellsEach
    <3> QED  BY <3>1, <3>6 DEF Plan
  <2> QED  BY <2>1, <2>2
<1>4. obTodo' \in Seq(ObSteps) /\ Orders(obTodo', obDst', obOpen')
  <2>1. Continues("tell_each", S)
    BY DEF Continues
  <2> QED  BY <1>1, <1>3, <2>1, ObOnward
<1> QED  BY <1>1, <1>4 DEF ObIInv, ObTypeOK, Uniform

LEMMA DropStep ==
  ASSUME ObIInv, ObStepDrop
  PROVE  ObIInv'
<1>1. /\ ObIs("drop") /\ ObThen(<<>>) /\ obOpen' = FALSE /\ obMsgs' = <<>>
      /\ UNCHANGED <<obDst, obSent, obLost>>
  BY DEF ObStepDrop
<1>2. obTodo' \in Seq(ObSteps) /\ Orders(obTodo', obDst', obOpen')
  BY <1>1, Done
<1> QED  BY <1>1, <1>2, EmptySeq DEF ObIInv, ObTypeOK, Uniform

LEMMA HandlerStep ==
  ASSUME ObIInv, ObStepHandler, "reacts" \notin ObMay
  PROVE  ObIInv'
<1>1. ObIs("handler") /\ ObThen(<<>>) /\ UNCHANGED <<obOpen, obMsgs, obDst, obSent, obLost>>
  BY DEF ObStepHandler, obNet
<1>2. obTodo' \in Seq(ObSteps) /\ Orders(obTodo', obDst', obOpen')
  BY <1>1, Done
<1> QED  BY <1>1, <1>2 DEF ObIInv, ObTypeOK, Uniform

LEMMA BeginStep ==
  ASSUME ObIInv, NEW call, Plan(call, obDst, obOpen), obTodo' = call,
         UNCHANGED <<obNet, obSent, obLost>>
  PROVE  ObIInv'
BY DEF ObIInv, ObTypeOK, Uniform, obNet, Plan

-----------------------------------------------------------------------------
LEMMA OutboxStart == ObInit => ObIInv
<1> SUFFICES ASSUME ObInit PROVE ObIInv
  OBVIOUS
<1>1. obTodo \in Seq(ObSteps) /\ Orders(obTodo, obDst, obOpen) /\ obMsgs \in Seq({obDst})
  BY NoStep, EmptySeq DEF ObInit
<1> QED  BY <1>1, RemoteIs DEF ObInit, ObIInv, ObTypeOK, Uniform

(* What programs and their handlers leave alone in the middle of calls. *)
Uninterrupted == {"answers", "reacts", "bus_first"} \cap ObMay = {}

LEMMA OutboxStep ==
  ASSUME Uninterrupted, ObIInv, [ObNext]_obVars
  PROVE  ObIInv'
<1>0. "answers" \notin ObMay /\ "reacts" \notin ObMay /\ "bus_first" \notin ObMay
  BY DEF Uninterrupted
<1>1. CASE ObStep
  BY <1>0, <1>1, UseStep, SetStep, SendStep, ObReceiveStep, InitStep, AddStep, PutStep,
     TellEachStep, DropStep, HandlerStep DEF ObStep
<1>2. ASSUME NEW call \in ObCall, ObBegin(call)
      PROVE  ObIInv'
  BY <1>2, CallsPlanned, BeginStep DEF ObBegin
<1>3. CASE ~(obOpen /\ obDst = ObBus) /\ ObBegin(ObReleaseLocal)
  BY <1>3, ReleasePlanned, BeginStep DEF ObBegin
<1>4. CASE obTodo' = ObLeave /\ UNCHANGED <<obNet, obSent, obLost>>
  BY <1>4, LeavePlanned, BeginStep
<1>5. CASE UNCHANGED obVars
  BY <1>5 DEF ObIInv, ObTypeOK, Uniform, obVars
<1> QED  BY <1>0, <1>1, <1>2, <1>3, <1>4, <1>5 DEF ObNext

LEMMA ArrivesFromInvariant == ObIInv => ObArrives
<1> SUFFICES ASSUME ObIInv PROVE ObArrives
  OBVIOUS
<1>1. obMsgs \in Seq({obDst})
  BY DEF ObIInv, Uniform
<1>2. \A i \in DOMAIN obMsgs : obMsgs[i] = obDst
  BY <1>1, ElementOfSeq, LenProperties
<1> QED  BY <1>2 DEF ObIInv, ObArrives

(* Where no call is made in the middle of another, and no local map is     *)
(* released while messages wait for the bus, every message leaves for the  *)
(* destination its caller chose (ObArrives; mpr_net_use_bus,               *)
(* mpr_net_use_mesh, mpr_net_add_msg and mpr_net_send of src/network.c),   *)
(* for any peers, any size of bundles and any sequence of calls.           *)
THEOREM MessagesArrive ==
  ASSUME Uninterrupted
  PROVE  ObSpec => []ObArrives
<1>1. ObIInv /\ [ObNext]_obVars => ObIInv'
  BY OutboxStep
<1> QED  BY <1>1, OutboxStart, ArrivesFromInvariant, PTL DEF ObSpec

=============================================================================
