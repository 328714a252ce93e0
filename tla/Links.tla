------------------------------- MODULE Links --------------------------------
(***************************************************************************)
(* The pings two linked devices exchange (src/link.c, handler_ping of      *)
(* src/network.c): they tell each end that the other is still there, and   *)
(* how far its clock is ahead.                                             *)
(*                                                                         *)
(* Time is counted in ticks; a poll is never late, and a message takes up  *)
(* to LkDelay ticks.  The offset of a link is a weighted average of      *)
(* samples; the last sample stands for it.                                 *)
(***************************************************************************)
EXTENDS Integers, FiniteSets

CONSTANTS
  LkSkew,        \* how far the clock of each end's computer is ahead
  LkTimeout,     \* TIMEOUT_SEC
  LkPeriod,      \* the ticks there may be between two housekeepings
  LkExtra,       \* how many pings are answered at once (8)
  LkDelay,       \* bound on the ticks a message takes
  LkJump,        \* by how much a program sets the clock of its device
  LkStory,       \* what else happens, one of it at a time: "loss", "maps" removed and
                 \* made, "late" maps on links in doubt, "clock" set, "death" of an end
  LkMaxTime,     \* bounds
  LkMaxLoss
LkEnd == {1, 2}
LkPeer(e) == 3 - e

(* Nobody is older than the start when it is found silent twice: a message *)
(* that is sent at the start has arrived by then.                          *)
ASSUME LkAssumption ==
  /\ LkSkew \in [LkEnd -> Int] /\ LkJump \subseteq Int
  /\ {LkTimeout, LkDelay} \subseteq Nat /\ LkDelay <= 2 * LkTimeout
  /\ LkPeriod \subseteq Nat /\ \E n \in LkPeriod : \A k \in LkPeriod : n >= k

VARIABLES
  lkNow,         \* the time
  lkEnd,         \* the state of each end
  lkDue,         \* when each end does its housekeeping next
  lkHeard,       \* when each end last heard the other, or began
  lkNet,         \* pings on their way
  lkStory,       \* what else may happen
  lkSpent        \* how often it has
lkVars == <<lkNow, lkEnd, lkDue, lkHeard, lkNet, lkStory, lkSpent>>

NoLink ==
  [up |-> TRUE, link |-> FALSE, maps |-> FALSE, sent |-> 0, sentAt |-> 0, rcvd |-> -1,
   rcvdAt |-> 0, off |-> 0, sample |-> <<>>, lost |-> FALSE]

(* mpr_dev_get_offset of the local device, added to MPR_NOW *)
LkClock(e, r) == lkNow + LkSkew[e] + r.off
LkMax(a, b) == IF a > b THEN a ELSE b

(* send_ping, to arrive after the delay d *)
LkPing(e, r) ==
  [end |-> [r EXCEPT !.sent = @ + 1, !.sentAt = LkClock(e, r)],
   msgs |-> [d \in 0..LkDelay |->
               {[to |-> LkPeer(e), id |-> r.sent + 1, rcvd |-> r.rcvd,
                 elapsed |-> LkMax(0, LkClock(e, r) - r.rcvdAt), at |-> LkClock(e, r),
                 due |-> lkNow + d]}]]
LkSilent(r) == [end |-> r, msgs |-> [d \in {0} |-> {}]]

(* mpr_link_housekeeping *)
LkInDoubt(r) == [r EXCEPT !.rcvd = -1]
LkGone(r) == [NoLink EXCEPT !.off = r.off, !.lost = r.maps]
LkKeepHouse(e, r) ==
  LET silent == LkClock(e, r) - r.rcvdAt > LkTimeout
      doubt == [LkInDoubt(r) EXCEPT !.rcvdAt = LkClock(e, r)]
      kept == IF silent THEN doubt ELSE r
  IN  IF silent /\ r.rcvd <= 0 THEN LkSilent(LkGone(r))
      ELSE IF r.maps THEN LkPing(e, kept) ELSE LkSilent(kept)

LkDone(e, step, rest) ==
  /\ lkEnd' = [lkEnd EXCEPT ![e] = step.end]
  /\ \E d \in DOMAIN step.msgs : lkNet' = rest \cup step.msgs[d]

(* what arrives is handled at once *)
LkAllHandled == \A m \in lkNet : m.due > lkNow

(* mpr_link_init, mpr_link_add_map and mpr_link_connect: an end has a map  *)
(* and learns the other's address *)
LkConnect(e) ==
  LET r == lkEnd[e]
      new == [r EXCEPT !.link = TRUE, !.maps = TRUE, !.rcvdAt = LkClock(e, r) + LkTimeout]
  IN  /\ LkAllHandled /\ r.up /\ ~r.link /\ ~r.lost /\ lkNow <= (e - 1) * LkDelay
      /\ LkDone(e, LkKeepHouse(e, new), lkNet)
      /\ lkHeard' = [lkHeard EXCEPT ![e] = lkNow]
      /\ UNCHANGED <<lkNow, lkDue, lkStory, lkSpent>>

(* mpr_net_maybe_send_ping, every few seconds *)
LkHousekeeping(e) ==
  /\ LkAllHandled /\ lkEnd[e].up /\ lkDue[e] <= lkNow
  /\ \E n \in LkPeriod : lkDue' = [lkDue EXCEPT ![e] = lkNow + n]
  /\ LkDone(e, IF lkEnd[e].link THEN LkKeepHouse(e, lkEnd[e]) ELSE LkSilent(lkEnd[e]), lkNet)
  /\ UNCHANGED <<lkNow, lkHeard, lkStory, lkSpent>>

\* ---------------------------------------------------------- mpr_link_update_clock
(* twice the offset a ping tells: the latency is half of what the exchange *)
(* took, less the time the other waited *)
LkTwiceUnwaited(now, r, m) ==     \* mistake: the time the other waited counts as latency
  2 * (m.at - now) - LkMax(0, now - r.sentAt)
LkTwice(now, r, m) == 2 * (m.at - now) - LkMax(0, now - r.sentAt - m.elapsed)
LkSampled(now, r, m) ==
  LET crude == 2 * (m.at - now)
      twice == LkTwice(now, r, m)
  IN  IF m.rcvd = r.sent /\ m.elapsed < LkTimeout
      THEN [r EXCEPT !.sample = <<twice>>]
      ELSE IF m.rcvd <= 1 THEN [r EXCEPT !.sample = <<crude>>]
      ELSE r

(* handler_ping *)
LkReceive(m) ==
  LET e == m.to
      r == lkEnd[e]
      now == LkClock(e, r)
      heard == [LkSampled(now, r, m) EXCEPT !.rcvdAt = now, !.rcvd = m.id]
      step == IF m.rcvd < LkExtra THEN LkPing(e, heard) ELSE LkSilent(heard)
  IN  /\ m.due <= lkNow
      /\ IF r.up /\ r.link
         THEN LkDone(e, step, lkNet \ {m}) /\ lkHeard' = [lkHeard EXCEPT ![e] = lkNow]
         ELSE lkNet' = lkNet \ {m} /\ UNCHANGED <<lkEnd, lkHeard>>
      /\ UNCHANGED <<lkNow, lkDue, lkStory, lkSpent>>

LkLose(m) ==
  /\ lkStory = "loss" /\ lkSpent < LkMaxLoss /\ lkSpent' = lkSpent + 1 /\ m.due <= lkNow
  /\ lkNet' = lkNet \ {m}
  /\ UNCHANGED <<lkNow, lkEnd, lkDue, lkHeard, lkStory>>

\* ------------------------------------------------------- what programs do
(* mpr_link_remove_map and mpr_link_add_map, at both ends: the only map is *)
(* released, and another made *)
LkUnmap ==
  /\ \A e \in LkEnd : lkEnd[e].up /\ lkEnd[e].maps
  /\ lkStory \in {"maps", "late"} /\ lkSpent = 0 /\ lkSpent' = 1 /\ LkAllHandled
  /\ lkEnd' = [e \in LkEnd |-> [lkEnd[e] EXCEPT !.maps = FALSE]]
  /\ UNCHANGED <<lkNow, lkDue, lkHeard, lkNet, lkStory>>
LkRemap ==
  /\ lkSpent = 1 /\ lkSpent' = 2 /\ LkAllHandled
  /\ \A e \in LkEnd : lkEnd[e].up /\ lkEnd[e].link /\ ~lkEnd[e].maps
  /\ (lkStory = "maps" => \A e \in LkEnd : lkEnd[e].rcvd > 0)
  /\ lkEnd' = [e \in LkEnd |-> [lkEnd[e] EXCEPT !.maps = TRUE]]
  /\ UNCHANGED <<lkNow, lkDue, lkHeard, lkNet, lkStory>>

(* mpr_dev_set_time, mpr_dev_set_offset and mpr_link_update_offset: the    *)
(* device's clock is set; the times of its links go with it *)
LkShiftedNot(r, d) == r            \* mistake: they stay behind
LkShifted(r, d) == [r EXCEPT !.sentAt = @ + d, !.rcvdAt = @ + d]
LkSetClock(e) ==
  /\ lkStory = "clock" /\ lkSpent' = 1 /\ LkAllHandled
  /\ lkEnd[e].up /\ lkEnd[e].off = 0
  /\ \E d \in LkJump :
       lkEnd' = [lkEnd EXCEPT ![e] =
                   [(IF @.link THEN LkShifted(@, d) ELSE @) EXCEPT !.off = d]]
  /\ UNCHANGED <<lkNow, lkDue, lkHeard, lkNet, lkStory>>

LkDie(e) ==
  /\ lkStory = "death" /\ lkSpent = 0 /\ lkSpent' = 1 /\ LkAllHandled
  /\ lkEnd' = [lkEnd EXCEPT ![e] = [NoLink EXCEPT !.up = FALSE]]
  /\ UNCHANGED <<lkNow, lkDue, lkHeard, lkNet, lkStory>>

(* time passes; nobody is late *)
LkTick ==
  /\ lkNow < LkMaxTime /\ lkNow' = lkNow + 1
  /\ \A e \in LkEnd : lkEnd[e].up => lkDue[e] > lkNow
  /\ LkAllHandled
  /\ \A e \in LkEnd : (lkNow = (e - 1) * LkDelay /\ lkEnd[e].up) => lkEnd[e].link
  /\ UNCHANGED <<lkEnd, lkDue, lkHeard, lkNet, lkStory, lkSpent>>

LkLongest == CHOOSE n \in LkPeriod : \A k \in LkPeriod : n >= k

LkInit ==
  /\ lkNow = 0 /\ lkEnd = [e \in LkEnd |-> NoLink]
  /\ lkDue \in {LkLongest} \X (1..LkLongest) /\ lkHeard = [e \in LkEnd |-> 0]
  /\ lkNet = {} /\ lkStory \in LkStory /\ lkSpent = 0

LkNext ==
  \/ \E e \in LkEnd : LkConnect(e) \/ LkHousekeeping(e) \/ LkSetClock(e) \/ LkDie(e)
  \/ \E m \in lkNet : LkReceive(m) \/ LkLose(m)
  \/ LkUnmap \/ LkRemap \/ LkTick

\* ------------------------------------------------------------- properties
(* No link outlives the other end by more than two timeouts and the         *)
(* housekeepings that find it silent.                                       *)
LkLetGo == \A e \in LkEnd : lkEnd[e].link => lkNow - lkHeard[e] <= 2 * (LkTimeout + LkLongest)

(* A link is given up if and only if the other end is silent: while its     *)
(* maps live the other end's pings keep it, although the two keep time of   *)
(* their own, some pings are lost and programs set the clocks.              *)
LkAbandoned ==
  /\ \A e \in LkEnd : lkEnd[e].lost => ~lkEnd[LkPeer(e)].up \/ lkEnd[LkPeer(e)].lost
  /\ LkLetGo

(* While no clock is set, the offset an end applies to its timetags is the *)
(* difference of the clocks, wrong by no more than two messages take,      *)
(* however pings cross, overtake each other, are lost or come late.        *)
LkInTime ==
  lkStory # "clock" =>
    \A e \in LkEnd :
      LET true == 2 * (LkSkew[LkPeer(e)] - LkSkew[e])
      IN  \A k \in DOMAIN lkEnd[e].sample :
            lkEnd[e].sample[k] \in (true - 4 * LkDelay)..true
=============================================================================
