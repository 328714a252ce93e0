------------------------- MODULE SubscriptionProps -------------------------
(***************************************************************************)
(* What subscriptions promise.                                             *)
(***************************************************************************)
EXTENDS Subscription, FiniteSets

Flags == SUBSET ({"device"} \cup AllSigs \cup AllMaps)
Versions == [Kinds -> -1 .. MaxChanges]

Asked    == TempLeases \cup {AutosubInterval}
Entries  == [graph : Graph, flags : Flags \ {{}}, left : UNION {-1 .. most : most \in Asked}]

(* Every variable keeps its type; no lease is longer than the longest that *)
(* is ever asked for, and none is kept past its end by more than a tick.   *)
TypeOK ==
  /\ known \in [Graph -> BOOLEAN] /\ synced \in [Graph -> {Never} \cup 0 .. Timeout]
  /\ sub \in [Graph -> [flags : Flags, left : -Timeout .. AutosubInterval]]
  /\ autosub \in [Graph -> Flags] /\ view \in [Graph -> Versions]
  /\ up \in BOOLEAN /\ version \in Versions /\ dirty \subseteq {"device"} \cup Sigs
  /\ subscribers \in Seq(Entries)
  /\ due \subseteq Graph \cup {"device"}

Settled == Quiet /\ due = {} /\ dirty = {}

Entry(g) == {i \in DOMAIN subscribers : subscribers[i].graph = g}

(* A device never keeps two leases for one graph: whatever requests and    *)
(* renewals arrive in whatever order, manage_subscriber finds the entry.   *)
NoDuplicateSubscribers == \A g \in Graph : Cardinality(Entry(g)) <= 1

(* Where no message is lost and the device does not leave, a subscription  *)
(* the graph keeps alive is known to the device, with all its kinds, and   *)
(* its lease has not run out, however calls of the program, pings and      *)
(* renewals interleave.                                                    *)
Covered ==
  Settled /\ up =>
    \A g \in Graph :
      IsSubscribed(sub[g]) =>
        \E i \in Entry(g) : sub[g].flags \subseteq subscribers[i].flags
                            /\ subscribers[i].left >= 0

(* The properties of the device are believed by a graph that subscribes to *)
(* them in one of the ways that last (AcceptsDevice): one that has asked   *)
(* for them with a lease of its own may have dropped them, and they are    *)
(* not sent to it again.                                                   *)
Believed == IF temporary THEN Sigs ELSE {"device"} \cup Sigs

UpToDate(g, flags) == \A k \in flags \cap Believed : view[g][k] = version[k]

(* A graph that keeps a subscription alive and has a lease at the device   *)
(* knows the latest state of what it subscribed to as soon as everything   *)
(* sent has arrived, nothing being lost: no change of the device slips     *)
(* between "bring subscriber up to date" and "inform device subscribers of *)
(* changed properties".                                                    *)
Informed ==
  Settled /\ up /\ losses = 0 =>
    \A g \in Graph, i \in DOMAIN subscribers :
      subscribers[i].graph = g /\ known[g] =>
        UpToDate(g, subscribers[i].flags \cap sub[g].flags)

(* Whoever asks for kinds it did not have is sent the state: "bring        *)
(* subscriber up to date".                                                 *)
Had(g) == UNION {subscribers[i].flags : i \in Entry(g)}

AskersAreAnswered ==
  [][\A g \in Graph :
       up /\ up' /\ losses' = losses /\ Len(toDevice'[g]) < Len(toDevice[g])
         /\ Parsed(Head(toDevice[g]).words) \ Had(g) # {} =>
           Len(mesh'[g]) > Len(mesh[g])]_vars

(* A graph that autosubscribes and a device that stays get together: the   *)
(* graph ends up with the latest state and keeps it, whatever expired or   *)
(* restarted before, if nothing was lost.                                  *)
EventuallyInformed ==
  [](losses = 0) =>
    \A g \in Graph, F \in FlagSets :
      <>[](up /\ autosub[g] = F) => <>[]UpToDate(g, F)

(* Even so the device comes to keep a valid lease for it: a request, a     *)
(* renewal or a ping that was lost, and a restart of the device, are made  *)
(* up for.                                                                 *)
EventuallyCovered ==
  \A g \in Graph, F \in FlagSets :
    <>[](up /\ autosub[g] = F) =>
      <>[](\E i \in Entry(g) : F \subseteq subscribers[i].flags /\ subscribers[i].left >= 0)
=============================================================================
