------------------------------ MODULE Registry ------------------------------
(***************************************************************************)
(* The records a process keeps of devices, signals, links and maps         *)
(* (src/graph.c): what it learns adds records, each of which refers to     *)
(* others, and what leaves takes with it what refers to it, while the      *)
(* program's handlers are called in the middle of it.                      *)
(*                                                                         *)
(* A removal is a stack of things left to do (rgTodo), one of them a step, *)
(* so that every property holds also in what a handler sees.  The order of *)
(* records in the lists is left out.  The process is subscribed to all.    *)
(***************************************************************************)
EXTENDS Integers, Sequences, FiniteSets, SequencesExt

CONSTANTS
  RgDev,         \* devices
  RgLocal,       \* the device of this process
  RgOwner,       \* [signal -> device]
  RgMapSrc,      \* [map -> the signals it comes from]
  RgMapDst,      \* [map -> the signal it goes to]
  RgLinkedTo,    \* what /device messages may list as linked: sets of devices
  RgMaxEvents    \* bound on what happens
RgSig == DOMAIN RgOwner
RgMap == DOMAIN RgMapSrc
RgEnds(m) == RgMapSrc[m] \cup {RgMapDst[m]}
RgIsLocal(m) == \E s \in RgEnds(m) : RgOwner[s] = RgLocal

(* Every map has an end in another process: those that have none need no link. *)
ASSUME RgAssumption ==
  /\ IsFiniteSet(RgDev) /\ IsFiniteSet(RgSig) /\ IsFiniteSet(RgMap)
  /\ RgDev \cap RgSig = {} /\ RgDev \cap RgMap = {} /\ RgSig \cap RgMap = {}
  /\ RgLocal \in RgDev /\ RgOwner \in [RgSig -> RgDev] /\ RgLinkedTo \subseteq SUBSET RgDev
  /\ RgMapSrc \in [RgMap -> SUBSET RgSig] /\ RgMapDst \in [RgMap -> RgSig]
  /\ \A m \in RgMap : \E s \in RgEnds(m) : RgOwner[s] # RgLocal

VARIABLES
  rgDevs, rgSigs, rgLinks,  \* the devices, signals and links that are listed
  rgMaps,        \* listed maps: their sources and status
  rgLinked,      \* each device's list of devices linked to it
  rgOnLink,      \* the maps each link lists
  rgSlots,       \* the maps each local signal lists
  rgMarked,      \* what is marked as removed
  rgFree,        \* maps that are no longer listed but not yet freed
  rgCbs,         \* the handlers of the program, last added first
  rgTold,        \* what the program was told there is, by its first handler
  rgMine,        \* maps the program released itself
  rgTodo,        \* what is left to do
  rgEvents
rgVars == <<rgDevs, rgSigs, rgLinks, rgMaps, rgLinked, rgOnLink, rgSlots, rgMarked, rgFree,
            rgCbs, rgTold, rgMine, rgTodo, rgEvents>>
rgLists == <<rgDevs, rgSigs, rgLinks, rgMaps, rgLinked, rgOnLink, rgSlots, rgMarked, rgFree>>
rgProgram == <<rgCbs, rgTold, rgMine>>

RgListed == DOMAIN rgMaps
RgLinkOf(d, e) == {d, e}
(* cmp_qry_links: mpr_dev_get_links *)
RgLinksOf(d) == {k \in rgLinks : d \in k}
(* mpr_map_get_has_dev, mpr_map_get_has_sig; maps marked as removed are left out *)
RgSigsOf(m) == rgMaps[m].src \cup {RgMapDst[m]}
RgMapsOfSig(s) == {m \in RgListed \ rgMarked : s \in RgSigsOf(m)}
RgMapsOfDev(d) == {m \in RgListed \ rgMarked : \E s \in RgSigsOf(m) : RgOwner[s] = d}
(* cmp_qry_maps of link.c: the slots of the sources of local maps know their links *)
RgMapsOfLink(k) ==
  {m \in RgListed : RgIsLocal(m) /\ \E s \in rgMaps[m].src :
                      RgLinkOf(RgOwner[s], RgOwner[RgMapDst[m]]) = k}
(* cmp_qry_sigs of device.c *)
RgSigsOfDev(d) == {s \in rgSigs \ rgMarked : RgOwner[s] = d}

(* The elements of a sequence that are in S, in their order. *)
RgKeep(list, S) ==
  FlattenSeq([i \in DOMAIN list |-> IF list[i] \in S THEN <<list[i]>> ELSE <<>>])
(* mpr_dev_update_linked: what follows a removed entry is not looked at *)
RgStillLinked(list, names) ==
  LET gone[i \in 0..Len(list)] == i > 0 /\ list[i] \notin names /\ ~gone[i - 1]
  IN FlattenSeq([i \in DOMAIN list |-> IF gone[i] THEN <<>> ELSE <<list[i]>>])
(* mpr_dev_add_link, mpr_dev_remove_link *)
RgWithLinked(linked, d, e) ==
  [x \in RgDev |-> CASE x = d /\ ~Contains(linked[d], e) -> Append(linked[d], e)
                     [] x = e /\ ~Contains(linked[e], d) -> Append(linked[e], d)
                     [] OTHER -> linked[x]]
RgUnlinked(linked, d, e) ==
  [x \in RgDev |-> IF x \in {d, e} THEN RgKeep(linked[x], RgDev \ ({d, e} \ {x})) ELSE linked[x]]

-----------------------------------------------------------------------------
(* What there may be to do. *)
RgThing(what, o, e) == [do |-> what, o |-> o, e |-> e]
RgEach(what, S, e) == LET q == SetToSeq(S) IN [i \in 1..Len(q) |-> RgThing(what, q[i], e)]
RgWalk(o, e, rest) == [do |-> "walk", o |-> o, e |-> e, rest |-> rest]
RgCall(o, e) == RgThing("call", o, e)

(* remove_by_qry, mpr_graph_remove_sig *)
RgRemoveSigAlone(s, e) ==                \* mistake: the maps of the signal stay
  <<RgThing("unlist", s, e), RgCall(s, e), RgThing("free", s, e)>>
RgRemoveSig(s, e) ==
  RgEach("map", RgMapsOfSig(s), e)
    \o <<RgThing("unlist", s, e), RgCall(s, e), RgThing("free", s, e)>>
(* mpr_graph_remove_map *)
RgRemoveMap(m, e) ==
  <<RgThing("unlist", m, e)>>
    \o (IF rgMaps[m].is = "active" THEN <<RgCall(m, e)>> ELSE <<>>) \o <<RgThing("free", m, e)>>
(* mpr_graph_remove_link *)
RgRemoveLink(k, e) == RgEach("map", RgMapsOfLink(k), e) \o <<RgThing("cut", k, e)>>
(* mpr_graph_remove_dev *)
RgRemoveDev(d, e) ==
  RgEach("map", RgMapsOfDev(d), e) \o <<RgThing("unlink", d, e)>>
    \o RgEach("link", RgLinksOf(d), e) \o RgEach("sig", RgSigsOfDev(d), e)
    \o <<RgThing("unlist", d, e), RgCall(d, e), RgThing("free", d, e)>>

RgRemove(what, o, e) ==
  CASE what = "map" -> RgRemoveMap(o, e) [] what = "sig" -> RgRemoveSig(o, e)
    [] what = "link" -> RgRemoveLink(o, e) [] what = "dev" -> RgRemoveDev(o, e)

RgWithoutMap(f, m) == [x \in DOMAIN f |-> f[x] \ {m}]

-----------------------------------------------------------------------------
(* One thing at a time. *)
RgIs(what) == rgTodo # <<>> /\ Head(rgTodo).do = what
RgThis == Head(rgTodo)
RgThen(things) == rgTodo' = things \o Tail(rgTodo)

RgTakeApart ==
  /\ \E what \in {"map", "sig", "link", "dev"} :
       RgIs(what) /\ RgThen(RgRemove(what, RgThis.o, RgThis.e))
  /\ UNCHANGED <<rgLists, rgProgram, rgEvents>>

(* mpr_list_remove_item *)
RgUnlist ==
  /\ RgIs("unlist") /\ RgThen(<<>>)
  /\ LET o == RgThis.o IN
     /\ rgDevs' = rgDevs \ {o} /\ rgSigs' = rgSigs \ {o}
     /\ rgMaps' = [m \in RgListed \ {o} |-> rgMaps[m]]
     /\ rgFree' = rgFree \cup ({o} \cap RgListed)
     /\ rgMarked' = rgMarked \ {o}
  /\ UNCHANGED <<rgLinks, rgLinked, rgOnLink, rgSlots, rgProgram, rgEvents>>

(* mpr_list_remove_item and mpr_link_free *)
RgCut ==
  /\ RgIs("cut") /\ RgThen(<<>>)
  /\ LET k == RgThis.o
         d == CHOOSE d \in k : TRUE
     IN /\ rgLinks' = rgLinks \ {k} /\ rgOnLink' = [rgOnLink EXCEPT ![k] = {}]
        /\ rgLinked' = RgUnlinked(rgLinked, d, CHOOSE e \in k : e # d)
  /\ UNCHANGED <<rgDevs, rgSigs, rgMaps, rgSlots, rgMarked, rgFree, rgProgram, rgEvents>>

(* mpr_map_free, mpr_slot_free, mpr_local_sig_remove_slot; mpr_sig_free_internal; *)
(* mpr_dev_free_mem *)
RgFreed ==
  /\ RgIs("free") /\ RgThen(<<>>)
  /\ LET o == RgThis.o IN
     /\ rgFree' = rgFree \ {o}
     /\ rgOnLink' = RgWithoutMap(rgOnLink, o)
     /\ rgSlots' = IF o \in DOMAIN rgSlots THEN [rgSlots EXCEPT ![o] = {}]
                   ELSE RgWithoutMap(rgSlots, o)
     /\ rgLinked' = IF o \in RgDev THEN [rgLinked EXCEPT ![o] = <<>>] ELSE rgLinked
  /\ UNCHANGED <<rgDevs, rgSigs, rgLinks, rgMaps, rgMarked, rgProgram, rgEvents>>

(* mpr_graph_remove_dev: the device leaves the lists of all others *)
RgAllUnlinked(d) ==
  [x \in RgDev |-> RgKeep(rgLinked[x], IF x = d THEN RgDev \ rgDevs ELSE RgDev \ {d})]
RgUnlink ==
  /\ RgIs("unlink") /\ RgThen(<<>>) /\ rgLinked' = RgAllUnlinked(RgThis.o)
  /\ UNCHANGED <<rgDevs, rgSigs, rgLinks, rgMaps, rgOnLink, rgSlots, rgMarked, rgFree,
                 rgProgram, rgEvents>>

(* mpr_graph_call_cbs *)
RgStart ==
  /\ RgIs("call") /\ RgThen(<<RgWalk(RgThis.o, RgThis.e, rgCbs)>>)
  /\ UNCHANGED <<rgLists, rgProgram, rgEvents>>
(* What the first handler was told so far must make sense of what it is told now. *)
RgHears(o, e) ==
  [rgTold EXCEPT ![o] =
     IF o \in RgDev THEN IF e \in {"new", "modified"} THEN "there" ELSE "none"
     ELSE CASE e = "new" /\ @ = "none" -> "there"
            [] e = "modified" /\ @ = "there" -> "there"
            [] e \in {"removed", "expired"} /\ @ = "there" -> "none"
            [] OTHER -> "wrong"]
(* the next handler is read before one is called, which may remove itself or add *)
(* another one before all (mpr_graph_remove_cb, mpr_graph_add_cb) *)
RgRestLate(rest, cbs) ==         \* mistake: where to go on is looked up afterwards
  IF Contains(cbs, rest[1]) THEN Tail(rest) ELSE <<>>
RgRest(rest, cbs) == RgKeep(Tail(rest), Range(cbs))
RgReacts(h) ==
  {rgCbs} \cup (IF h = "first" THEN {} ELSE {RgKeep(rgCbs, Range(rgCbs) \ {h})})
          \cup (IF h = "first" /\ ~Contains(rgCbs, "other") THEN {<<"other">> \o rgCbs} ELSE {})
RgHandler ==
  /\ RgIs("walk")
  /\ IF RgThis.rest = <<>> THEN RgThen(<<>>) /\ UNCHANGED rgProgram
     ELSE LET h == RgThis.rest[1] IN
          \E cbs \in RgReacts(h) :
            /\ rgCbs' = cbs
            /\ rgTold' = IF h = "first" THEN RgHears(RgThis.o, RgThis.e) ELSE rgTold
            /\ RgThen(<<RgWalk(RgThis.o, RgThis.e, RgRest(RgThis.rest, cbs))>>)
            /\ UNCHANGED rgMine
  /\ UNCHANGED <<rgLists, rgEvents>>

-----------------------------------------------------------------------------
(* What adds records. *)

(* mpr_graph_add_sig: a device that is not known is added, and nobody is told *)
RgAddSig ==
  /\ RgIs("addsig")
  /\ LET s == RgThis.o IN
     /\ rgDevs' = rgDevs \cup {RgOwner[s]} /\ rgSigs' = rgSigs \cup {s}
     /\ RgThen(IF s \notin rgSigs THEN <<RgCall(s, "new")>>
               ELSE IF RgThis.e = "changed" /\ RgOwner[s] # RgLocal THEN <<RgCall(s, "modified")>>
               ELSE <<>>)
  /\ UNCHANGED <<rgLinks, rgMaps, rgLinked, rgOnLink, rgSlots, rgMarked, rgFree, rgProgram,
                 rgEvents>>

(* mpr_graph_add_map, mpr_map_init, mpr_local_map_init once the signals are there; *)
(* handler_mapped makes a map of others active *)
RgAddMap ==
  /\ RgIs("addmap")
  /\ LET m == RgThis.o.map
         S == RgThis.o.src
         isNew == m \notin RgListed
         pairs == {RgLinkOf(RgOwner[s], RgOwner[RgMapDst[m]]) : s \in S}
         links == IF isNew THEN {k \in pairs : Cardinality(k) = 2} ELSE {}
     IN /\ rgMaps' = [x \in RgListed \cup {m} |->
                        CASE x # m -> rgMaps[x]
                          [] x = m /\ isNew ->
                               [src |-> S, is |-> IF RgIsLocal(m) THEN "staged" ELSE "active"]
                          [] OTHER -> [rgMaps[m] EXCEPT !.src = @ \cup S]]
        /\ rgLinks' = rgLinks \cup links
        /\ rgOnLink' = [k \in DOMAIN rgOnLink |->
                          IF RgIsLocal(m) /\ k \in links THEN rgOnLink[k] \cup {m} ELSE rgOnLink[k]]
        /\ RgThen(CASE isNew /\ ~RgIsLocal(m) -> <<RgCall(m, "new")>>
                    [] ~isNew /\ ~(S \subseteq rgMaps[m].src) -> <<RgCall(m, "modified")>>
                    [] OTHER -> <<>>)
  /\ UNCHANGED <<rgDevs, rgSigs, rgLinked, rgSlots, rgMarked, rgFree, rgProgram, rgEvents>>

(* mpr_graph_housekeeping: the loop over signals comes after that over devices *)
RgSweepSigs ==
  /\ RgIs("sweep")
  /\ RgThen(RgEach("sig", rgMarked \cap rgSigs, "removed"))
  /\ UNCHANGED <<rgLists, rgProgram, rgEvents>>

RgStep == RgTakeApart \/ RgUnlist \/ RgCut \/ RgFreed \/ RgUnlink \/ RgStart \/ RgHandler
          \/ RgAddSig \/ RgAddMap \/ RgSweepSigs

-----------------------------------------------------------------------------
(* What happens to the process. *)
RgIdle == rgTodo = <<>> /\ rgCbs # <<>> /\ rgEvents < RgMaxEvents /\ rgEvents' = rgEvents + 1
RgRemote == RgDev \ {RgLocal}
RgDo(things) == rgTodo' = things
RgLives == RgLocal \in rgDevs \ rgMarked

(* mpr_dev_update_linked, and the links to devices it adds *)
RgRelinked(d, names) ==
  LET still == RgStillLinked(rgLinked[d], names)
  IN [x \in RgDev |-> CASE x = d -> still \o SetToSeq(names \ Range(still))
                        [] x \in names /\ ~Contains(rgLinked[x], d) -> Append(rgLinked[x], d)
                        [] OTHER -> rgLinked[x]]
(* /device: mpr_graph_add_dev, mpr_dev_set_from_msg *)
RgReceiveDevice(d, names) ==
  /\ RgIdle /\ d \in RgRemote /\ d \notin names
  /\ RgLocal \in names => RgLives
  /\ rgDevs' = rgDevs \cup {d} \cup names
  /\ rgLinked' = RgRelinked(d, names)
  /\ RgDo(<<RgCall(d, IF d \in rgDevs THEN "modified" ELSE "new")>>)
  /\ UNCHANGED <<rgSigs, rgLinks, rgMaps, rgOnLink, rgSlots, rgMarked, rgFree, rgProgram>>

(* /signal *)
RgReceiveSignal(s) ==
  /\ RgIdle /\ RgOwner[s] # RgLocal /\ RgDo(<<RgThing("addsig", s, "changed")>>)
  /\ UNCHANGED <<rgLists, rgProgram>>

(* /mapped of others, which may tell part of the sources; /map or /mapTo for the local device *)
RgReceiveMap(m, S) ==
  /\ RgIdle /\ S # {} /\ S \subseteq RgMapSrc[m]
  /\ RgIsLocal(m) => RgLives /\ S = RgMapSrc[m] /\ m \notin RgListed
                     /\ \A s \in RgEnds(m) : RgOwner[s] = RgLocal => s \in rgSigs
  /\ RgDo(<<RgThing("addsig", RgMapDst[m], "known")>> \o RgEach("addsig", S, "known")
            \o <<RgThing("addmap", [map |-> m, src |-> S], "new")>>)
  /\ UNCHANGED <<rgLists, rgProgram>>

(* mpr_local_map_update_status adds the slots, mpr_link_connect links the devices *)
RgReady(m) ==
  /\ RgIdle /\ RgIsLocal(m) /\ m \in RgListed \ rgMarked /\ rgMaps[m].is = "staged" /\ RgLives
  /\ rgMaps' = [rgMaps EXCEPT ![m].is = "ready"]
  /\ rgSlots' = [s \in DOMAIN rgSlots |->
                   IF s \in RgSigsOf(m) THEN rgSlots[s] \cup {m} ELSE rgSlots[s]]
  /\ LET peers == {RgOwner[s] : s \in RgSigsOf(m)} \ {RgLocal}
     IN rgLinked' = RgWithLinked(rgLinked, RgLocal, CHOOSE d \in peers : TRUE)
  /\ RgDo(<<>>)
  /\ UNCHANGED <<rgDevs, rgSigs, rgLinks, rgOnLink, rgMarked, rgFree, rgProgram>>

(* mpr_local_map_activate, handler_mapped *)
RgActivate(m) ==
  /\ RgIdle /\ m \in RgListed \ rgMarked /\ rgMaps[m].is = "ready" /\ RgLives
  /\ rgMaps' = [rgMaps EXCEPT ![m].is = "active"] /\ RgDo(<<RgCall(m, "new")>>)
  /\ UNCHANGED <<rgDevs, rgSigs, rgLinks, rgLinked, rgOnLink, rgSlots, rgMarked, rgFree, rgProgram>>

(* /unmap at an end: handler_unmap; of the program itself: mpr_map_release before *)
RgUnmap(m, mine) ==
  /\ RgIdle /\ RgIsLocal(m) /\ m \in RgListed \ rgMarked /\ RgLives
  /\ mine => rgMaps[m].is = "active"
  /\ rgMarked' = rgMarked \cup {m}
  /\ rgMaps' = IF mine THEN [rgMaps EXCEPT ![m].is = "ready"] ELSE rgMaps
  /\ rgMine' = IF mine THEN rgMine \cup {m} ELSE rgMine
  /\ RgDo(<<>>)
  /\ UNCHANGED <<rgDevs, rgSigs, rgLinks, rgLinked, rgOnLink, rgSlots, rgFree, rgCbs, rgTold>>

(* /unmapped, /signal/removed, /logout, and links that are given up (Links) *)
RgReceiveUnmapped(m) ==
  /\ RgIdle /\ m \in RgListed /\ ~RgIsLocal(m) /\ RgDo(<<RgThing("map", m, "removed")>>)
  /\ UNCHANGED <<rgLists, rgProgram>>
RgReceiveSignalRemoved(s) ==
  /\ RgIdle /\ s \in rgSigs /\ RgOwner[s] # RgLocal /\ RgDo(<<RgThing("sig", s, "removed")>>)
  /\ UNCHANGED <<rgLists, rgProgram>>
RgReceiveLogout(d) ==
  /\ RgIdle /\ d \in rgDevs \cap RgRemote /\ RgDo(<<RgThing("dev", d, "removed")>>)
  /\ UNCHANGED <<rgLists, rgProgram>>
RgLoseLink(k) ==
  /\ RgIdle /\ k \in rgLinks /\ RgLocal \in k /\ RgDo(<<RgThing("link", k, "expired")>>)
  /\ UNCHANGED <<rgLists, rgProgram>>

(* mpr_sig_free, mpr_dev_free *)
RgFreeSig(s) ==
  /\ RgIdle /\ s \in rgSigs \ rgMarked /\ RgOwner[s] = RgLocal /\ RgLives
  /\ rgMarked' = rgMarked \cup {s} /\ RgDo(<<>>)
  /\ UNCHANGED <<rgDevs, rgSigs, rgLinks, rgMaps, rgLinked, rgOnLink, rgSlots, rgFree, rgProgram>>
RgFreeDev ==
  /\ RgIdle /\ RgLives
  /\ rgMarked' = rgMarked \cup {RgLocal} \cup RgSigsOfDev(RgLocal)
  /\ RgDo(RgEach("link", RgLinksOf(RgLocal), "removed"))
  /\ UNCHANGED <<rgDevs, rgSigs, rgLinks, rgMaps, rgLinked, rgOnLink, rgSlots, rgFree, rgProgram>>

(* mpr_graph_housekeeping; mpr_dev_has_local_link *)
RgHousekeeping(silent) ==
  /\ RgIdle
  /\ silent \subseteq {d \in rgDevs \cap RgRemote : RgLinkOf(RgLocal, d) \notin rgLinks}
  /\ silent # {} \/ rgMarked # {}
  /\ RgDo(RgEach("dev", silent, "expired")
          \o (IF RgLocal \in rgMarked THEN <<RgThing("dev", RgLocal, "removed")>> ELSE <<>>)
          \o <<RgThing("sweep", RgLocal, "removed")>>)
  /\ UNCHANGED <<rgLists, rgProgram>>
(* mpr_graph_cleanup: marked maps, and staged ones that came to nothing *)
RgCleanup(given) ==
  /\ RgIdle
  /\ LET gone == RgListed \cap rgMarked
         late == {m \in RgListed \ gone : RgIsLocal(m) /\ rgMaps[m].is # "active"} \cap given
     IN /\ gone \cup late # {}
        /\ RgDo(RgEach("map", gone, "removed") \o RgEach("map", late, "expired"))
  /\ UNCHANGED <<rgLists, rgProgram>>

(* mpr_graph_add_cb by the program, outside of a handler *)
RgAddCb ==
  /\ RgIdle /\ ~Contains(rgCbs, "other") /\ rgCbs' = <<"other">> \o rgCbs
  /\ RgDo(<<>>) /\ UNCHANGED <<rgLists, rgTold, rgMine>>

(* mpr_graph_free: the handlers first, then maps and links that are not local, then all *)
(* signals and devices *)
RgFreeGraph ==
  /\ RgIdle /\ rgCbs' = <<>>
  /\ LET devs == SetToSeq(rgDevs)
         withSigs(d) == RgEach("sig", {s \in rgSigs : RgOwner[s] = d}, "removed")
                          \o <<RgThing("dev", d, "removed")>>
     IN RgDo(RgEach("map", {m \in RgListed : ~RgIsLocal(m)}, "removed")
             \o RgEach("link", {k \in rgLinks : RgLocal \notin k}, "removed")
             \o FlattenSeq([i \in 1..Len(devs) |-> withSigs(devs[i])]))
  /\ UNCHANGED <<rgLists, rgTold, rgMine>>

RgInit ==
  /\ rgDevs = {RgLocal} /\ rgSigs = {s \in RgSig : RgOwner[s] = RgLocal} /\ rgLinks = {}
  /\ rgMaps = [m \in {} |-> [src |-> {}, is |-> "staged"]]
  /\ rgLinked = [d \in RgDev |-> <<>>]
  /\ rgOnLink = [k \in {{d, e} : d, e \in RgDev} |-> {}]
  /\ rgSlots = [s \in {s \in RgSig : RgOwner[s] = RgLocal} |-> {}]
  /\ rgMarked = {} /\ rgFree = {}
  /\ rgCbs = <<"first">> /\ rgMine = {} /\ rgTodo = <<>> /\ rgEvents = 0
  /\ rgTold = [o \in RgDev \cup RgSig \cup RgMap |->
                 IF o \in rgDevs \cup rgSigs THEN "there" ELSE "none"]
RgNext ==
  \/ RgStep
  \/ \E d \in RgDev, names \in RgLinkedTo : RgReceiveDevice(d, names)
  \/ \E s \in RgSig : RgReceiveSignal(s) \/ RgReceiveSignalRemoved(s) \/ RgFreeSig(s)
  \/ \E m \in RgMap : \/ \E S \in SUBSET RgMapSrc[m] : RgReceiveMap(m, S)
                      \/ RgReady(m) \/ RgActivate(m) \/ RgReceiveUnmapped(m)
                      \/ \E mine \in BOOLEAN : RgUnmap(m, mine)
  \/ \E d \in RgDev : RgReceiveLogout(d)
  \/ \E k \in rgLinks : RgLoseLink(k)
  \/ RgFreeDev \/ RgAddCb \/ RgFreeGraph
  \/ \E silent \in SUBSET RgRemote : RgHousekeeping(silent)
  \/ \E given \in SUBSET RgMap : RgCleanup(given)

-----------------------------------------------------------------------------
(* A handler, and everything else that looks at the records, finds no reference to *)
(* one that is gone, except from maps and signals that are marked as removed:      *)
(* mpr_graph_remove_dev and its kind take with them all that refers to the record; *)
(* and mpr_graph_free leaves only maps behind that are marked.                     *)
RgWhole ==
  /\ \A s \in rgSigs \ rgMarked : RgOwner[s] \in rgDevs
  /\ \A m \in RgListed \ rgMarked : RgSigsOf(m) \subseteq rgSigs
  /\ \A k \in rgLinks : k \subseteq rgDevs /\ rgOnLink[k] \subseteq RgListed \cup rgFree
  /\ \A d \in rgDevs : \A i \in DOMAIN rgLinked[d] : rgLinked[d][i] \in rgDevs
  /\ \A s \in DOMAIN rgSlots : rgSlots[s] \subseteq RgListed \cup rgFree
  /\ rgCbs = <<>> /\ rgTodo = <<>> => rgDevs \cup rgSigs = {} /\ RgListed \subseteq rgMarked

(* A program that keeps account of what its handler is told knows, between two     *)
(* messages, exactly the signals and active maps there are, and of no device that  *)
(* has left; maps it released itself aside (mpr_map_release makes them inactive).  *)
RgTold ==
  /\ \A o \in RgSig \cup (RgMap \ rgMine) : rgTold[o] # "wrong"
  /\ rgTodo = <<>> /\ rgCbs # <<>> =>
     /\ \A s \in RgSig : rgTold[s] = "there" <=> s \in rgSigs
     /\ \A m \in RgMap \ rgMine :
          rgTold[m] = "there" <=> m \in RgListed /\ rgMaps[m].is = "active"
     /\ \A d \in RgDev : rgTold[d] = "there" => d \in rgDevs
=============================================================================
