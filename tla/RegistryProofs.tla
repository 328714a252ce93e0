--------------------------- MODULE RegistryProofs ---------------------------
(***************************************************************************)
(* The records of a process are whole at every step and the program knows  *)
(* what there is between two messages, for any devices, signals, links and *)
(* maps, any messages, and whatever handlers do.                           *)
(*                                                                         *)
(* That a reference is still good is seen in what is left to do: before a  *)
(* record is taken from its list there comes whatever takes what refers to *)
(* it (Scheduled).  Taking the head of rgTodo apart keeps this, since what *)
(* takes its place does so in that order; and nothing that refers to a     *)
(* record is added once its removal began, because what adds records and   *)
(* what removes them is never left to do together (Mode).                  *)
(*                                                                         *)
(* That the program is told of what there is, is seen there too: as long   *)
(* as it was told otherwise, one task that tells it so is left to do       *)
(* (Fits).  A second one never is, because a record is taken apart once    *)
(* and after it there is nothing else about it to be done (Once), which in *)
(* turn rests on the order in which a removal is taken apart: maps before  *)
(* signals and links, these before devices (Ordered).                      *)
(***************************************************************************)
EXTENDS Registry, SequenceLemmas, SequenceTheorems

(* What may be left to do, and what it is about. *)
Events == {"new", "modified", "removed", "expired"}
Walks == {<<>>, <<"first">>, <<"other", "first">>}
Objects == RgDev \cup RgSig \cup RgMap
Pairs == {{d, e} : d, e \in RgDev}
Bonds == {k \in Pairs : \E d, e \in k : d # e}
Wishes == [map : RgMap, src : SUBSET RgSig]
Tasks ==
  [do : {"map"}, o : RgMap, e : Events] \cup [do : {"sig"}, o : RgSig, e : Events]
  \cup [do : {"dev", "unlink", "sweep"}, o : RgDev, e : Events]
  \cup [do : {"unlist", "call", "free"}, o : Objects, e : Events]
  \cup [do : {"link", "cut"}, o : Bonds, e : Events]
  \cup [do : {"addsig"}, o : RgSig, e : {"changed", "known"}]
  \cup [do : {"addmap"}, o : {w \in Wishes : w.src \subseteq RgMapSrc[w.map]}, e : {"new"}]
  \cup [do : {"walk"}, o : Objects, e : Events, rest : Walks]

Linkings == [RgDev -> Seq(RgDev)]
Locals == {s \in RgSig : RgOwner[s] = RgLocal}
LocalMaps == {m \in RgMap : RgIsLocal(m)}

(* Kinds of things to do. *)
Kind(S) == {t \in Tasks : t.do \in S}
On(S, o) == {t \in Tasks : t.do \in S /\ t.o = o}
Leaves(o) == On({"unlist"}, o)
Leaving(o) == On({"dev", "unlist"}, o)
Dooms(o) == On({"map", "sig", "dev", "unlist"}, o)
Frees(o) == On({"free"}, o)
Cuts(k) == On({"link", "cut"}, k)
Unlinks(d) == On({"unlink"}, d)
Sweeps == Kind({"sweep"})
Continues == {t \in Kind({"walk"}) : t.rest # << >>}
Adds == Kind({"addsig", "addmap"})
Brings == {t \in Kind({"call", "walk"}) : t.e \in {"new", "modified"}}
Ends == {t \in Tasks : t.do \notin {"addsig", "addmap"} /\ t.e \in {"removed", "expired"}}

(* What the variables hold. *)
Types ==
  /\ rgDevs \subseteq RgDev /\ rgSigs \subseteq RgSig /\ rgLinks \subseteq Bonds
  /\ RgListed \subseteq RgMap
  /\ \A m \in RgListed : rgMaps[m] \in [src : SUBSET RgMapSrc[m], is : {"staged", "ready", "active"}]
  /\ \A m \in RgListed : IF RgIsLocal(m) THEN rgMaps[m].src = RgMapSrc[m] ELSE rgMaps[m].is = "active"
  /\ rgLinked \in Linkings
  /\ rgOnLink \in [Pairs -> SUBSET RgMap] /\ rgSlots \in [Locals -> SUBSET RgMap]
  /\ rgMarked \subseteq {RgLocal} \cup Locals \cup LocalMaps
  /\ rgFree \subseteq RgMap
  /\ rgCbs \in Walks
  /\ rgTold \in [Objects -> {"there", "none", "wrong"}]
  /\ rgMine \subseteq LocalMaps
  /\ rgTodo \in Seq(Tasks)

(* Records are either added, one after the other, or removed. *)
Adding(q) == q # << >> => Head(q) \in Adds \cup Brings /\ ~Some(Tail(q), Tasks \ Adds)
Removing(q) == ~Some(q, Tasks \ Ends)
Mode == (Adding(rgTodo) /\ rgCbs # << >>) \/ Removing(rgTodo)

(* What the records refer to is there. *)
Sound ==
  /\ \A s \in rgSigs \ rgMarked : RgOwner[s] \in rgDevs
  /\ \A m \in RgListed \ rgMarked : RgSigsOf(m) \subseteq rgSigs
  /\ \A k \in rgLinks : k \subseteq rgDevs
  /\ \A k \in Pairs : rgOnLink[k] \subseteq RgListed \cup rgFree
  /\ \A s \in Locals : rgSlots[s] \subseteq RgListed \cup rgFree
  /\ \A d \in rgDevs : Range(rgLinked[d]) \subseteq rgDevs
(* Before a record leaves its list, what refers to it does. *)
Scheduled ==
  /\ \A m \in RgListed \ rgMarked : \A s \in RgSigsOf(m) : Preceded(rgTodo, Leaves(s), Dooms(m))
  /\ \A s \in rgSigs \ rgMarked : Preceded(rgTodo, Leaves(RgOwner[s]), Dooms(s))
  /\ \A k \in rgLinks : \A d \in k : Preceded(rgTodo, Leaves(d), Cuts(k))
  /\ \A d \in rgDevs : \A x \in rgDevs \ {d} :
        d \in Range(rgLinked[x]) => Preceded(rgTodo, Leaves(d), Unlinks(d))
  /\ \A d \in RgDev : Followed(rgTodo, Leaves(d), Frees(d))
  /\ \A d \in RgDev \ rgDevs : Range(rgLinked[d]) = {} \/ Some(rgTodo, Frees(d))
(* Before a map is added, its signals are. *)
Wanted ==
  /\ Single(rgTodo, Kind({"addmap"}))
  /\ \A t \in Range(rgTodo) : t.do = "addmap" =>
       /\ \A s \in t.o.src \cup {RgMapDst[t.o.map]} :
            (s \in rgSigs /\ RgOwner[s] \in rgDevs) \/ Preceded(rgTodo, {t}, On({"addsig"}, s))
       /\ RgIsLocal(t.o.map) => t.o.map \notin RgListed /\ t.o.src = RgMapSrc[t.o.map]
(* A marked signal is swept when its device leaves. *)
Swept ==
  \A s \in rgSigs :
    /\ RgOwner[s] \in rgDevs \/ Some(rgTodo, Sweeps \cup Dooms(s))
    /\ s \in rgMarked /\ Some(rgTodo, Leaving(RgOwner[s])) => Some(rgTodo, Sweeps \cup Dooms(s))
(* mpr_graph_free leaves no device and no signal. *)
Freeing ==
  rgCbs = << >> =>
    /\ ~Some(rgTodo, Continues)
    /\ \A o \in rgDevs \cup rgSigs : Some(rgTodo, Dooms(o))
Inv == Types /\ Mode /\ Sound /\ Scheduled /\ Wanted /\ Swept /\ Freeing

(* RgKeep has what is in the list and in the set. *)
LEMMA RgKeepIs ==
  ASSUME NEW T, NEW list \in Seq(T), NEW S
  PROVE  RgKeep(list, S) \in Seq(T) /\ Range(RgKeep(list, S)) = Range(list) \cap S
<1> DEFINE n == Len(list)
           ss == [i \in DOMAIN list |-> IF list[i] \in S THEN <<list[i]>> ELSE << >>]
<1>1. n \in Nat /\ DOMAIN list = 1..n /\ \A i \in 1..n : list[i] \in T
  OBVIOUS
<1>2. ss \in [1..n -> Seq(T)]
  BY <1>1
<1>3. \A i \in 1..n : \A x : x \in Range(ss[i]) <=> list[i] = x /\ x \in S
  BY <1>1 DEF Range
<1>4. RgKeep(list, S) = FlattenSeq(ss)
  BY DEF RgKeep
<1> HIDE DEF ss
<1>5. /\ FlattenSeq(ss) \in Seq(T)
      /\ \A x : x \in Range(FlattenSeq(ss)) <=> \E i \in 1..n : x \in Range(ss[i])
  BY <1>1, <1>2, FlattenHas
<1>6. \A x : x \in Range(list) <=> \E i \in 1..n : list[i] = x
  BY <1>1 DEF Range
<1>7. ASSUME NEW x PROVE x \in Range(FlattenSeq(ss)) <=> x \in Range(list) \cap S
  BY <1>3, <1>5, <1>6
<1> QED BY <1>4, <1>5, <1>7

(* mpr_dev_update_linked keeps a part of the list. *)
LEMMA RgStillLinkedIs ==
  ASSUME NEW T, NEW list \in Seq(T), NEW names
  PROVE  RgStillLinked(list, names) \in Seq(T) /\ Range(RgStillLinked(list, names)) \subseteq Range(list)
<1> DEFINE gone == CHOOSE f : f = [i \in 0..Len(list) |-> i > 0 /\ list[i] \notin names /\ ~f[i - 1]]
           n == Len(list)
           ss == [i \in DOMAIN list |-> IF gone[i] THEN << >> ELSE <<list[i]>>]
<1>1. n \in Nat /\ DOMAIN list = 1..n /\ \A i \in 1..n : list[i] \in T
  OBVIOUS
<1>2. RgStillLinked(list, names) = FlattenSeq(ss)
  BY DEF RgStillLinked
<1> HIDE DEF gone
<1>3. ss \in [1..n -> Seq(T)]
  BY <1>1
<1>4. \A i \in 1..n : Range(ss[i]) \subseteq {list[i]}
  BY <1>1 DEF Range
<1> HIDE DEF ss
<1>5. /\ FlattenSeq(ss) \in Seq(T)
      /\ \A x : x \in Range(FlattenSeq(ss)) <=> \E i \in 1..n : x \in Range(ss[i])
  BY <1>1, <1>3, FlattenHas
<1>6. \A x : x \in Range(list) <=> \E i \in 1..n : list[i] = x
  BY <1>1 DEF Range
<1>7. ASSUME NEW x PROVE x \in Range(FlattenSeq(ss)) => x \in Range(list)
  BY <1>4, <1>5, <1>6
<1> QED BY <1>2, <1>5, <1>7

(* RgEach makes one task for every member of a finite set. *)
LEMMA RgEachIs ==
  ASSUME NEW what, NEW S, IsFiniteSet(S), NEW e, \A o \in S : RgThing(what, o, e) \in Tasks
  PROVE  /\ RgEach(what, S, e) \in Seq(Tasks)
         /\ \A K : Some(RgEach(what, S, e), K) <=> \E o \in S : RgThing(what, o, e) \in K
         /\ \A K : (\A o, p \in S : RgThing(what, o, e) \in K /\ RgThing(what, p, e) \in K => o = p)
                      => Single(RgEach(what, S, e), K)
         /\ \A K : (\A o \in S : RgThing(what, o, e) \in K) => All(RgEach(what, S, e), K)
<1> DEFINE q == SetToSeq(S)
           r == RgEach(what, S, e)
<1>1. /\ q \in Seq(S)
      /\ Range(q) = S
      /\ \A i, j \in DOMAIN q : q[i] = q[j] => i = j
  BY SetToSeqIs
<1>2. r = [i \in 1..Len(q) |-> RgThing(what, q[i], e)]
  BY DEF RgEach
<1> HIDE DEF q, r
<1>3. Len(q) \in Nat /\ DOMAIN q = 1..Len(q) /\ \A i \in 1..Len(q) : q[i] \in S
  BY <1>1
<1>4. r \in Seq(Tasks)
  BY <1>2, <1>3
<1>5. \A i \in DOMAIN r : i \in DOMAIN q /\ q[i] \in S /\ r[i] = RgThing(what, q[i], e)
  BY <1>2, <1>3
<1>6. ASSUME NEW t PROVE t \in Range(r) <=> t \in {RgThing(what, o, e) : o \in S}
  BY <1>1, <1>2, <1>3 DEF Range
<1>7. ASSUME NEW K PROVE Some(r, K) <=> \E o \in S : RgThing(what, o, e) \in K
  BY <1>6, SomeRange
<1>8. ASSUME NEW K, \A o, p \in S : RgThing(what, o, e) \in K /\ RgThing(what, p, e) \in K => o = p
      PROVE  Single(r, K)
  BY <1>1, <1>5, <1>8 DEF Single
<1>9. ASSUME NEW K, \A o \in S : RgThing(what, o, e) \in K PROVE All(r, K)
  BY <1>5, <1>9 DEF All
<1> QED BY <1>4, <1>7, <1>8, <1>9 DEF r

-----------------------------------------------------------------------------
(* The lists of linked devices. *)
LEMMA RangeOfAppend ==
  ASSUME NEW T, NEW q \in Seq(T), NEW x \in T
  PROVE  Append(q, x) \in Seq(T) /\ Range(Append(q, x)) = Range(q) \cup {x}
<1>1. Append(q, x) = q \o <<x>> /\ Append(q, x) \in Seq(T) /\ <<x>> \in Seq(T)
  OBVIOUS
<1>2. Range(<<x>>) = {x}
  BY DEF Range
<1>3. \A y : y \in Range(q \o <<x>>) <=> y \in Range(q) \/ y \in Range(<<x>>)
  BY <1>1, RangeOfConcat
<1> QED BY <1>1, <1>2, <1>3

LEMMA RangeOf ==
  ASSUME NEW T, NEW q \in Seq(T)
  PROVE  /\ Range(q) \subseteq T /\ \A i \in DOMAIN q : q[i] \in Range(q)
         /\ \A x : Contains(q, x) <=> x \in Range(q)
<1>1. DOMAIN q = 1..Len(q) /\ \A i \in DOMAIN q : q[i] \in T
  OBVIOUS
<1> QED BY <1>1 DEF Range, Contains

LEMMA RgWithLinkedIs ==
  ASSUME NEW linked \in Linkings, NEW d \in RgDev, NEW e \in RgDev
  PROVE  /\ RgWithLinked(linked, d, e) \in Linkings
         /\ \A x \in RgDev : Range(RgWithLinked(linked, d, e)[x]) \subseteq
              Range(linked[x]) \cup (IF x = d \/ x = e THEN {d, e} ELSE {})
<1> DEFINE new == RgWithLinked(linked, d, e)
<1>1. ASSUME NEW x \in RgDev
      PROVE  /\ new[x] \in Seq(RgDev)
             /\ Range(new[x]) \subseteq Range(linked[x]) \cup (IF x = d \/ x = e THEN {d, e} ELSE {})
  <2>1. linked[x] \in Seq(RgDev) /\ linked[d] \in Seq(RgDev) /\ linked[e] \in Seq(RgDev)
    BY DEF Linkings
  <2>2. /\ Append(linked[d], e) \in Seq(RgDev) /\ Range(Append(linked[d], e)) = Range(linked[d]) \cup {e}
        /\ Append(linked[e], d) \in Seq(RgDev) /\ Range(Append(linked[e], d)) = Range(linked[e]) \cup {d}
    BY <2>1, RangeOfAppend
  <2>3. new[x] = CASE x = d /\ ~Contains(linked[d], e) -> Append(linked[d], e)
                   [] x = e /\ ~Contains(linked[e], d) -> Append(linked[e], d)
                   [] OTHER -> linked[x]
    BY DEF RgWithLinked
  <2>4. \/ x = d /\ new[x] = Append(linked[d], e)
        \/ x = e /\ new[x] = Append(linked[e], d)
        \/ new[x] = linked[x]
    <3> HIDE DEF new
    <3> QED BY <2>3
  <2> HIDE DEF new
  <2> QED BY <2>1, <2>2, <2>4
<1>2. new = [x \in RgDev |-> new[x]]
  BY DEF RgWithLinked
<1> HIDE DEF new
<1>3. new \in Linkings
  BY <1>1, <1>2 DEF Linkings
<1> QED BY <1>1, <1>3 DEF new

LEMMA RgUnlinkedIs ==
  ASSUME NEW linked \in Linkings, NEW d \in RgDev, NEW e \in RgDev
  PROVE  /\ RgUnlinked(linked, d, e) \in Linkings
         /\ \A x \in RgDev : Range(RgUnlinked(linked, d, e)[x]) \subseteq Range(linked[x])
<1> DEFINE new == RgUnlinked(linked, d, e)
<1>1. ASSUME NEW x \in RgDev
      PROVE  new[x] \in Seq(RgDev) /\ Range(new[x]) \subseteq Range(linked[x])
  <2>1. new[x] = IF x \in {d, e} THEN RgKeep(linked[x], RgDev \ ({d, e} \ {x})) ELSE linked[x]
    BY DEF RgUnlinked
  <2>2. linked[x] \in Seq(RgDev)
    BY DEF Linkings
  <2> HIDE DEF new
  <2> QED BY <2>1, <2>2, RgKeepIs
<1>2. new = [x \in RgDev |-> new[x]]
  BY DEF RgUnlinked
<1> HIDE DEF new
<1>3. new \in Linkings
  BY <1>1, <1>2 DEF Linkings
<1> QED BY <1>1, <1>3 DEF new

LEMMA RgAllUnlinkedIs ==
  ASSUME NEW d \in RgDev, rgLinked \in Linkings
  PROVE  /\ RgAllUnlinked(d) \in Linkings
         /\ \A x \in RgDev : /\ Range(RgAllUnlinked(d)[x]) \subseteq Range(rgLinked[x])
                             /\ x # d => d \notin Range(RgAllUnlinked(d)[x])
<1> DEFINE new == RgAllUnlinked(d)
<1>1. ASSUME NEW x \in RgDev
      PROVE  /\ new[x] \in Seq(RgDev) /\ Range(new[x]) \subseteq Range(rgLinked[x])
             /\ x # d => d \notin Range(new[x])
  <2>1. new[x] = RgKeep(rgLinked[x], IF x = d THEN RgDev \ rgDevs ELSE RgDev \ {d})
    BY DEF RgAllUnlinked
  <2>2. rgLinked[x] \in Seq(RgDev)
    BY DEF Linkings
  <2> HIDE DEF new
  <2> QED BY <2>1, <2>2, RgKeepIs
<1>2. new = [x \in RgDev |-> new[x]]
  BY DEF RgAllUnlinked
<1> HIDE DEF new
<1>3. new \in Linkings
  BY <1>1, <1>2 DEF Linkings
<1> QED BY <1>1, <1>3 DEF new

LEMMA RgRelinkedIs ==
  ASSUME NEW d \in RgDev, NEW names \in SUBSET RgDev, d \notin names, rgLinked \in Linkings
  PROVE  /\ RgRelinked(d, names) \in Linkings
         /\ \A x \in RgDev : Range(RgRelinked(d, names)[x]) \subseteq
              Range(rgLinked[x]) \cup (IF x = d THEN names ELSE IF x \in names THEN {d} ELSE {})
<1> DEFINE new == RgRelinked(d, names)
           still == RgStillLinked(rgLinked[d], names)
           more == SetToSeq(names \ Range(still))
<1>1. rgLinked[d] \in Seq(RgDev) /\ still \in Seq(RgDev) /\ Range(still) \subseteq Range(rgLinked[d])
  BY RgStillLinkedIs DEF Linkings
<1> HIDE DEF still
<1>2. IsFiniteSet(RgDev) /\ names \ Range(still) \subseteq RgDev
  BY RgAssumption
<1>3. more \in Seq(names \ Range(still)) /\ Range(more) = names \ Range(still)
  BY <1>2, FS_Subset, SetToSeqIs
<1>4. more \in Seq(RgDev)
  BY <1>2, <1>3
<1> HIDE DEF more
<1>5. /\ still \o more \in Seq(RgDev)
      /\ \A x : x \in Range(still \o more) <=> x \in Range(still) \/ x \in Range(more)
  BY <1>1, <1>4, RangeOfConcat
<1>6. ASSUME NEW x \in RgDev
      PROVE  /\ new[x] \in Seq(RgDev)
             /\ Range(new[x]) \subseteq
                  Range(rgLinked[x]) \cup (IF x = d THEN names ELSE IF x \in names THEN {d} ELSE {})
  <2>1. new[x] = CASE x = d -> still \o more
                   [] x \in names /\ ~Contains(rgLinked[x], d) -> Append(rgLinked[x], d)
                   [] OTHER -> rgLinked[x]
    BY DEF RgRelinked, still, more
  <2>2. \/ x = d /\ new[x] = still \o more
        \/ x # d /\ x \in names /\ new[x] = Append(rgLinked[x], d)
        \/ x # d /\ new[x] = rgLinked[x]
    <3> HIDE DEF new
    <3>1. CASE x = d
      BY <2>1, <3>1
    <3>2. CASE x # d /\ x \in names /\ ~Contains(rgLinked[x], d)
      BY <2>1, <3>2
    <3>3. CASE x # d /\ ~(x \in names /\ ~Contains(rgLinked[x], d))
      BY <2>1, <3>3
    <3> QED BY <3>1, <3>2, <3>3
  <2>3. rgLinked[x] \in Seq(RgDev)
    BY DEF Linkings
  <2>4. Append(rgLinked[x], d) \in Seq(RgDev) /\ Range(Append(rgLinked[x], d)) = Range(rgLinked[x]) \cup {d}
    BY <2>3, RangeOfAppend
  <2> HIDE DEF new
  <2>5. CASE x = d /\ new[x] = still \o more
    BY <2>5, <1>1, <1>3, <1>5
  <2> QED BY <2>2, <2>3, <2>4, <2>5
<1>7. new = [x \in RgDev |-> new[x]]
  BY DEF RgRelinked
<1> HIDE DEF new
<1>8. new \in Linkings
  BY <1>6, <1>7 DEF Linkings
<1> QED BY <1>6, <1>8 DEF new

-----------------------------------------------------------------------------
(* The things there are to do. *)
LEMMA TaskIs ==
  ASSUME NEW t \in Tasks
  PROVE  /\ t.do \in {"map", "sig", "dev", "unlink", "sweep", "unlist", "call", "free", "link", "cut",
                      "addsig", "addmap", "walk"}
         /\ t.do = "map" => t.o \in RgMap
         /\ t.do = "sig" => t.o \in RgSig
         /\ t.do \in {"dev", "unlink", "sweep"} => t.o \in RgDev
         /\ t.do \in {"unlist", "call", "free", "walk"} => t.o \in Objects
         /\ t.do \in {"link", "cut"} => t.o \in Bonds
         /\ t.do = "addsig" => t.o \in RgSig
         /\ t.do = "addmap" => t.o \in Wishes /\ t.o.src \subseteq RgMapSrc[t.o.map]
         /\ t.do = "walk" => t.rest \in Walks
         /\ t.do \notin {"addsig", "addmap"} => t.e \in Events
BY DEF Tasks

(* RgThing makes a task of what it is given. *)
LEMMA ThingIs ==
  ASSUME NEW what, NEW o, NEW e
  PROVE  /\ RgThing(what, o, e).do = what /\ RgThing(what, o, e).o = o /\ RgThing(what, o, e).e = e
         /\ what = "map" /\ o \in RgMap /\ e \in Events => RgThing(what, o, e) \in Tasks
         /\ what = "sig" /\ o \in RgSig /\ e \in Events => RgThing(what, o, e) \in Tasks
         /\ what \in {"dev", "unlink", "sweep"} /\ o \in RgDev /\ e \in Events => RgThing(what, o, e) \in Tasks
         /\ what \in {"unlist", "call", "free"} /\ o \in Objects /\ e \in Events => RgThing(what, o, e) \in Tasks
         /\ what \in {"link", "cut"} /\ o \in Bonds /\ e \in Events => RgThing(what, o, e) \in Tasks
         /\ what = "addsig" /\ o \in RgSig /\ e \in {"changed", "known"} => RgThing(what, o, e) \in Tasks
         /\ what = "addmap" /\ o \in Wishes /\ o.src \subseteq RgMapSrc[o.map] /\ e = "new"
              => RgThing(what, o, e) \in Tasks
BY DEF RgThing, Tasks

LEMMA WalkIs ==
  ASSUME NEW o \in Objects, NEW e \in Events, NEW rest \in Walks
  PROVE  /\ RgWalk(o, e, rest) \in Tasks /\ RgWalk(o, e, rest).do = "walk" /\ RgWalk(o, e, rest).o = o
         /\ RgWalk(o, e, rest).e = e /\ RgWalk(o, e, rest).rest = rest
BY DEF RgWalk, Tasks

(* What the expansions of a removal hold. *)
LEMMA Three ==
  ASSUME NEW T, NEW x \in T, NEW y \in T, NEW z \in T
  PROVE  /\ <<x, y, z>> \in Seq(T)
         /\ \A K : Some(<<x, y, z>>, K) <=> x \in K \/ y \in K \/ z \in K
         /\ \A K : All(<<x, y, z>>, K) <=> x \in K /\ y \in K /\ z \in K
         /\ \A K, L : y \notin K /\ z \notin K /\ (y \in L \/ z \in L) => Followed(<<x, y, z>>, K, L)
         /\ \A K, L : x \notin K /\ z \notin K /\ x \in L => Preceded(<<x, y, z>>, K, L)
         /\ \A K : x \notin K /\ z \notin K => Single(<<x, y, z>>, K)
<1> DEFINE q == <<x, y, z>>
<1>1. /\ q \in Seq(T) /\ 1 \in DOMAIN q /\ 2 \in DOMAIN q /\ 3 \in DOMAIN q
      /\ q[1] = x /\ q[2] = y /\ q[3] = z /\ \A i \in DOMAIN q : i = 1 \/ i = 2 \/ i = 3
  OBVIOUS
<1> HIDE DEF q
<1>2. 1 < 2 /\ 1 < 3
  OBVIOUS
<1>3. \A K : (Some(q, K) <=> x \in K \/ y \in K \/ z \in K) /\ (All(q, K) <=> x \in K /\ y \in K /\ z \in K)
  BY <1>1 DEF Some, All
<1>4. \A K, L : y \notin K /\ z \notin K /\ (y \in L \/ z \in L) => Followed(q, K, L)
  BY <1>1, <1>2 DEF Followed
<1>5. \A K, L : x \notin K /\ z \notin K /\ x \in L => Preceded(q, K, L)
  BY <1>1, <1>2 DEF Preceded
<1>6. \A K : x \notin K /\ z \notin K => Single(q, K)
  BY <1>1 DEF Single
<1> QED BY <1>1, <1>3, <1>4, <1>5, <1>6 DEF q

LEMMA RemoveMapIs ==
  ASSUME NEW m \in RgMap, NEW e \in Events, NEW q, q = RgRemoveMap(m, e)
  PROVE  /\ q \in Seq(Tasks)
         /\ \A K : Some(q, K) <=> \/ RgThing("unlist", m, e) \in K
                                  \/ rgMaps[m].is = "active" /\ RgThing("call", m, e) \in K
                                  \/ RgThing("free", m, e) \in K
<1> DEFINE u == RgThing("unlist", m, e)
           c == RgThing("call", m, e)
           f == RgThing("free", m, e)
           s == IF rgMaps[m].is = "active" THEN <<c>> ELSE << >>
<1>1. u \in Tasks /\ c \in Tasks /\ f \in Tasks
  BY ThingIs DEF Objects
<1>2. q = <<u>> \o s \o <<f>>
  BY DEF RgRemoveMap, RgCall
<1> HIDE DEF u, c, f
<1>3. <<u>> \in Seq(Tasks) /\ <<f>> \in Seq(Tasks) /\ s \in Seq(Tasks)
  BY <1>1
<1>4. \A K : Some(s, K) <=> rgMaps[m].is = "active" /\ c \in K
  BY OneThing, Nothing
<1> HIDE DEF s
<1>5. <<u>> \o s \in Seq(Tasks)
  BY <1>3
<1>6. ASSUME NEW K PROVE Some(q, K) <=> u \in K \/ Some(s, K) \/ f \in K
  <2>1. Some(<<u>> \o s \o <<f>>, K) <=> Some(<<u>> \o s, K) \/ Some(<<f>>, K)
    BY <1>3, <1>5, SomeConcat
  <2>2. Some(<<u>> \o s, K) <=> Some(<<u>>, K) \/ Some(s, K)
    BY <1>3, SomeConcat
  <2>3. (Some(<<u>>, K) <=> u \in K) /\ (Some(<<f>>, K) <=> f \in K)
    BY OneThing
  <2> QED BY <2>1, <2>2, <2>3, <1>2
<1>7. q \in Seq(Tasks)
  BY <1>2, <1>3, <1>5
<1> QED BY <1>4, <1>6, <1>7 DEF u, c, f

LEMMA FiniteSets == IsFiniteSet(RgMap) /\ IsFiniteSet(RgSig) /\ IsFiniteSet(RgDev) /\ IsFiniteSet(Bonds)
<1>1. IsFiniteSet(RgDev)
  BY RgAssumption
<1>2. IsFiniteSet(SUBSET RgDev)
  BY <1>1, FS_SUBSET
<1>3. Bonds \subseteq SUBSET RgDev
  BY DEF Bonds, Pairs
<1> QED BY <1>2, <1>3, FS_Subset, RgAssumption

(* RgEach for maps, signals, devices and links. *)
LEMMA EachMap ==
  ASSUME NEW S \in SUBSET RgMap, NEW e \in Events
  PROVE  /\ RgEach("map", S, e) \in Seq(Tasks)
         /\ \A K : Some(RgEach("map", S, e), K) <=> \E o \in S : RgThing("map", o, e) \in K
         /\ \A K : (\A o, p \in S : RgThing("map", o, e) \in K /\ RgThing("map", p, e) \in K => o = p)
                      => Single(RgEach("map", S, e), K)
         /\ \A K : (\A o \in S : RgThing("map", o, e) \in K) => All(RgEach("map", S, e), K)
<1>1. IsFiniteSet(S) /\ \A o \in S : RgThing("map", o, e) \in Tasks
  BY FiniteSets, FS_Subset, ThingIs
<1> QED BY <1>1, RgEachIs

LEMMA EachSig ==
  ASSUME NEW S \in SUBSET RgSig, NEW e \in Events
  PROVE  /\ RgEach("sig", S, e) \in Seq(Tasks)
         /\ \A K : Some(RgEach("sig", S, e), K) <=> \E o \in S : RgThing("sig", o, e) \in K
         /\ \A K : (\A o, p \in S : RgThing("sig", o, e) \in K /\ RgThing("sig", p, e) \in K => o = p)
                      => Single(RgEach("sig", S, e), K)
         /\ \A K : (\A o \in S : RgThing("sig", o, e) \in K) => All(RgEach("sig", S, e), K)
<1>1. IsFiniteSet(S) /\ \A o \in S : RgThing("sig", o, e) \in Tasks
  BY FiniteSets, FS_Subset, ThingIs
<1> QED BY <1>1, RgEachIs

LEMMA EachDev ==
  ASSUME NEW S \in SUBSET RgDev, NEW e \in Events
  PROVE  /\ RgEach("dev", S, e) \in Seq(Tasks)
         /\ \A K : Some(RgEach("dev", S, e), K) <=> \E o \in S : RgThing("dev", o, e) \in K
         /\ \A K : (\A o, p \in S : RgThing("dev", o, e) \in K /\ RgThing("dev", p, e) \in K => o = p)
                      => Single(RgEach("dev", S, e), K)
         /\ \A K : (\A o \in S : RgThing("dev", o, e) \in K) => All(RgEach("dev", S, e), K)
<1>1. IsFiniteSet(S) /\ \A o \in S : RgThing("dev", o, e) \in Tasks
  BY FiniteSets, FS_Subset, ThingIs
<1> QED BY <1>1, RgEachIs

LEMMA EachLink ==
  ASSUME NEW S \in SUBSET Bonds, NEW e \in Events
  PROVE  /\ RgEach("link", S, e) \in Seq(Tasks)
         /\ \A K : Some(RgEach("link", S, e), K) <=> \E o \in S : RgThing("link", o, e) \in K
         /\ \A K : (\A o, p \in S : RgThing("link", o, e) \in K /\ RgThing("link", p, e) \in K => o = p)
                      => Single(RgEach("link", S, e), K)
         /\ \A K : (\A o \in S : RgThing("link", o, e) \in K) => All(RgEach("link", S, e), K)
<1>1. IsFiniteSet(S) /\ \A o \in S : RgThing("link", o, e) \in Tasks
  BY FiniteSets, FS_Subset, ThingIs
<1> QED BY <1>1, RgEachIs

(* What holds of two sequences of tasks, one after the other. *)
LEMMA Joined ==
  ASSUME NEW a \in Seq(Tasks), NEW b \in Seq(Tasks)
  PROVE  /\ a \o b \in Seq(Tasks)
         /\ \A K : Some(a \o b, K) <=> Some(a, K) \/ Some(b, K)
         /\ \A K, L : ~Some(a, K) /\ (Some(a, L) \/ Preceded(b, K, L)) => Preceded(a \o b, K, L)
         /\ \A K, L : ~Some(a, K) /\ Followed(b, K, L) => Followed(a \o b, K, L)
         /\ \A K : Single(a, K) /\ Single(b, K) /\ (~Some(a, K) \/ ~Some(b, K)) => Single(a \o b, K)
         /\ \A K : Grouped(a, K) /\ ~Some(b, K) => Grouped(a \o b, K)
         /\ \A K : All(a, K) /\ Grouped(b, K) => Grouped(a \o b, K)
         /\ \A K : All(a, K) /\ All(b, K) => All(a \o b, K)
<1>1. a \o b \in Seq(Tasks)
  OBVIOUS
<1>2. ASSUME NEW K PROVE Some(a \o b, K) <=> Some(a, K) \/ Some(b, K)
  BY SomeConcat
<1>3. ASSUME NEW K, NEW L, ~Some(a, K), Some(a, L) \/ Preceded(b, K, L) PROVE Preceded(a \o b, K, L)
  <2>1. Preceded(a, K, L)
    BY <1>3, WithoutSome
  <2> QED BY <2>1, <1>3, PrecededConcat
<1>4. ASSUME NEW K, NEW L, ~Some(a, K), Followed(b, K, L) PROVE Followed(a \o b, K, L)
  <2>1. Followed(a, K, L)
    BY <1>4, WithoutSome
  <2> QED BY <2>1, <1>4, FollowedConcat
<1>5. ASSUME NEW K, Single(a, K), Single(b, K), ~Some(a, K) \/ ~Some(b, K) PROVE Single(a \o b, K)
  BY <1>5, SingleConcat
<1>6. ASSUME NEW K, Grouped(a, K), ~Some(b, K) PROVE Grouped(a \o b, K)
  <2>1. Grouped(b, K)
    BY <1>6, WithoutSome
  <2> QED BY <2>1, <1>6, GroupedConcat
<1>7. ASSUME NEW K, All(a, K), Grouped(b, K) PROVE Grouped(a \o b, K)
  <2>1. Grouped(a, K)
    BY <1>7 DEF All, Grouped
  <2> QED BY <2>1, <1>7, GroupedConcat
<1>8. ASSUME NEW K, All(a, K), All(b, K) PROVE All(a \o b, K)
  <2>1. \A i \in DOMAIN (a \o b) : \/ i \in DOMAIN a /\ (a \o b)[i] = a[i]
                                   \/ \E j \in DOMAIN b : (a \o b)[i] = b[j]
    BY ConcatIs
  <2> QED BY <2>1, <1>8, Zenon DEF All
<1> QED BY <1>1, <1>2, <1>3, <1>4, <1>5, <1>6, <1>7, <1>8, Zenon

(* unlist, call and free, in this order *)
LEMMA LeaveIs ==
  ASSUME NEW o \in Objects, NEW e \in Events,
         NEW u, u = RgThing("unlist", o, e), NEW c, c = RgThing("call", o, e), NEW f, f = RgThing("free", o, e)
  PROVE  /\ <<u, c, f>> \in Seq(Tasks)
         /\ \A K : Some(<<u, c, f>>, K) <=> u \in K \/ c \in K \/ f \in K
         /\ \A K : All(<<u, c, f>>, K) <=> u \in K /\ c \in K /\ f \in K
         /\ \A K, L : c \notin K /\ f \notin K /\ (c \in L \/ f \in L) => Followed(<<u, c, f>>, K, L)
         /\ \A K, L : u \notin K /\ f \notin K /\ u \in L => Preceded(<<u, c, f>>, K, L)
         /\ \A K : u \notin K /\ f \notin K => Single(<<u, c, f>>, K)
<1>1. u \in Tasks /\ c \in Tasks /\ f \in Tasks
  BY ThingIs
<1> QED BY <1>1, Three

-----------------------------------------------------------------------------
(* What holds of things to do that only add, or only remove. *)
LEMMA SomeIn ==
  ASSUME NEW q \in Seq(Tasks), NEW K, NEW L, Some(q, K), K \cap Tasks \subseteq L
  PROVE  Some(q, L)
<1>1. \A i \in DOMAIN q : q[i] \in Tasks
  OBVIOUS
<1> QED BY <1>1 DEF Some

(* While records are added, no task removes one. *)
LEMMA AddingVoid ==
  ASSUME NEW q \in Seq(Tasks), Adding(q)
  PROVE  /\ \A K : K \cap (Adds \cup Brings) = {} => ~Some(q, K)
         /\ \A o, L : Preceded(q, Leaves(o), L) /\ Followed(q, Leaves(o), L)
         /\ \A o : ~Some(q, Frees(o)) /\ ~Some(q, Leaving(o))
<1>1. ASSUME NEW K, K \cap (Adds \cup Brings) = {}, Some(q, K) PROVE FALSE
  <2>1. q # << >>
    BY <1>1, Nothing
  <2>2. Head(q) \in Adds \cup Brings /\ ~Some(Tail(q), Tasks \ Adds) /\ Tail(q) \in Seq(Tasks)
    BY <2>1, TailIs DEF Adding
  <2>3. Head(q) \in K \/ Some(Tail(q), K)
    BY <1>1, <2>1, SomeTail
  <2>4. Some(Tail(q), K)
    BY <2>2, <2>3, <1>1
  <2>5. K \cap Tasks \subseteq Tasks \ Adds
    BY <1>1
  <2> QED BY <2>2, <2>4, <2>5, SomeIn
<1>2. ASSUME NEW o
      PROVE  /\ Leaves(o) \cap (Adds \cup Brings) = {} /\ Frees(o) \cap (Adds \cup Brings) = {}
             /\ Leaving(o) \cap (Adds \cup Brings) = {}
  BY DEF Leaves, Frees, Leaving, On, Adds, Brings, Kind
<1>3. \A o : ~Some(q, Leaves(o)) /\ ~Some(q, Frees(o)) /\ ~Some(q, Leaving(o))
  BY <1>1, <1>2
<1>4. \A o, L : Preceded(q, Leaves(o), L) /\ Followed(q, Leaves(o), L)
  BY <1>3, WithoutSome
<1> QED BY <1>1, <1>3, <1>4

(* While records are removed, no task adds one. *)
LEMMA RemovingVoid ==
  ASSUME NEW q \in Seq(Tasks), Removing(q)
  PROVE  /\ \A K : K \cap Ends = {} => ~Some(q, K)
         /\ \A t \in Range(q) : t.do # "addmap"
         /\ Single(q, Kind({"addmap"}))
<1>1. ASSUME NEW K, K \cap Ends = {}, Some(q, K) PROVE FALSE
  <2>1. K \cap Tasks \subseteq Tasks \ Ends
    BY <1>1
  <2> QED BY <1>1, <2>1, SomeIn DEF Removing
<1>2. Kind({"addmap"}) \cap Ends = {}
  BY DEF Kind, Ends
<1>3. ~Some(q, Kind({"addmap"}))
  BY <1>1, <1>2
<1>4. ASSUME NEW t \in Range(q), t.do = "addmap" PROVE FALSE
  <2>1. t \in Tasks
    BY RangeOf
  <2>2. t \in Kind({"addmap"})
    BY <2>1, <1>4 DEF Kind
  <2> QED BY <1>3, <2>2, SomeRange
<1> QED BY <1>1, <1>3, <1>4, WithoutSome

LEMMA WhichMode ==
  ASSUME rgTodo \in Seq(Tasks), rgTodo # << >>, Mode
  PROVE  /\ Head(rgTodo) \in Tasks /\ Tail(rgTodo) \in Seq(Tasks)
         /\ Head(rgTodo).do \notin {"addsig", "addmap", "call", "walk"} => Removing(rgTodo) /\ Head(rgTodo) \in Ends
         /\ Head(rgTodo).do \in {"addsig", "addmap"} => Adding(rgTodo) /\ rgCbs # << >>
<1>1. Head(rgTodo) \in Tasks /\ Tail(rgTodo) \in Seq(Tasks)
  BY TailIs
<1>2. Removing(rgTodo) => Head(rgTodo) \in Ends
  <2>1. Head(rgTodo) \in Tasks \ Ends => Some(rgTodo, Tasks \ Ends)
    BY SomeTail
  <2> QED BY <1>1, <2>1 DEF Removing
<1>3. Adding(rgTodo) => Head(rgTodo) \in Adds \cup Brings
  BY DEF Adding
<1> QED BY <1>1, <1>2, <1>3 DEF Mode, Adds, Brings, Ends, Kind

LEMMA AddingGoesOn ==
  ASSUME NEW q \in Seq(Tasks), q # << >>, Adding(q), NEW r
  PROVE  /\ r = << >> \o Tail(q) => Adding(r)
         /\ \A x \in Adds \cup Brings : r = <<x>> \o Tail(q) => Adding(r)
<1>1. Tail(q) \in Seq(Tasks) /\ ~Some(Tail(q), Tasks \ Adds)
  BY TailIs DEF Adding
<1>2. ASSUME r = << >> \o Tail(q) PROVE Adding(r)
  <2>1. r = Tail(q)
    BY <1>1, <1>2
  <2> SUFFICES ASSUME r # << >> PROVE Head(r) \in Adds /\ ~Some(Tail(r), Tasks \ Adds)
    BY DEF Adding
  <2>2. r \in Seq(Tasks) /\ ~Some(r, Tasks \ Adds)
    BY <1>1, <2>1
  <2>3. Head(r) \in Tasks /\ (Some(r, Tasks \ Adds) <=> Head(r) \in Tasks \ Adds \/ Some(Tail(r), Tasks \ Adds))
    BY <2>2, TailIs, SomeTail
  <2> QED BY <2>2, <2>3
<1>3. ASSUME NEW x \in Adds \cup Brings, r = <<x>> \o Tail(q) PROVE Adding(r)
  <2>1. Head(r) = x /\ Tail(r) = Tail(q)
    BY <1>1, <1>3
  <2> QED BY <1>1, <2>1 DEF Adding
<1> QED BY <1>2, <1>3

LEMMA AddingBegins ==
  /\ Adding(<< >>) /\ Removing(<< >>)
  /\ \A x \in Adds \cup Brings : Adding(<<x>>)
<1>1. Adding(<< >>) /\ Removing(<< >>)
  BY Nothing DEF Adding, Removing
<1>2. ASSUME NEW x \in Adds \cup Brings PROVE Adding(<<x>>)
  <2>1. Head(<<x>>) = x /\ Tail(<<x>>) = << >>
    OBVIOUS
  <2> QED BY <2>1, Nothing DEF Adding
<1> QED BY <1>1, <1>2

(* Between two messages nothing is left to do. *)
LEMMA IdleIs ==
  ASSUME Inv, rgTodo = << >>
  PROVE  /\ \A s \in rgSigs : RgOwner[s] \in rgDevs
         /\ \A d \in RgDev \ rgDevs : Range(rgLinked[d]) = {}
         /\ \A d \in rgDevs : Range(rgLinked[d]) \subseteq rgDevs
BY Nothing DEF Inv, Swept, Scheduled, Sound

(* While records are added the rest holds because nothing is removed. *)
LEMMA WhileAdding ==
  ASSUME Types', Adding(rgTodo'), rgCbs' # << >>, Sound', Wanted',
         \A s \in rgSigs' : RgOwner[s] \in rgDevs',
         \A d \in RgDev \ rgDevs' : Range(rgLinked'[d]) = {}
  PROVE  Inv'
<1>1. rgTodo' \in Seq(Tasks)
  BY DEF Types
<1>2. /\ \A o, L : Preceded(rgTodo', Leaves(o), L) /\ Followed(rgTodo', Leaves(o), L)
      /\ \A o : ~Some(rgTodo', Leaving(o))
  BY <1>1, AddingVoid
<1>3. Mode' /\ Freeing'
  BY DEF Mode, Freeing
<1>4. Scheduled'
  BY <1>2 DEF Scheduled
<1>5. Swept'
  BY <1>2 DEF Swept
<1> QED BY <1>3, <1>4, <1>5 DEF Inv

(* Nothing is wanted while records are removed. *)
LEMMA WhileRemoving ==
  ASSUME NEW q \in Seq(Tasks), Removing(q), rgTodo' = q
  PROVE  Mode' /\ Wanted'
<1>1. Mode'
  BY DEF Mode
<1>2. Wanted'
  BY RemovingVoid DEF Wanted
<1> QED BY <1>1, <1>2

(* A removal that begins. *)
LEMMA RemovalBegins ==
  ASSUME Inv, rgTodo = << >>, UNCHANGED <<rgDevs, rgSigs, rgLinks, rgMaps, rgLinked, rgOnLink, rgSlots, rgFree>>,
         rgMarked \subseteq rgMarked', NEW q \in Seq(Tasks), rgTodo' = q, Removing(q), Types',
         ~Some(q, Kind({"unlist"})),
         \A s \in rgSigs \cap rgMarked' : Some(q, Leaving(RgOwner[s])) => Some(q, Sweeps \cup Dooms(s)),
         Freeing'
  PROVE  Inv'
<1>1. \A o : ~Some(q, Leaves(o))
  <2>1. \A o : Leaves(o) \subseteq Kind({"unlist"})
    BY DEF Leaves, On, Kind
  <2> QED BY <2>1, SomeIn
<1>2. \A o, L : Preceded(rgTodo', Leaves(o), L) /\ Followed(rgTodo', Leaves(o), L)
  BY <1>1, WithoutSome
<1>3. /\ \A s \in rgSigs : RgOwner[s] \in rgDevs
      /\ \A d \in RgDev \ rgDevs : Range(rgLinked[d]) = {}
  BY IdleIs
<1>4. Sound'
  BY DEF Inv, Sound, RgSigsOf, RgListed
<1>5. Scheduled'
  BY <1>2, <1>3 DEF Scheduled
<1>6. Swept'
  BY <1>3 DEF Swept
<1>7. Mode' /\ Wanted'
  BY WhileRemoving
<1> QED BY <1>4, <1>5, <1>6, <1>7 DEF Inv

(* What becomes of all this when new things take the place of the first. *)
Replaces(q, new, h, r) ==
  /\ r \in Seq(Tasks) /\ h \in Tasks /\ Tail(q) \in Seq(Tasks)
  /\ \A K : h \in K => Some(q, K)
  /\ \A K : Some(r, K) => Some(new, K) \/ Some(q, K)
  /\ \A K : Some(r, K) => Some(new, K) \/ Some(Tail(q), K)
  /\ \A K : Some(Tail(q), K) => Some(q, K)
  /\ \A K : Some(new, K) => Some(r, K)
  /\ \A K : Some(q, K) /\ h \notin K => Some(r, K)
  /\ \A K, L : Preceded(q, K, L) => h \notin K
  /\ \A K, L : Preceded(q, K, L) /\ Preceded(new, K, L) /\ (h \notin L \/ Some(new, L))
                 => Preceded(r, K, L)
  /\ \A K, L : Followed(q, K, L) /\ Followed(new, K, L) => Followed(r, K, L)
  /\ \A K, L : Followed(q, K, L) /\ h \in K => Some(r, L)
  /\ \A K : Single(q, K) /\ h \in K => ~Some(Tail(q), K)
  /\ \A K : Single(q, K) /\ Single(new, K) /\ (h \in K \/ ~Some(q, K) \/ ~Some(new, K))
              => Single(r, K)
  /\ \A K : Single(new, K) /\ ~Some(Tail(q), K) => Single(r, K)
  /\ \A K : Grouped(q, K) /\ h \notin K => ~Some(Tail(q), K)
  /\ \A K : Grouped(q, K) /\ Grouped(new, K) /\ (h \in K => All(new, K)) => Grouped(r, K)
LEMMA Goes ==
  ASSUME NEW q \in Seq(Tasks), q # << >>, NEW new \in Seq(Tasks), NEW r, r = new \o Tail(q), NEW h, h = Head(q)
  PROVE  Replaces(q, new, h, r)
<1> DEFINE t == Tail(q)
<1>0. t \in Seq(Tasks) /\ h \in Tasks
  BY TailIs
<1> HIDE DEF t
<1>1. r = new \o t
  BY DEF t
<1>2. r \in Seq(Tasks)
  BY <1>0, <1>1
<1>3. ASSUME NEW K PROVE Some(r, K) <=> Some(new, K) \/ Some(t, K)
  <2>1. Some(new \o t, K) <=> Some(new, K) \/ Some(t, K)
    BY <1>0, SomeConcat
  <2> QED BY <2>1, <1>1
<1>4. \A K : Some(q, K) <=> h \in K \/ Some(t, K)
  BY SomeTail DEF t
<1>5. ASSUME NEW K, NEW L, Preceded(q, K, L) PROVE h \notin K
  BY <1>5, PrecededHead
<1>6. ASSUME NEW K, NEW L, Preceded(q, K, L), Preceded(new, K, L), h \notin L \/ Some(new, L)
      PROVE  Preceded(r, K, L)
  <2>1. CASE Some(new, L)
    BY <2>1, <1>0, <1>1, <1>6, PrecededConcat
  <2>2. CASE h \notin L
    <3>1. Preceded(t, K, L)
      BY <2>2, <1>6, PrecededTail DEF t
    <3> QED BY <3>1, <1>0, <1>1, <1>6, PrecededConcat
  <2> QED BY <2>1, <2>2, <1>6
<1>7. ASSUME NEW K, NEW L, Followed(q, K, L)
      PROVE  (Followed(new, K, L) => Followed(r, K, L)) /\ (h \in K => Some(r, L))
  <2>1. Followed(t, K, L) /\ (h \in K => Some(t, L))
    BY <1>7, FollowedTail DEF t
  <2> QED BY <2>1, <1>0, <1>1, <1>3, FollowedConcat
<1>8. ASSUME NEW K, Single(q, K)
      PROVE  /\ h \in K => ~Some(t, K)
             /\ Single(new, K) /\ (h \in K \/ ~Some(q, K) \/ ~Some(new, K)) => Single(r, K)
  <2>1. Single(t, K) /\ (h \in K => ~Some(t, K))
    BY <1>8, SingleTail DEF t
  <2> QED BY <2>1, <1>0, <1>1, <1>4, SingleConcat
<1>9. ASSUME NEW K, Single(new, K), ~Some(t, K) PROVE Single(r, K)
  <2>1. Single(t, K)
    BY <1>9, WithoutSome
  <2> QED BY <2>1, <1>9, <1>0, <1>1, SingleConcat
<1>10. ASSUME NEW K, Grouped(q, K)
       PROVE  /\ h \notin K => ~Some(t, K)
              /\ Grouped(new, K) /\ (h \in K => All(new, K)) => Grouped(r, K)
  <2>1. Grouped(t, K) /\ (h \notin K => ~Some(t, K))
    BY <1>10, GroupedTail DEF t
  <2> QED BY <2>1, <1>0, <1>1, GroupedConcat
<1> QED BY <1>0, <1>2, <1>3, <1>4, <1>5, <1>6, <1>7, <1>8, <1>9, <1>10, Zenon DEF t, Replaces

(* What takes the place of the head when it is taken apart. *)
GoesOn(h, new) ==
  /\ Removing(new)
  /\ \A o \in Objects : h \in Dooms(o) => Some(new, Dooms(o))
  /\ \A k \in Bonds : h \in Cuts(k) => Some(new, Cuts(k))
  /\ \A d \in RgDev : h \notin Unlinks(d) /\ h \notin Frees(d)
  /\ h \in Sweeps => \A s \in rgSigs \cap rgMarked : Some(new, Dooms(s))
  /\ \A m \in RgListed \ rgMarked : \A s \in RgSigsOf(m) : Preceded(new, Leaves(s), Dooms(m))
  /\ \A s \in rgSigs \ rgMarked : Preceded(new, Leaves(RgOwner[s]), Dooms(s))
  /\ \A k \in rgLinks : \A d \in k : Preceded(new, Leaves(d), Cuts(k))
  /\ \A d \in RgDev : Preceded(new, Leaves(d), Unlinks(d)) /\ Followed(new, Leaves(d), Frees(d))
  /\ \A d \in RgDev : Some(new, Leaving(d)) => h \in Leaving(d)

(* A step that takes the head apart, or does nothing but call handlers. *)
LEMMA RemovalGoesOn ==
  ASSUME Inv, UNCHANGED rgLists, Types', rgTodo # << >>, Removing(rgTodo),
         NEW h, h = Head(rgTodo), NEW new \in Seq(Tasks), rgTodo' = new \o Tail(rgTodo), GoesOn(h, new),
         rgCbs' = << >> => rgCbs = << >> /\ ~Some(new, Continues)
  PROVE  Inv'
<1> DEFINE q == rgTodo
           r == rgTodo'
<1>0. /\ q \in Seq(Tasks) /\ RgListed \subseteq RgMap /\ rgLinks \subseteq Bonds /\ rgSigs \subseteq RgSig
      /\ rgDevs \subseteq RgDev
      /\ \A m \in RgListed : RgSigsOf(m) \subseteq RgSig
  BY RgAssumption DEF Inv, Types, RgSigsOf
<1>1. Replaces(q, new, h, r)
  BY <1>0, Goes
<1> USE <1>1 DEF Replaces, GoesOn
<1>2. Removing(r)
  BY <1>1 DEF Removing
<1>3. UNCHANGED <<rgDevs, rgSigs, rgLinks, rgMaps, rgLinked, rgOnLink, rgSlots, rgMarked, rgFree>>
  BY DEF rgLists
<1>4. Sound'
  BY <1>3 DEF Inv, Sound, RgSigsOf, RgListed
<1>5. Scheduled'
  <2>1. ASSUME NEW m \in RgListed \ rgMarked, NEW s \in RgSigsOf(m) PROVE Preceded(r, Leaves(s), Dooms(m))
    <3>1. Preceded(q, Leaves(s), Dooms(m)) /\ m \in Objects
      BY <1>0 DEF Inv, Scheduled, Objects
    <3> QED BY <1>1, <3>1
  <2>2. ASSUME NEW s \in rgSigs \ rgMarked PROVE Preceded(r, Leaves(RgOwner[s]), Dooms(s))
    <3>1. Preceded(q, Leaves(RgOwner[s]), Dooms(s)) /\ s \in Objects
      BY <1>0 DEF Inv, Scheduled, Objects
    <3> QED BY <1>1, <3>1
  <2>3. ASSUME NEW k \in rgLinks, NEW d \in k PROVE Preceded(r, Leaves(d), Cuts(k))
    <3>1. Preceded(q, Leaves(d), Cuts(k)) /\ k \in Bonds
      BY <1>0 DEF Inv, Scheduled
    <3> QED BY <1>1, <3>1
  <2>4. ASSUME NEW d \in rgDevs, NEW x \in rgDevs \ {d}, d \in Range(rgLinked[x])
        PROVE  Preceded(r, Leaves(d), Unlinks(d))
    <3>1. Preceded(q, Leaves(d), Unlinks(d)) /\ d \in RgDev
      BY <1>0, <2>4 DEF Inv, Scheduled
    <3> QED BY <1>1, <3>1
  <2>5. ASSUME NEW d \in RgDev PROVE Followed(r, Leaves(d), Frees(d))
    <3>1. Followed(q, Leaves(d), Frees(d))
      BY DEF Inv, Scheduled
    <3> QED BY <1>1, <3>1
  <2>6. ASSUME NEW d \in RgDev \ rgDevs PROVE Range(rgLinked[d]) = {} \/ Some(r, Frees(d))
    <3>1. Range(rgLinked[d]) = {} \/ Some(q, Frees(d))
      BY DEF Inv, Scheduled
    <3> QED BY <1>1, <3>1
  <2>7. RgListed' = RgListed /\ \A m : RgSigsOf(m)' = RgSigsOf(m)
    BY <1>3 DEF RgListed, RgSigsOf
  <2> QED BY <2>1, <2>2, <2>3, <2>4, <2>5, <2>6, <2>7, <1>3 DEF Scheduled
<1>6. Swept'
  <2> SUFFICES ASSUME NEW s \in rgSigs
               PROVE  /\ RgOwner[s] \in rgDevs \/ Some(r, Sweeps \cup Dooms(s))
                      /\ s \in rgMarked /\ Some(r, Leaving(RgOwner[s])) => Some(r, Sweeps \cup Dooms(s))
    BY <1>3 DEF Swept
  <2>1. /\ RgOwner[s] \in rgDevs \/ Some(q, Sweeps \cup Dooms(s))
        /\ s \in rgMarked /\ Some(q, Leaving(RgOwner[s])) => Some(q, Sweeps \cup Dooms(s))
        /\ s \notin rgMarked => RgOwner[s] \in rgDevs
    BY DEF Inv, Swept, Sound
  <2>2. s \in Objects /\ RgOwner[s] \in RgDev
    BY <1>0, RgAssumption DEF Objects
  <2>3. \A q1 \in Seq(Tasks) : Some(q1, Dooms(s)) => Some(q1, Sweeps \cup Dooms(s))
    BY SomeIn
  <2>4. Some(r, Leaving(RgOwner[s])) => Some(q, Leaving(RgOwner[s]))
    BY <1>1, <2>2
  <2>5. s \in rgMarked /\ Some(q, Sweeps \cup Dooms(s)) => Some(r, Sweeps \cup Dooms(s))
    <3>1. CASE h \notin Sweeps \cup Dooms(s)
      BY <3>1, <1>1
    <3>2. CASE h \in Dooms(s)
      BY <3>2, <2>2, <2>3, <1>1
    <3>3. CASE h \in Sweeps
      BY <3>3, <2>3, <1>1
    <3> QED BY <3>1, <3>2, <3>3
  <2> QED BY <2>1, <2>4, <2>5
<1>7. Freeing'
  <2> SUFFICES ASSUME rgCbs' = << >>, NEW o \in rgDevs \cup rgSigs PROVE Some(r, Dooms(o))
    <3>1. rgCbs' = << >> => ~Some(r, Continues)
      BY DEF Inv, Freeing
    <3> QED BY <1>3, <3>1 DEF Freeing
  <2>1. o \in Objects
    BY <1>0 DEF Objects
  <2>2. Some(q, Dooms(o))
    BY DEF Inv, Freeing
  <2> QED BY <1>1, <2>1, <2>2
<1>8. Mode' /\ Wanted'
  BY <1>1, <1>2, WhileRemoving
<1> QED BY <1>4, <1>5, <1>6, <1>7, <1>8 DEF Inv

-----------------------------------------------------------------------------
(* The steps of a removal. *)
LEMMA TypesKept ==
  ASSUME Types, UNCHANGED rgLists, UNCHANGED rgProgram, NEW q \in Seq(Tasks), rgTodo' = q
  PROVE  Types'
BY DEF Types, rgLists, rgProgram, RgListed

(* The head of what is left to do. *)
LEMMA HeadIs ==
  ASSUME Inv, rgTodo # << >>, NEW h, h = Head(rgTodo), h.do \notin {"addsig", "addmap", "call", "walk"}
  PROVE  /\ rgTodo \in Seq(Tasks) /\ Tail(rgTodo) \in Seq(Tasks) /\ h \in Tasks /\ h \in Ends
         /\ h.e \in {"removed", "expired"} /\ h.e \in Events /\ Removing(rgTodo)
<1>1. rgTodo \in Seq(Tasks) /\ Mode
  BY DEF Inv, Types
<1>2. Removing(rgTodo) /\ h \in Ends /\ h \in Tasks /\ Tail(rgTodo) \in Seq(Tasks)
  BY <1>1, WhichMode
<1> QED BY <1>1, <1>2 DEF Ends, Events

LEMMA InKind ==
  ASSUME NEW t \in Tasks
  PROVE  /\ \A o : t \in Dooms(o) <=> t.do \in {"map", "sig", "dev", "unlist"} /\ t.o = o
         /\ \A o : t \in Leaves(o) <=> t.do = "unlist" /\ t.o = o
         /\ \A o : t \in Leaving(o) <=> t.do \in {"dev", "unlist"} /\ t.o = o
         /\ \A o : t \in Frees(o) <=> t.do = "free" /\ t.o = o
         /\ \A o : t \in Cuts(o) <=> t.do \in {"link", "cut"} /\ t.o = o
         /\ \A o : t \in Unlinks(o) <=> t.do = "unlink" /\ t.o = o
         /\ t \in Sweeps <=> t.do = "sweep"
         /\ t \in Continues <=> t.do = "walk" /\ t.rest # << >>
         /\ t \in Tasks \ Ends <=> t.do \in {"addsig", "addmap"} \/ t.e \notin {"removed", "expired"}
BY DEF Dooms, Leaves, Leaving, Frees, Cuts, Unlinks, Sweeps, Continues, Ends, On, Kind

(* A map, a signal, a link and a device are taken apart. *)
LEMMA MapGoesOn ==
  ASSUME Inv, NEW h \in Tasks, h.do = "map", h.e \in {"removed", "expired"}
  PROVE  RgRemoveMap(h.o, h.e) \in Seq(Tasks) /\ GoesOn(h, RgRemoveMap(h.o, h.e))
         /\ ~Some(RgRemoveMap(h.o, h.e), Continues)
<1> DEFINE m == h.o
           e == h.e
           u == RgThing("unlist", m, e)
           c == RgThing("call", m, e)
           f == RgThing("free", m, e)
           new == RgRemoveMap(m, e)
<1>1. m \in RgMap /\ e \in Events /\ m \in Objects
  BY TaskIs DEF Events, Objects
<1>2. /\ u \in Tasks /\ c \in Tasks /\ f \in Tasks
      /\ u.do = "unlist" /\ u.o = m /\ u.e = e /\ c.do = "call" /\ c.o = m /\ c.e = e
      /\ f.do = "free" /\ f.o = m /\ f.e = e
  BY <1>1, ThingIs
<1>3. /\ new \in Seq(Tasks)
      /\ \A K : Some(new, K) <=> u \in K \/ (rgMaps[m].is = "active" /\ c \in K) \/ f \in K
  BY <1>1, RemoveMapIs
<1> HIDE DEF u, c, f, new
<1>4. Removing(new)
  BY <1>2, <1>3, InKind DEF Removing
<1>5. ASSUME NEW x, x # m PROVE ~Some(new, Leaves(x)) /\ ~Some(new, Leaving(x))
  BY <1>2, <1>3, <1>5, InKind
<1>6. ASSUME NEW x, x # m, NEW L PROVE Preceded(new, Leaves(x), L) /\ Followed(new, Leaves(x), L)
  BY <1>5, <1>6, WithoutSome
<1>7. Some(new, Dooms(m)) /\ ~Some(new, Continues)
  BY <1>2, <1>3, InKind
<1>8. /\ \A s \in RgSig : s # m
      /\ \A d \in RgDev : d # m
  BY <1>1, RgAssumption
<1>9. /\ \A x \in RgListed : RgSigsOf(x) \subseteq RgSig
      /\ \A s \in rgSigs : RgOwner[s] \in RgDev
      /\ \A k \in rgLinks : k \subseteq RgDev
  BY RgAssumption DEF Inv, Types, RgSigsOf, Bonds, Pairs
<1>10. /\ \A o : h \in Dooms(o) => o = m
       /\ \A o : h \notin Cuts(o) /\ h \notin Unlinks(o) /\ h \notin Frees(o)
       /\ h \notin Sweeps
  BY InKind
<1> HIDE DEF m, e
<1>11. GoesOn(h, new)
  BY <1>4, <1>5, <1>6, <1>7, <1>8, <1>9, <1>10 DEF GoesOn
<1> QED BY <1>3, <1>7, <1>11 DEF new, m, e

LEMMA SigGoesOn ==
  ASSUME Inv, NEW h \in Tasks, h.do = "sig", h.e \in {"removed", "expired"}
  PROVE  RgRemoveSig(h.o, h.e) \in Seq(Tasks) /\ GoesOn(h, RgRemoveSig(h.o, h.e))
         /\ ~Some(RgRemoveSig(h.o, h.e), Continues)
<1> DEFINE x == h.o
           e == h.e
           u == RgThing("unlist", x, e)
           c == RgThing("call", x, e)
           f == RgThing("free", x, e)
           new == RgRemoveSig(x, e)
           a == RgEach("map", RgMapsOfSig(x), e)
           b == <<u, c, f>>
           M(m) == RgThing("map", m, e)
<1>1. x \in RgSig /\ e \in Events /\ x \in Objects /\ e \in {"removed", "expired"} /\ RgListed \subseteq RgMap
  BY TaskIs DEF Events, Objects, Inv, Types
<1>2. /\ u \in Tasks /\ c \in Tasks /\ f \in Tasks
      /\ u.do = "unlist" /\ u.o = x /\ u.e = e /\ c.do = "call" /\ c.o = x /\ c.e = e
      /\ f.do = "free" /\ f.o = x /\ f.e = e
  BY <1>1, ThingIs
<1>3. \A m \in RgMap : M(m) \in Tasks /\ M(m).do = "map" /\ M(m).o = m /\ M(m).e = e
  BY <1>1, ThingIs
<1>4. RgMapsOfSig(x) \subseteq RgMap /\ \A m \in RgListed \ rgMarked : x \in RgSigsOf(m) => m \in RgMapsOfSig(x)
  BY <1>1 DEF RgMapsOfSig
<1>0. new = a \o b
  BY DEF RgRemoveSig, RgCall
<1>5. /\ a \in Seq(Tasks) /\ b \in Seq(Tasks)
      /\ \A K : Some(a, K) <=> \E m \in RgMapsOfSig(x) : M(m) \in K
      /\ \A K : Some(b, K) <=> u \in K \/ c \in K \/ f \in K
  <2>1. a \in Seq(Tasks)
    BY <1>1, <1>4, EachMap
  <2>2. ASSUME NEW K PROVE Some(a, K) <=> \E m \in RgMapsOfSig(x) : M(m) \in K
    BY <1>1, <1>4, EachMap
  <2> HIDE DEF a, u, c, f
  <2>3. b \in Seq(Tasks)
    BY <1>2
  <2>4. ASSUME NEW K PROVE Some(b, K) <=> u \in K \/ c \in K \/ f \in K
    BY <1>2, Three
  <2> QED BY <2>1, <2>2, <2>3, <2>4
<1> HIDE DEF u, c, f, new, M, a, b
<1>6. /\ new \in Seq(Tasks)
      /\ \A K : Some(new, K) <=> Some(a, K) \/ Some(b, K)
      /\ \A K, L : ~Some(a, K) /\ Some(a, L) => Preceded(new, K, L)
  BY <1>0, <1>5, Joined
<1>7. Removing(new)
  <2>1. ~Some(a, Tasks \ Ends)
    <3>1. \A m \in RgMap : M(m) \notin Tasks \ Ends
      BY <1>1, <1>3, InKind
    <3> QED BY <3>1, <1>4, <1>5
  <2>2. ~Some(b, Tasks \ Ends)
    BY <1>1, <1>2, <1>5, InKind
  <2> QED BY <1>6, <2>1, <2>2 DEF Removing
<1>8. ASSUME NEW o PROVE ~Some(a, Leaves(o)) /\ ~Some(a, Leaving(o))
  <2>1. \A m \in RgMap : M(m) \notin Leaves(o) /\ M(m) \notin Leaving(o)
    BY <1>3, InKind
  <2> QED BY <2>1, <1>4, <1>5
<1>9. ASSUME NEW o, o # x PROVE ~Some(new, Leaves(o)) /\ ~Some(new, Leaving(o))
  <2>1. ~Some(b, Leaves(o)) /\ ~Some(b, Leaving(o))
    BY <1>2, <1>5, <1>9, InKind
  <2> QED BY <1>6, <1>8, <2>1
<1>10. ASSUME NEW o, o # x, NEW L PROVE Preceded(new, Leaves(o), L) /\ Followed(new, Leaves(o), L)
  BY <1>9, <1>10, WithoutSome
<1>11. Some(new, Dooms(x))
  BY <1>2, <1>5, <1>6, InKind
<1>12. ~Some(new, Continues)
  BY <1>2, <1>3, <1>4, <1>5, <1>6, InKind
<1>13. ASSUME NEW m \in RgListed \ rgMarked, x \in RgSigsOf(m) PROVE Preceded(new, Leaves(x), Dooms(m))
  <2>1. M(m) \in Dooms(m) /\ m \in RgMapsOfSig(x)
    BY <1>1, <1>3, <1>4, <1>13, InKind
  <2> QED BY <1>5, <1>6, <1>8, <2>1
<1>14. \A d \in RgDev : d # x
  BY <1>1, RgAssumption
<1>15. /\ \A s \in rgSigs : RgOwner[s] \in RgDev
       /\ \A k \in rgLinks : k \subseteq RgDev
  BY RgAssumption DEF Inv, Types, Bonds, Pairs
<1>16. /\ \A o : h \in Dooms(o) => o = x
       /\ \A o : h \notin Cuts(o) /\ h \notin Unlinks(o) /\ h \notin Frees(o)
       /\ h \notin Sweeps
  BY InKind
<1> HIDE DEF x, e
<1>17. GoesOn(h, new)
  BY <1>7, <1>9, <1>10, <1>11, <1>13, <1>14, <1>15, <1>16 DEF GoesOn
<1> QED BY <1>6, <1>12, <1>17 DEF new, x, e

LEMMA LinkGoesOn ==
  ASSUME Inv, NEW h \in Tasks, h.do = "link", h.e \in {"removed", "expired"}
  PROVE  RgRemoveLink(h.o, h.e) \in Seq(Tasks) /\ GoesOn(h, RgRemoveLink(h.o, h.e))
         /\ ~Some(RgRemoveLink(h.o, h.e), Continues)
<1> DEFINE x == h.o
           e == h.e
           c == RgThing("cut", x, e)
           new == RgRemoveLink(x, e)
           a == RgEach("map", RgMapsOfLink(x), e)
           b == <<c>>
           M(m) == RgThing("map", m, e)
<1>1. x \in Bonds /\ e \in Events /\ e \in {"removed", "expired"} /\ RgListed \subseteq RgMap
  BY TaskIs DEF Events, Inv, Types
<1>2. c \in Tasks /\ c.do = "cut" /\ c.o = x /\ c.e = e
  BY <1>1, ThingIs
<1>3. \A m \in RgMap : M(m) \in Tasks /\ M(m).do = "map" /\ M(m).o = m /\ M(m).e = e
  BY <1>1, ThingIs
<1>4. RgMapsOfLink(x) \subseteq RgMap
  BY <1>1 DEF RgMapsOfLink
<1>0. new = a \o b
  BY DEF RgRemoveLink
<1>5. /\ a \in Seq(Tasks) /\ b \in Seq(Tasks)
      /\ \A K : Some(a, K) <=> \E m \in RgMapsOfLink(x) : M(m) \in K
      /\ \A K : Some(b, K) <=> c \in K
  <2>1. a \in Seq(Tasks)
    BY <1>1, <1>4, EachMap
  <2>2. ASSUME NEW K PROVE Some(a, K) <=> \E m \in RgMapsOfLink(x) : M(m) \in K
    BY <1>1, <1>4, EachMap
  <2> HIDE DEF a, c
  <2>3. b \in Seq(Tasks)
    BY <1>2
  <2>4. ASSUME NEW K PROVE Some(b, K) <=> c \in K
    BY <1>2, OneThing
  <2> QED BY <2>1, <2>2, <2>3, <2>4
<1> HIDE DEF c, new, M, a, b
<1>6. new \in Seq(Tasks) /\ \A K : Some(new, K) <=> Some(a, K) \/ Some(b, K)
  BY <1>0, <1>5, Joined
<1>7. Removing(new)
  <2>1. ~Some(a, Tasks \ Ends)
    <3>1. \A m \in RgMap : M(m) \notin Tasks \ Ends
      BY <1>1, <1>3, InKind
    <3> QED BY <3>1, <1>4, <1>5
  <2>2. ~Some(b, Tasks \ Ends)
    BY <1>1, <1>2, <1>5, InKind
  <2> QED BY <1>6, <2>1, <2>2 DEF Removing
<1>8. ASSUME NEW o PROVE ~Some(new, Leaves(o)) /\ ~Some(new, Leaving(o))
  <2>1. \A m \in RgMap : M(m) \notin Leaves(o) /\ M(m) \notin Leaving(o)
    BY <1>3, InKind
  <2> QED BY <2>1, <1>2, <1>4, <1>5, <1>6, InKind
<1>9. \A o, L : Preceded(new, Leaves(o), L) /\ Followed(new, Leaves(o), L)
  BY <1>8, WithoutSome
<1>10. Some(new, Cuts(x))
  BY <1>2, <1>5, <1>6, InKind
<1>11. ~Some(new, Continues)
  BY <1>2, <1>3, <1>4, <1>5, <1>6, InKind
<1>12. /\ \A o : h \in Cuts(o) => o = x
       /\ \A o : h \notin Dooms(o) /\ h \notin Unlinks(o) /\ h \notin Frees(o)
       /\ h \notin Sweeps
  BY InKind
<1> HIDE DEF x, e
<1>13. GoesOn(h, new)
  BY <1>7, <1>8, <1>9, <1>10, <1>12 DEF GoesOn
<1> QED BY <1>6, <1>11, <1>13 DEF new, x, e

LEMMA DevGoesOn ==
  ASSUME Inv, NEW h \in Tasks, h.do = "dev", h.e \in {"removed", "expired"}
  PROVE  RgRemoveDev(h.o, h.e) \in Seq(Tasks) /\ GoesOn(h, RgRemoveDev(h.o, h.e))
         /\ ~Some(RgRemoveDev(h.o, h.e), Continues)
<1> DEFINE x == h.o
           e == h.e
           k == RgThing("unlink", x, e)
           u == RgThing("unlist", x, e)
           c == RgThing("call", x, e)
           f == RgThing("free", x, e)
           new == RgRemoveDev(x, e)
           a1 == RgEach("map", RgMapsOfDev(x), e)
           a2 == <<k>>
           a3 == RgEach("link", RgLinksOf(x), e)
           a4 == RgEach("sig", RgSigsOfDev(x), e)
           b == <<u, c, f>>
           a == a1 \o a2 \o a3 \o a4
           M(m) == RgThing("map", m, e)
           L(l) == RgThing("link", l, e)
           S(s) == RgThing("sig", s, e)
<1>1. /\ x \in RgDev /\ e \in Events /\ x \in Objects /\ e \in {"removed", "expired"} /\ RgListed \subseteq RgMap
      /\ rgLinks \subseteq Bonds /\ rgSigs \subseteq RgSig
  BY TaskIs DEF Events, Objects, Inv, Types
<1>2. /\ k \in Tasks /\ u \in Tasks /\ c \in Tasks /\ f \in Tasks
      /\ k.do = "unlink" /\ k.o = x /\ k.e = e
      /\ u.do = "unlist" /\ u.o = x /\ u.e = e /\ c.do = "call" /\ c.o = x /\ c.e = e
      /\ f.do = "free" /\ f.o = x /\ f.e = e
  BY <1>1, ThingIs
<1>3. /\ \A m \in RgMap : M(m) \in Tasks /\ M(m).do = "map" /\ M(m).o = m /\ M(m).e = e
      /\ \A l \in Bonds : L(l) \in Tasks /\ L(l).do = "link" /\ L(l).o = l /\ L(l).e = e
      /\ \A s \in RgSig : S(s) \in Tasks /\ S(s).do = "sig" /\ S(s).o = s /\ S(s).e = e
  BY <1>1, ThingIs
<1>4. /\ RgMapsOfDev(x) \subseteq RgMap /\ RgLinksOf(x) \subseteq Bonds /\ RgSigsOfDev(x) \subseteq RgSig
      /\ \A l \in rgLinks : x \in l => l \in RgLinksOf(x)
      /\ \A s \in rgSigs \ rgMarked : RgOwner[s] = x => s \in RgSigsOfDev(x)
  BY <1>1 DEF RgMapsOfDev, RgLinksOf, RgSigsOfDev
<1>0. new = a \o b
  BY DEF RgRemoveDev, RgCall
<1>5. /\ a1 \in Seq(Tasks) /\ a3 \in Seq(Tasks) /\ a4 \in Seq(Tasks)
  BY <1>1, <1>4, EachMap, EachLink, EachSig
<1>6. ASSUME NEW K
      PROVE  /\ Some(a1, K) <=> \E m \in RgMapsOfDev(x) : M(m) \in K
             /\ Some(a3, K) <=> \E l \in RgLinksOf(x) : L(l) \in K
             /\ Some(a4, K) <=> \E s \in RgSigsOfDev(x) : S(s) \in K
  <2>1. Some(a1, K) <=> \E m \in RgMapsOfDev(x) : M(m) \in K
    BY <1>1, <1>4, EachMap
  <2>2. Some(a3, K) <=> \E l \in RgLinksOf(x) : L(l) \in K
    BY <1>1, <1>4, EachLink
  <2>3. Some(a4, K) <=> \E s \in RgSigsOfDev(x) : S(s) \in K
    BY <1>1, <1>4, EachSig
  <2> HIDE DEF a1, a3, a4, M, L, S
  <2> QED BY <2>1, <2>2, <2>3
<1> HIDE DEF a1, a3, a4, k, u, c, f, M, L, S
<1>7. a2 \in Seq(Tasks) /\ b \in Seq(Tasks)
  BY <1>2
<1>8. ASSUME NEW K
      PROVE  (Some(a2, K) <=> k \in K) /\ (Some(b, K) <=> u \in K \/ c \in K \/ f \in K)
  BY <1>2, OneThing, Three
<1>9. \A o : c \notin Leaves(o) /\ f \notin Leaves(o)
  BY <1>2, InKind
<1>10. f \in Frees(x)
  BY <1>2, InKind
<1>11. Followed(b, Leaves(x), Frees(x))
  BY <1>2, <1>9, <1>10, Three
<1> HIDE DEF a2, b, new
<1>12. a \in Seq(Tasks)
  BY <1>5, <1>7
<1>13. ASSUME NEW K PROVE Some(a, K) <=> Some(a1, K) \/ Some(a2, K) \/ Some(a3, K) \/ Some(a4, K)
  <2>1. a1 \o a2 \in Seq(Tasks) /\ a1 \o a2 \o a3 \in Seq(Tasks)
    BY <1>5, <1>7
  <2>2. Some(a1 \o a2, K) <=> Some(a1, K) \/ Some(a2, K)
    BY <1>5, <1>7, Joined
  <2>3. Some(a1 \o a2 \o a3, K) <=> Some(a1 \o a2, K) \/ Some(a3, K)
    BY <2>1, <1>5, Joined
  <2>4. Some(a1 \o a2 \o a3 \o a4, K) <=> Some(a1 \o a2 \o a3, K) \/ Some(a4, K)
    BY <2>1, <1>5, Joined
  <2> QED BY <2>2, <2>3, <2>4
<1> HIDE DEF a
<1>14. new \in Seq(Tasks)
  BY <1>0, <1>7, <1>12
<1>15. ASSUME NEW K
       PROVE  /\ Some(new, K) <=> Some(a, K) \/ Some(b, K)
              /\ \A N : ~Some(a, K) /\ Some(a, N) => Preceded(new, K, N)
              /\ \A N : ~Some(a, K) /\ Followed(b, K, N) => Followed(new, K, N)
  BY <1>0, <1>7, <1>12, Joined
<1>16. ASSUME NEW K, \A m \in RgMap : M(m) \notin K, \A l \in Bonds : L(l) \notin K,
              \A s \in RgSig : S(s) \notin K, k \notin K
       PROVE  ~Some(a, K)
  BY <1>4, <1>6, <1>8, <1>13, <1>16
<1>17. Removing(new)
  <2>1. ~Some(a, Tasks \ Ends)
    <3>1. /\ \A m \in RgMap : M(m) \notin Tasks \ Ends
          /\ \A l \in Bonds : L(l) \notin Tasks \ Ends
          /\ \A s \in RgSig : S(s) \notin Tasks \ Ends
      BY <1>1, <1>3, InKind
    <3>2. k \notin Tasks \ Ends
      BY <1>1, <1>2, InKind
    <3> QED BY <3>1, <3>2, <1>16
  <2>2. ~Some(b, Tasks \ Ends)
    <3>1. u \notin Tasks \ Ends /\ c \notin Tasks \ Ends /\ f \notin Tasks \ Ends
      BY <1>1, <1>2, InKind
    <3> QED BY <3>1, <1>8
  <2> QED BY <1>15, <2>1, <2>2 DEF Removing
<1>18. ASSUME NEW o PROVE ~Some(a, Leaves(o)) /\ ~Some(a, Leaving(o))
  <2>1. /\ \A m \in RgMap : M(m) \notin Leaves(o) /\ M(m) \notin Leaving(o)
        /\ \A l \in Bonds : L(l) \notin Leaves(o) /\ L(l) \notin Leaving(o)
        /\ \A s \in RgSig : S(s) \notin Leaves(o) /\ S(s) \notin Leaving(o)
        /\ k \notin Leaves(o) /\ k \notin Leaving(o)
    BY <1>2, <1>3, InKind
  <2> QED BY <2>1, <1>16
<1>19. ASSUME NEW o, o # x PROVE ~Some(new, Leaves(o)) /\ ~Some(new, Leaving(o))
  <2>1. u \notin Leaves(o) /\ c \notin Leaves(o) /\ f \notin Leaves(o)
        /\ u \notin Leaving(o) /\ c \notin Leaving(o) /\ f \notin Leaving(o)
    BY <1>2, <1>19, InKind
  <2> QED BY <2>1, <1>8, <1>15, <1>18
<1>20. ASSUME NEW o, o # x, NEW N PROVE Preceded(new, Leaves(o), N) /\ Followed(new, Leaves(o), N)
  BY <1>19, <1>20, WithoutSome
<1>21. Some(new, Dooms(x))
  BY <1>2, <1>8, <1>15, InKind
<1>22. ~Some(new, Continues)
  <2>1. /\ \A m \in RgMap : M(m) \notin Continues
        /\ \A l \in Bonds : L(l) \notin Continues
        /\ \A s \in RgSig : S(s) \notin Continues
        /\ k \notin Continues /\ u \notin Continues /\ c \notin Continues /\ f \notin Continues
    BY <1>2, <1>3, InKind
  <2> QED BY <2>1, <1>8, <1>15, <1>16
<1>23. Followed(new, Leaves(x), Frees(x))
  BY <1>11, <1>15, <1>18
<1>24. ASSUME NEW N, Some(a, N) PROVE Preceded(new, Leaves(x), N)
  BY <1>15, <1>18, <1>24
<1>25. Some(a, Unlinks(x))
  BY <1>2, <1>8, <1>13, InKind
<1>26. ASSUME NEW l \in rgLinks, x \in l PROVE Some(a, Cuts(l))
  <2>1. L(l) \in Cuts(l) /\ l \in RgLinksOf(x)
    BY <1>1, <1>3, <1>4, <1>26, InKind
  <2> QED BY <2>1, <1>6, <1>13
<1>27. ASSUME NEW s \in rgSigs \ rgMarked, RgOwner[s] = x PROVE Some(a, Dooms(s))
  <2>1. S(s) \in Dooms(s) /\ s \in RgSigsOfDev(x)
    BY <1>1, <1>3, <1>4, <1>27, InKind
  <2> QED BY <2>1, <1>6, <1>13
<1>28. \A m \in RgListed : \A s \in RgSigsOf(m) : s # x
  BY <1>1, RgAssumption DEF RgSigsOf, Inv, Types
<1>29. /\ \A o : h \in Dooms(o) => o = x
       /\ h \in Leaving(x)
       /\ \A o : h \notin Cuts(o) /\ h \notin Unlinks(o) /\ h \notin Frees(o)
       /\ h \notin Sweeps
  BY InKind
<1> HIDE DEF x, e
<1>30. /\ \A m \in RgListed \ rgMarked : \A s \in RgSigsOf(m) : Preceded(new, Leaves(s), Dooms(m))
       /\ \A s \in rgSigs \ rgMarked : Preceded(new, Leaves(RgOwner[s]), Dooms(s))
       /\ \A l \in rgLinks : \A d \in l : Preceded(new, Leaves(d), Cuts(l))
       /\ \A d \in RgDev : Preceded(new, Leaves(d), Unlinks(d)) /\ Followed(new, Leaves(d), Frees(d))
       /\ \A d \in RgDev : Some(new, Leaving(d)) => h \in Leaving(d)
  BY <1>19, <1>20, <1>23, <1>24, <1>25, <1>26, <1>27, <1>28, <1>29
<1>31. GoesOn(h, new)
  BY <1>17, <1>21, <1>29, <1>30 DEF GoesOn
<1> QED BY <1>14, <1>22, <1>31 DEF new, x, e

LEMMA TakeApartSafe ==
  ASSUME Inv, RgTakeApart
  PROVE  Inv'
<1> DEFINE h == Head(rgTodo)
<1>1. PICK what \in {"map", "sig", "link", "dev"} :
        RgIs(what) /\ RgThen(RgRemove(what, RgThis.o, RgThis.e))
  BY DEF RgTakeApart
<1>2. /\ rgTodo # << >> /\ h.do = what /\ rgTodo' = RgRemove(what, h.o, h.e) \o Tail(rgTodo)
      /\ UNCHANGED rgLists /\ UNCHANGED rgProgram
  BY <1>1 DEF RgTakeApart, RgIs, RgThen, RgThis
<1> HIDE DEF h
<1>3. h \in Tasks /\ h.e \in {"removed", "expired"} /\ Removing(rgTodo) /\ Tail(rgTodo) \in Seq(Tasks)
  BY <1>2, HeadIs DEF h
<1>4. PICK new \in Seq(Tasks) : rgTodo' = new \o Tail(rgTodo) /\ GoesOn(h, new) /\ ~Some(new, Continues)
  <2>1. CASE what = "map"
    <3>1. RgRemove(what, h.o, h.e) = RgRemoveMap(h.o, h.e)
      BY <2>1 DEF RgRemove
    <3> QED BY <1>2, <1>3, <2>1, <3>1, MapGoesOn
  <2>2. CASE what = "sig"
    <3>1. RgRemove(what, h.o, h.e) = RgRemoveSig(h.o, h.e)
      BY <2>2 DEF RgRemove
    <3> QED BY <1>2, <1>3, <2>2, <3>1, SigGoesOn
  <2>3. CASE what = "link"
    <3>1. RgRemove(what, h.o, h.e) = RgRemoveLink(h.o, h.e)
      BY <2>3 DEF RgRemove
    <3> QED BY <1>2, <1>3, <2>3, <3>1, LinkGoesOn
  <2>4. CASE what = "dev"
    <3>1. RgRemove(what, h.o, h.e) = RgRemoveDev(h.o, h.e)
      BY <2>4 DEF RgRemove
    <3> QED BY <1>2, <1>3, <2>4, <3>1, DevGoesOn
  <2> QED BY <2>1, <2>2, <2>3, <2>4
<1>5. new \o Tail(rgTodo) \in Seq(Tasks)
  BY <1>3, <1>4
<1>6. Types'
  BY <1>2, <1>4, <1>5, TypesKept DEF Inv
<1>7. rgCbs' = rgCbs
  BY <1>2 DEF rgProgram
<1> QED BY <1>2, <1>3, <1>4, <1>6, <1>7, RemovalGoesOn DEF h

LEMMA SweepGoesOn ==
  ASSUME Inv, NEW h \in Tasks, h.do = "sweep", NEW new, new = RgEach("sig", rgMarked \cap rgSigs, "removed")
  PROVE  new \in Seq(Tasks) /\ GoesOn(h, new) /\ ~Some(new, Continues)
<1> DEFINE e == "removed"
           X == rgMarked \cap rgSigs
           S(s) == RgThing("sig", s, e)
<1>1. X \in SUBSET RgSig /\ e \in Events
  BY DEF Events, Inv, Types
<1>2. new \in Seq(Tasks)
  BY <1>1, EachSig
<1>3. ASSUME NEW K PROVE Some(new, K) <=> \E s \in X : S(s) \in K
  BY <1>1, EachSig
<1>4. \A s \in RgSig : S(s) \in Tasks /\ S(s).do = "sig" /\ S(s).o = s /\ S(s).e = e
  BY <1>1, ThingIs
<1> HIDE DEF S
<1>5. ASSUME NEW K, \A s \in RgSig : S(s) \notin K PROVE ~Some(new, K)
  BY <1>1, <1>3, <1>5
<1>6. Removing(new)
  <2>1. \A s \in RgSig : S(s) \notin Tasks \ Ends
    BY <1>1, <1>4, InKind
  <2> QED BY <2>1, <1>5 DEF Removing
<1>7. ASSUME NEW o PROVE ~Some(new, Leaves(o)) /\ ~Some(new, Leaving(o)) /\ ~Some(new, Continues)
  <2>1. \A s \in RgSig : S(s) \notin Leaves(o) /\ S(s) \notin Leaving(o) /\ S(s) \notin Continues
    BY <1>4, InKind
  <2> QED BY <2>1, <1>5
<1>8. \A o, N : Preceded(new, Leaves(o), N) /\ Followed(new, Leaves(o), N)
  BY <1>7, WithoutSome
<1>9. ASSUME NEW s \in X PROVE Some(new, Dooms(s))
  <2>1. S(s) \in Dooms(s)
    BY <1>1, <1>4, InKind
  <2> QED BY <2>1, <1>3
<1>10. \A o : h \notin Dooms(o) /\ h \notin Cuts(o) /\ h \notin Unlinks(o) /\ h \notin Frees(o)
  BY InKind
<1>11. GoesOn(h, new)
  BY <1>6, <1>7, <1>8, <1>9, <1>10 DEF GoesOn
<1> QED BY <1>2, <1>7, <1>11

LEMMA SweepSafe ==
  ASSUME Inv, RgSweepSigs
  PROVE  Inv'
<1> DEFINE h == Head(rgTodo)
           new == RgEach("sig", rgMarked \cap rgSigs, "removed")
<1>1. /\ rgTodo # << >> /\ h.do = "sweep" /\ rgTodo' = new \o Tail(rgTodo)
      /\ UNCHANGED rgLists /\ UNCHANGED rgProgram
  BY DEF RgSweepSigs, RgIs, RgThen, RgThis
<1>2. new = RgEach("sig", rgMarked \cap rgSigs, "removed")
  OBVIOUS
<1> HIDE DEF h, new
<1>3. h \in Tasks /\ h.e \in {"removed", "expired"} /\ Removing(rgTodo) /\ Tail(rgTodo) \in Seq(Tasks)
  BY <1>1, HeadIs DEF h
<1>4. new \in Seq(Tasks) /\ GoesOn(h, new) /\ ~Some(new, Continues)
  BY <1>1, <1>2, <1>3, SweepGoesOn
<1>5. new \o Tail(rgTodo) \in Seq(Tasks)
  BY <1>3, <1>4
<1>6. Types'
  BY <1>1, <1>5, TypesKept DEF Inv
<1>7. rgCbs' = rgCbs
  BY <1>1 DEF rgProgram
<1> QED BY <1>1, <1>3, <1>4, <1>6, <1>7, RemovalGoesOn DEF h

(* What is wanted stays wanted. *)
LEMMA WantedStays ==
  ASSUME Inv, rgTodo # << >>, rgSigs \subseteq rgSigs', rgDevs \subseteq rgDevs', RgListed' = RgListed,
         NEW new \in Seq(Tasks), rgTodo' = new \o Tail(rgTodo), ~Some(new, Kind({"addmap"})),
         \A s \in RgSig : Head(rgTodo) \in On({"addsig"}, s) => s \in rgSigs' /\ RgOwner[s] \in rgDevs'
  PROVE  Wanted'
<1> DEFINE q == rgTodo
           r == rgTodo'
           h == Head(rgTodo)
<1>0. q \in Seq(Tasks)
  BY DEF Inv, Types
<1>1. Replaces(q, new, h, r)
  BY <1>0, Goes
<1>2. Single(r, Kind({"addmap"}))
  <2>1. Single(q, Kind({"addmap"})) /\ Single(new, Kind({"addmap"}))
    BY WithoutSome DEF Inv, Wanted
  <2> QED BY <1>1, <2>1 DEF Replaces
<1>3. ASSUME NEW t \in Range(r), t.do = "addmap"
      PROVE  t \in Range(q) /\ ~Some(new, {t}) /\ t \in Tasks
  <2>1. r \in Seq(Tasks)
    BY <1>1 DEF Replaces
  <2>2. t \in Tasks
    BY <2>1, RangeOf
  <2>3. ~Some(new, {t})
    <3>1. t \in Kind({"addmap"})
      BY <2>2, <1>3 DEF Kind
    <3> QED BY <3>1 DEF Some
  <2>4. Some(r, {t})
    BY SomeRange
  <2>5. Some(q, {t})
    BY <2>3, <2>4, <1>1 DEF Replaces
  <2>6. t \in Range(q)
    BY <2>5, SomeRange
  <2> QED BY <2>2, <2>3, <2>6
<1>4. ASSUME NEW t \in Range(r), t.do = "addmap", NEW s \in t.o.src \cup {RgMapDst[t.o.map]}
      PROVE  (s \in rgSigs' /\ RgOwner[s] \in rgDevs') \/ Preceded(r, {t}, On({"addsig"}, s))
  <2>1. t \in Range(q) /\ ~Some(new, {t}) /\ t \in Tasks
    BY <1>3, <1>4
  <2>2. (s \in rgSigs /\ RgOwner[s] \in rgDevs) \/ Preceded(q, {t}, On({"addsig"}, s))
    BY <2>1, <1>4 DEF Inv, Wanted
  <2>3. CASE h \in On({"addsig"}, s)
    <3>1. s \in RgSig
      BY <2>3, TaskIs DEF On
    <3> QED BY <3>1, <2>3
  <2>4. CASE h \notin On({"addsig"}, s) /\ Preceded(q, {t}, On({"addsig"}, s))
    <3>1. Preceded(new, {t}, On({"addsig"}, s))
      BY <2>1, WithoutSome
    <3> QED BY <2>4, <3>1, <1>1 DEF Replaces
  <2> QED BY <2>2, <2>3, <2>4
<1>5. ASSUME NEW t \in Range(r), t.do = "addmap", RgIsLocal(t.o.map)
      PROVE  t.o.map \notin RgListed /\ t.o.src = RgMapSrc[t.o.map]
  <2>1. t \in Range(q)
    BY <1>3, <1>5
  <2> QED BY <2>1, <1>5 DEF Inv, Wanted
<1> QED BY <1>2, <1>4, <1>5 DEF Wanted

-----------------------------------------------------------------------------
(* The calls of handlers. *)
LEMMA FlatShort ==
  ASSUME NEW T, NEW X \in Seq(T), NEW Y \in Seq(T)
  PROVE  /\ FlattenSeq(<< >>) = << >> /\ FlattenSeq([i \in 1..1 |-> X]) = X
         /\ FlattenSeq([i \in 1..2 |-> IF i = 1 THEN X ELSE Y]) = X \o Y
<1> DEFINE s1 == [i \in 1..1 |-> X]
           s2 == [i \in 1..2 |-> IF i = 1 THEN X ELSE Y]
<1>1. FlattenSeq(<< >>) = << >>
  BY DEF FlattenSeq
<1>2. s1 \in [1..1 -> Seq(T)] /\ s2 \in [1..2 -> Seq(T)] /\ s1[1] = X /\ s2[1] = X /\ s2[2] = Y
  OBVIOUS
<1> HIDE DEF s1, s2
<1>3. 1 \in Nat /\ 1 # 0 /\ 2 \in Nat /\ 2 # 0
  OBVIOUS
<1>4. PICK f \in [1..1 -> Seq(T)] : Upto(s1, 1, f) /\ FlattenSeq(s1) = f[1]
  BY <1>2, <1>3, FlatUnfolds, Zenon
<1>5. PICK g \in [1..2 -> Seq(T)] : Upto(s2, 2, g) /\ FlattenSeq(s2) = g[2]
  BY <1>2, <1>3, FlatUnfolds, Zenon
<1>6. FlattenSeq(s1) = X
  BY <1>2, <1>4 DEF Upto
<1>7. FlattenSeq(s2) = X \o Y
  BY <1>2, <1>5 DEF Upto
<1> QED BY <1>1, <1>6, <1>7 DEF s1, s2

(* A handler that is gone, or new, does not disturb the rest. *)
LEMMA RgKeepNothing ==
  ASSUME NEW S
  PROVE  RgKeep(<< >>, S) = << >>
<1>1. [i \in DOMAIN << >> |-> IF << >>[i] \in S THEN <<<< >>[i]>> ELSE << >>] = << >>
  OBVIOUS
<1>2. FlattenSeq(<< >>) = << >>
  BY DEF FlattenSeq
<1> QED BY <1>1, <1>2 DEF RgKeep

LEMMA RgKeepOne ==
  ASSUME NEW S, NEW x
  PROVE  RgKeep(<<x>>, S) = (IF x \in S THEN <<x>> ELSE << >>)
<1> DEFINE X == IF x \in S THEN <<x>> ELSE << >>
           T == {x}
<1>1. [i \in DOMAIN <<x>> |-> IF <<x>>[i] \in S THEN <<<<x>>[i]>> ELSE << >>] = [i \in 1..1 |-> X]
  OBVIOUS
<1>2. RgKeep(<<x>>, S) = FlattenSeq([i \in 1..1 |-> X])
  BY <1>1, Zenon DEF RgKeep
<1>3. x \in T
  OBVIOUS
<1> HIDE DEF T
<1>4. X \in Seq(T)
  BY <1>3
<1> HIDE DEF X
<1>5. FlattenSeq([i \in 1..1 |-> X]) = X
  BY <1>4, FlatShort, Zenon
<1> QED BY <1>2, <1>5, Zenon DEF X

LEMMA RgKeepSecond ==
  ASSUME NEW S, NEW x, NEW y, x \notin S, y \in S
  PROVE  RgKeep(<<x, y>>, S) = <<y>>
<1> DEFINE T == {y}
           X == << >>
           Y == <<y>>
           s2 == [i \in 1..2 |-> IF i = 1 THEN X ELSE Y]
<1>1. [i \in DOMAIN <<x, y>> |-> IF <<x, y>>[i] \in S THEN <<<<x, y>>[i]>> ELSE << >>] = s2
  OBVIOUS
<1>2. RgKeep(<<x, y>>, S) = FlattenSeq(s2)
  BY <1>1, Zenon DEF RgKeep
<1>3. X \in Seq(T) /\ Y \in Seq(T) /\ X \o Y = <<y>>
  OBVIOUS
<1> HIDE DEF X, Y, T
<1>4. FlattenSeq(s2) = X \o Y
  BY <1>3, FlatShort, Zenon
<1> QED BY <1>2, <1>3, <1>4, Zenon

LEMMA TwoInOrder ==
  ASSUME NEW T, NEW x \in T, NEW y \in T
  PROVE  <<x>> \o <<y>> = <<x, y>>
<1> DEFINE a == <<x>> \o <<y>>
           b == <<x, y>>
<1>1. a \in Seq(T) /\ b \in Seq(T) /\ Len(a) = 2 /\ Len(b) = 2 /\ a[1] = b[1] /\ a[2] = b[2]
  OBVIOUS
<1> HIDE DEF a, b
<1>2. a = b
  BY <1>1
<1> QED BY <1>2 DEF a, b

LEMMA WalksGoOn ==
  ASSUME NEW rest \in Walks, rest # << >>, NEW cbs
  PROVE  RgRest(rest, cbs) \in Walks /\ rest[1] \in {"first", "other"}
<1>1. rest = <<"first">> \/ rest = <<"other", "first">>
  BY DEF Walks
<1>2. Tail(rest) = << >> \/ Tail(rest) = <<"first">>
  <2>1. Tail(<<"first">>) = << >> /\ Tail(<<"other", "first">>) = <<"first">>
    OBVIOUS
  <2> QED BY <1>1, <2>1, Zenon
<1>3. RgRest(rest, cbs) = << >> \/ RgRest(rest, cbs) = <<"first">>
  <2> DEFINE S == Range(cbs)
  <2> HIDE DEF S
  <2>1. RgKeep(<< >>, S) = << >>
    BY RgKeepNothing
  <2>2. RgKeep(<<"first">>, S) = (IF "first" \in S THEN <<"first">> ELSE << >>)
    BY RgKeepOne, Zenon
  <2> QED BY <1>2, <2>1, <2>2 DEF RgRest, S
<1>4. rest[1] \in {"first", "other"}
  BY <1>1
<1> QED BY <1>3, <1>4 DEF Walks

LEMMA HandlersStay ==
  ASSUME rgCbs \in Walks, rgCbs # << >>, NEW h \in {"first", "other"}, NEW cbs \in RgReacts(h)
  PROVE  cbs \in Walks /\ cbs # << >>
<1>1. rgCbs = <<"first">> \/ rgCbs = <<"other", "first">>
  BY DEF Walks
<1>2. CASE cbs = rgCbs
  BY <1>2
<1>3. CASE h = "other" /\ cbs = RgKeep(rgCbs, Range(rgCbs) \ {h})
  <2>1. CASE rgCbs = <<"first">>
    <3>1. "first" \in Range(rgCbs) \ {h}
      BY <2>1, <1>3 DEF Range
    <3>2. cbs = <<"first">>
      BY <3>1, <2>1, <1>3, RgKeepOne
    <3> QED BY <3>2 DEF Walks
  <2>2. CASE rgCbs = <<"other", "first">>
    <3>1. "first" \in Range(rgCbs) \ {h}
      <4>1. 2 \in DOMAIN rgCbs /\ rgCbs[2] = "first"
        BY <2>2
      <4> QED BY <4>1, <1>3 DEF Range
    <3>2. "other" \notin Range(rgCbs) \ {h}
      BY <1>3
    <3> DEFINE S == Range(rgCbs) \ {h}
    <3> HIDE DEF S
    <3>3. "other" \notin S /\ "first" \in S
      BY <3>1, <3>2 DEF S
    <3>5. RgKeep(<<"other", "first">>, S) = <<"first">>
      BY <3>3, RgKeepSecond, Zenon
    <3>4. cbs = <<"first">>
      BY <3>5, <2>2, <1>3 DEF S
    <3> QED BY <3>4 DEF Walks
  <2> QED BY <1>1, <2>1, <2>2
<1>4. CASE ~Contains(rgCbs, "other") /\ cbs = <<"other">> \o rgCbs
  <2>1. rgCbs = <<"first">>
    <3>1. ASSUME rgCbs = <<"other", "first">> PROVE Contains(rgCbs, "other")
      <4>1. 1 \in DOMAIN rgCbs /\ rgCbs[1] = "other"
        BY <3>1
      <4> QED BY <4>1 DEF Contains
    <3> QED BY <3>1, <1>1, <1>4
  <2>2. cbs = <<"other", "first">>
    <3>1. <<"other">> \o <<"first">> = <<"other", "first">>
      <4>1. "other" \in {"first", "other"} /\ "first" \in {"first", "other"}
        OBVIOUS
      <4> QED BY <4>1, TwoInOrder, Zenon
    <3> QED BY <3>1, <2>1, <1>4, Zenon
  <2> QED BY <2>2 DEF Walks
<1> QED BY <1>2, <1>3, <1>4 DEF RgReacts

LEMMA CallsGoOn ==
  ASSUME Inv, rgTodo # << >>, NEW h, h = Head(rgTodo), h.do \in {"call", "walk"}, UNCHANGED rgLists, Types',
         NEW new \in Seq(Tasks), rgTodo' = new \o Tail(rgTodo),
         new = << >> \/ \E rest \in Walks : new = <<RgWalk(h.o, h.e, rest)>>
                                            /\ (rgCbs' = << >> => rest = << >>),
         rgCbs' = << >> => rgCbs = << >>
  PROVE  Inv'
<1>1. rgTodo \in Seq(Tasks) /\ h \in Tasks /\ Tail(rgTodo) \in Seq(Tasks)
  BY TailIs DEF Inv, Types
<1>2. h.e \in Events /\ h.o \in Objects
  BY <1>1, TaskIs
<1>3. ASSUME NEW K PROVE Some(new, K) => \E t \in Tasks : t \in K /\ t.do = "walk" /\ t.o = h.o /\ t.e = h.e
                                                        /\ (rgCbs' = << >> => t.rest = << >>)
  <2>1. CASE new = << >>
    BY <2>1, Nothing
  <2>2. ASSUME NEW rest \in Walks, new = <<RgWalk(h.o, h.e, rest)>>, rgCbs' = << >> => rest = << >>
        PROVE  Some(new, K) => \E t \in Tasks : t \in K /\ t.do = "walk" /\ t.o = h.o /\ t.e = h.e
                                                        /\ (rgCbs' = << >> => t.rest = << >>)
    <3> DEFINE t == RgWalk(h.o, h.e, rest)
    <3>1. t \in Tasks /\ t.do = "walk" /\ t.o = h.o /\ t.e = h.e /\ t.rest = rest
      BY <1>2, WalkIs
    <3> HIDE DEF t
    <3>2. Some(new, K) => t \in K
      BY <2>2, OneThing DEF t
    <3> QED BY <3>1, <3>2, <2>2
  <2> QED BY <2>1, <2>2
<1>4. ASSUME NEW o PROVE ~Some(new, Leaves(o)) /\ ~Some(new, Leaving(o))
  <2>1. \A t \in Tasks : t.do = "walk" => t \notin Leaves(o) /\ t \notin Leaving(o)
    BY InKind
  <2> QED BY <2>1, <1>3
<1>5. \A o, L : Preceded(new, Leaves(o), L) /\ Followed(new, Leaves(o), L)
  BY <1>4, WithoutSome
<1>6. rgCbs' = << >> => ~Some(new, Continues)
  BY <1>3, InKind
<1>7. /\ \A o : h \notin Dooms(o) /\ h \notin Cuts(o) /\ h \notin Unlinks(o) /\ h \notin Frees(o)
      /\ h \notin Sweeps
  BY <1>1, InKind
<1>8. CASE Removing(rgTodo)
  <2>1. h \in Ends
    <3>1. h \in Tasks \ Ends => Some(rgTodo, Tasks \ Ends)
      BY <1>1, SomeTail
    <3> QED BY <3>1, <1>1, <1>8 DEF Removing
  <2>2. h.e \in {"removed", "expired"}
    BY <2>1 DEF Ends
  <2>3. Removing(new)
    <3>1. ~Some(new, Tasks \ Ends)
      BY <1>3, <2>2, InKind
    <3> QED BY <3>1 DEF Removing
  <2>4. GoesOn(h, new)
    BY <1>4, <1>5, <1>7, <2>3 DEF GoesOn
  <2> QED BY <1>6, <1>8, <2>4, RemovalGoesOn
<1>9. CASE Adding(rgTodo) /\ rgCbs # << >>
  <2>1. h \in Brings
    BY <1>1, <1>9 DEF Adding, Adds, Kind
  <2>2. Adding(rgTodo')
    <3>1. CASE new = << >>
      BY <3>1, <1>1, <1>9, AddingGoesOn
    <3>2. ASSUME NEW rest \in Walks, new = <<RgWalk(h.o, h.e, rest)>> PROVE Adding(rgTodo')
      <4>1. RgWalk(h.o, h.e, rest) \in Brings
        BY <1>2, <2>1, WalkIs DEF Brings, Kind
      <4> QED BY <3>2, <4>1, <1>1, <1>9, AddingGoesOn
    <3> QED BY <3>1, <3>2
  <2>3. UNCHANGED <<rgDevs, rgSigs, rgLinks, rgMaps, rgLinked, rgOnLink, rgSlots, rgMarked, rgFree>>
    BY DEF rgLists
  <2>4. Sound'
    BY <2>3 DEF Inv, Sound, RgSigsOf, RgListed
  <2>5. Wanted'
    <3>1. ~Some(new, Kind({"addmap"}))
      BY <1>3 DEF Kind
    <3>2. \A s : h \notin On({"addsig"}, s)
      BY DEF On
    <3> QED BY <2>3, <3>1, <3>2, WantedStays DEF RgListed
  <2>6. \A s \in rgSigs : RgOwner[s] \in rgDevs
    <3>1. ASSUME NEW s \in rgSigs PROVE ~Some(rgTodo, Sweeps \cup Dooms(s))
      <4>1. (Sweeps \cup Dooms(s)) \cap (Adds \cup Brings) = {}
        BY DEF Sweeps, Dooms, On, Adds, Brings, Kind
      <4> QED BY <4>1, <1>1, <1>9, AddingVoid
    <3> QED BY <3>1 DEF Inv, Swept
  <2>7. \A d \in RgDev \ rgDevs : Range(rgLinked[d]) = {}
    <3>1. \A o : ~Some(rgTodo, Frees(o))
      BY <1>1, <1>9, AddingVoid
    <3> QED BY <3>1 DEF Inv, Scheduled
  <2> QED BY <1>9, <2>2, <2>3, <2>4, <2>5, <2>6, <2>7, WhileAdding
<1> QED BY <1>8, <1>9 DEF Inv, Mode

(* Handlers are called. *)
LEMMA StartSafe ==
  ASSUME Inv, RgStart
  PROVE  Inv'
<1> DEFINE h == Head(rgTodo)
           new == <<RgWalk(h.o, h.e, rgCbs)>>
<1>1. /\ rgTodo # << >> /\ h.do = "call" /\ rgTodo' = new \o Tail(rgTodo)
      /\ UNCHANGED rgLists /\ UNCHANGED rgProgram /\ rgCbs' = rgCbs
  BY DEF RgStart, RgIs, RgThen, RgThis, rgProgram
<1>2. rgTodo \in Seq(Tasks) /\ rgCbs \in Walks /\ h \in Tasks /\ Tail(rgTodo) \in Seq(Tasks)
  BY <1>1, TailIs DEF Inv, Types
<1> HIDE DEF h
<1>3. RgWalk(h.o, h.e, rgCbs) \in Tasks
  BY <1>1, <1>2, TaskIs, WalkIs
<1>4. new \in Seq(Tasks)
  BY <1>3
<1>5. new = << >> \/ \E rest \in Walks : new = <<RgWalk(h.o, h.e, rest)>> /\ (rgCbs' = << >> => rest = << >>)
  BY <1>1, <1>2
<1> HIDE DEF new
<1>6. new \o Tail(rgTodo) \in Seq(Tasks)
  BY <1>2, <1>4
<1>7. Types'
  BY <1>1, <1>6, TypesKept DEF Inv
<1> QED BY <1>1, <1>4, <1>5, <1>7, CallsGoOn DEF h

LEMMA RgHearsIs ==
  ASSUME Types, NEW o \in Objects, NEW e
  PROVE  RgHears(o, e) \in [Objects -> {"there", "none", "wrong"}]
<1> DEFINE v == IF o \in RgDev THEN IF e \in {"new", "modified"} THEN "there" ELSE "none"
                ELSE CASE e = "new" /\ rgTold[o] = "none" -> "there"
                       [] e = "modified" /\ rgTold[o] = "there" -> "there"
                       [] e \in {"removed", "expired"} /\ rgTold[o] = "there" -> "none"
                       [] OTHER -> "wrong"
<1>1. RgHears(o, e) = [rgTold EXCEPT ![o] = v]
  BY DEF RgHears
<1>2. v \in {"there", "none", "wrong"}
  OBVIOUS
<1> HIDE DEF v
<1> QED BY <1>1, <1>2 DEF Types

LEMMA HandlerSafe ==
  ASSUME Inv, RgHandler
  PROVE  Inv'
<1> DEFINE h == Head(rgTodo)
<1>1. /\ rgTodo # << >> /\ h.do = "walk" /\ UNCHANGED rgLists
      /\ rgTodo \in Seq(Tasks) /\ rgCbs \in Walks
  BY DEF RgHandler, RgIs, Inv, Types
<1>2. /\ h \in Tasks /\ Tail(rgTodo) \in Seq(Tasks) /\ h.o \in Objects /\ h.e \in Events /\ h.rest \in Walks
  BY <1>1, TailIs, TaskIs
<1>3. CASE h.rest = << >>
  <2>1. rgTodo' = << >> \o Tail(rgTodo) /\ UNCHANGED rgProgram /\ rgCbs' = rgCbs
    BY <1>3 DEF RgHandler, RgThen, RgThis, rgProgram
  <2> HIDE DEF h
  <2>2. << >> \o Tail(rgTodo) \in Seq(Tasks) /\ << >> \in Seq(Tasks)
    BY <1>2
  <2>3. Types'
    BY <1>1, <2>1, <2>2, TypesKept DEF Inv
  <2> QED BY <1>1, <2>1, <2>2, <2>3, CallsGoOn DEF h
<1>4. CASE h.rest # << >>
  <2>1. PICK cbs \in RgReacts(h.rest[1]) :
          /\ rgCbs' = cbs
          /\ rgTold' = IF h.rest[1] = "first" THEN RgHears(h.o, h.e) ELSE rgTold
          /\ rgTodo' = <<RgWalk(h.o, h.e, RgRest(h.rest, cbs))>> \o Tail(rgTodo)
          /\ UNCHANGED rgMine
    BY <1>4 DEF RgHandler, RgThen, RgThis
  <2>2. rgCbs # << >>
    <3>1. h \in Continues
      BY <1>1, <1>2, <1>4, InKind
    <3>2. Some(rgTodo, Continues)
      BY <1>1, <3>1, SomeTail
    <3> QED BY <3>2 DEF Inv, Freeing
  <2> DEFINE rest == RgRest(h.rest, cbs)
             new == <<RgWalk(h.o, h.e, rest)>>
  <2> HIDE DEF h
  <2>3. rest \in Walks /\ h.rest[1] \in {"first", "other"}
    BY <1>2, <1>4, WalksGoOn
  <2>4. cbs \in Walks /\ cbs # << >>
    BY <1>1, <2>2, <2>3, HandlersStay
  <2> HIDE DEF rest
  <2>5. RgWalk(h.o, h.e, rest) \in Tasks
    BY <1>2, <2>3, WalkIs
  <2>6. new \in Seq(Tasks)
    BY <2>5
  <2>7. new = << >> \/ \E w \in Walks : new = <<RgWalk(h.o, h.e, w)>> /\ (rgCbs' = << >> => w = << >>)
    BY <2>1, <2>3, <2>4
  <2>8. rgTodo' = new \o Tail(rgTodo)
    BY <2>1 DEF rest
  <2> HIDE DEF new
  <2>9. new \o Tail(rgTodo) \in Seq(Tasks)
    BY <1>2, <2>6
  <2>10. rgTold' \in [Objects -> {"there", "none", "wrong"}]
    BY <1>2, <2>1, RgHearsIs DEF Inv, Types
  <2>11. Types'
    BY <1>1, <2>1, <2>4, <2>8, <2>9, <2>10 DEF Inv, Types, rgLists, RgListed
  <2> QED BY <1>1, <2>1, <2>4, <2>6, <2>7, <2>8, <2>11, CallsGoOn DEF h
<1> QED BY <1>3, <1>4

-----------------------------------------------------------------------------
(* The steps that take a record out of the lists. *)
(* What becomes of q when h, its head, is done. *)
Drops(q, h, r) ==
  /\ \A K : Some(r, K) => Some(q, K)
  /\ \A K : Some(q, K) /\ h \notin K => Some(r, K)
  /\ \A K : h \in K => Some(q, K)
  /\ \A K, L : Preceded(q, K, L) => h \notin K
  /\ \A K, L : Preceded(q, K, L) /\ h \notin L => Preceded(r, K, L)
  /\ \A K, L : Followed(q, K, L) => Followed(r, K, L)
  /\ \A K, L : Followed(q, K, L) /\ h \in K => Some(r, L)
(* A record leaves its list. *)
LEMMA OneLess ==
  ASSUME Inv, rgTodo # << >>, NEW h, h = Head(rgTodo), rgTodo' = << >> \o Tail(rgTodo),
         h.do \in {"unlist", "cut", "free", "unlink"}
  PROVE  /\ rgTodo' \in Seq(Tasks) /\ h \in Tasks /\ Mode' /\ Wanted'
         /\ Drops(rgTodo, h, rgTodo')
<1>1. rgTodo \in Seq(Tasks) /\ h \in Tasks /\ Removing(rgTodo)
  BY HeadIs
<1>2. << >> \in Seq(Tasks)
  OBVIOUS
<1>3. Replaces(rgTodo, << >>, h, rgTodo')
  BY <1>1, <1>2, Goes
<1> DEFINE q == rgTodo
           r == rgTodo'
<1>4. Replaces(q, << >>, h, r)
  BY <1>3
<1>5. Removing(r) /\ r \in Seq(Tasks)
  BY <1>1, <1>4, Nothing DEF Replaces, Removing
<1>6. Mode' /\ Wanted'
  BY <1>5, WhileRemoving
<1> HIDE DEF q, r
<1>7. ASSUME NEW K
      PROVE  /\ Some(r, K) => Some(q, K)
             /\ Some(q, K) /\ h \notin K => Some(r, K)
             /\ h \in K => Some(q, K)
  BY <1>4, Nothing DEF Replaces
<1>8. ASSUME NEW K, NEW L
      PROVE  /\ Preceded(q, K, L) => h \notin K
             /\ Preceded(q, K, L) /\ h \notin L => Preceded(r, K, L)
             /\ Followed(q, K, L) => Followed(r, K, L)
             /\ Followed(q, K, L) /\ h \in K => Some(r, L)
  BY <1>4, Nothing DEF Replaces
<1>9. Drops(q, h, r)
  BY <1>7, <1>8, Zenon DEF Drops
<1> QED BY <1>1, <1>5, <1>6, <1>9 DEF q, r

LEMMA UnlistSafe ==
  ASSUME Inv, RgUnlist
  PROVE  Inv'
<1> DEFINE h == Head(rgTodo)
           q == rgTodo
           r == rgTodo'
           o == h.o
<1>1. /\ rgTodo # << >> /\ h.do = "unlist" /\ rgTodo' = << >> \o Tail(rgTodo)
      /\ rgDevs' = rgDevs \ {o} /\ rgSigs' = rgSigs \ {o}
      /\ rgMaps' = [m \in RgListed \ {o} |-> rgMaps[m]]
      /\ rgFree' = rgFree \cup ({o} \cap RgListed) /\ rgMarked' = rgMarked \ {o}
      /\ UNCHANGED <<rgLinks, rgLinked, rgOnLink, rgSlots, rgCbs, rgTold, rgMine>>
  BY DEF RgUnlist, RgIs, RgThen, RgThis, rgProgram
<1>2. r \in Seq(Tasks) /\ h \in Tasks /\ Mode' /\ Wanted' /\ Drops(q, h, r)
  BY <1>1, OneLess
<1> HIDE DEF h
<1>3. /\ h \in Leaves(o) /\ h \in Leaving(o)
      /\ \A x : h \in Leaves(x) => x = o
      /\ \A x : h \in Dooms(x) => x = o
      /\ \A x : h \notin Cuts(x) /\ h \notin Unlinks(x) /\ h \notin Frees(x)
      /\ h \notin Sweeps /\ h \notin Continues
  BY <1>1, <1>2, InKind
<1> HIDE DEF q, r, o
<1>4. /\ \A K : Some(r, K) => Some(q, K)
      /\ \A K : Some(q, K) /\ h \notin K => Some(r, K)
      /\ \A K : h \in K => Some(q, K)
      /\ \A K, L : Preceded(q, K, L) => h \notin K
      /\ \A K, L : Preceded(q, K, L) /\ h \notin L => Preceded(r, K, L)
      /\ \A K, L : Followed(q, K, L) => Followed(r, K, L)
      /\ \A K, L : Followed(q, K, L) /\ h \in K => Some(r, L)
  BY <1>2 DEF Drops
<1>5. /\ RgListed' = RgListed \ {o} /\ \A m \in RgListed' : RgSigsOf(m)' = RgSigsOf(m) /\ rgMaps'[m] = rgMaps[m]
  BY <1>1 DEF RgListed, RgSigsOf
<1>6. Types /\ Sound /\ Scheduled /\ Swept /\ Freeing
  BY DEF Inv
<1>7. Types'
  BY <1>1, <1>2, <1>5, <1>6 DEF Types, r
<1>8. /\ \A s \in rgSigs \ rgMarked : RgOwner[s] # o
      /\ \A m \in RgListed \ rgMarked : \A s \in RgSigsOf(m) : s # o
      /\ \A k \in rgLinks : \A d \in k : d # o
      /\ \A d \in rgDevs : \A x \in rgDevs \ {d} : d \in Range(rgLinked[x]) => d # o
  BY <1>3, <1>4, <1>6 DEF Scheduled, q
<1>9. Sound'
  <2>1. \A d \in rgDevs' : Range(rgLinked'[d]) \subseteq rgDevs'
    BY <1>1, <1>6, <1>8 DEF Sound
  <2> QED BY <1>1, <1>5, <1>6, <1>8, <2>1 DEF Sound
<1>10. Scheduled'
  <2>1. \A m \in RgListed' \ rgMarked' : \A s \in RgSigsOf(m)' : Preceded(r, Leaves(s), Dooms(m))
    BY <1>1, <1>3, <1>4, <1>5, <1>6 DEF Scheduled, q
  <2>2. \A s \in rgSigs' \ rgMarked' : Preceded(r, Leaves(RgOwner[s]), Dooms(s))
    BY <1>1, <1>3, <1>4, <1>6 DEF Scheduled, q
  <2>3. \A k \in rgLinks' : \A d \in k : Preceded(r, Leaves(d), Cuts(k))
    BY <1>1, <1>3, <1>4, <1>6 DEF Scheduled, q
  <2>4. \A d \in rgDevs' : \A x \in rgDevs' \ {d} :
          d \in Range(rgLinked'[x]) => Preceded(r, Leaves(d), Unlinks(d))
    BY <1>1, <1>3, <1>4, <1>6 DEF Scheduled, q
  <2>5. \A d \in RgDev : Followed(r, Leaves(d), Frees(d))
    BY <1>4, <1>6 DEF Scheduled, q
  <2>6. \A d \in RgDev \ rgDevs' : Range(rgLinked'[d]) = {} \/ Some(r, Frees(d))
    BY <1>1, <1>3, <1>4, <1>6 DEF Scheduled, q
  <2> QED BY <2>1, <2>2, <2>3, <2>4, <2>5, <2>6 DEF Scheduled, r
<1>11. Swept'
  <2> SUFFICES ASSUME NEW s \in rgSigs'
               PROVE  /\ RgOwner[s] \in rgDevs' \/ Some(r, Sweeps \cup Dooms(s))
                      /\ s \in rgMarked' /\ Some(r, Leaving(RgOwner[s])) => Some(r, Sweeps \cup Dooms(s))
    BY DEF Swept, r
  <2>1. s \in rgSigs /\ s # o /\ (s \in rgMarked' <=> s \in rgMarked)
    BY <1>1
  <2>2. /\ RgOwner[s] \in rgDevs \/ Some(q, Sweeps \cup Dooms(s))
        /\ s \in rgMarked /\ Some(q, Leaving(RgOwner[s])) => Some(q, Sweeps \cup Dooms(s))
    BY <2>1, <1>6 DEF Swept, q
  <2>3. h \notin Sweeps \cup Dooms(s)
    BY <1>3, <2>1
  <2>4. Some(q, Sweeps \cup Dooms(s)) => Some(r, Sweeps \cup Dooms(s))
    BY <2>3, <1>4
  <2>5. RgOwner[s] = o => s \in rgMarked /\ Some(q, Leaving(RgOwner[s]))
    BY <2>1, <1>3, <1>4, <1>8
  <2>6. Some(r, Leaving(RgOwner[s])) => Some(q, Leaving(RgOwner[s]))
    BY <1>4
  <2> QED BY <2>1, <2>2, <2>4, <2>5, <2>6, <1>1
<1>12. Freeing'
  BY <1>1, <1>3, <1>4, <1>6 DEF Freeing, q, r
<1> QED BY <1>2, <1>7, <1>9, <1>10, <1>11, <1>12 DEF Inv

(* A link is cut; a device leaves the lists of the others. *)
LEMMA LessLinked ==
  ASSUME Inv, rgTodo # << >>, NEW h, h = Head(rgTodo), rgTodo' = << >> \o Tail(rgTodo),
         h.do \in {"cut", "free", "unlink"}, Types',
         UNCHANGED <<rgDevs, rgSigs, rgMaps, rgMarked, rgCbs>>, rgLinks' \subseteq rgLinks,
         \A x \in RgDev : Range(rgLinked'[x]) \subseteq Range(rgLinked[x]),
         \A k \in Pairs : rgOnLink'[k] \subseteq RgListed \cup rgFree',
         \A s \in Locals : rgSlots'[s] \subseteq RgListed \cup rgFree',
         \A k \in rgLinks' : h \notin Cuts(k),
         \A d \in RgDev : h \in Unlinks(d) => \A x \in RgDev \ {d} : d \notin Range(rgLinked'[x]),
         \A d \in RgDev : h \in Frees(d) => Range(rgLinked'[d]) = {}
  PROVE  Inv'
<1> DEFINE q == rgTodo
           r == rgTodo'
<1>1. r \in Seq(Tasks) /\ h \in Tasks /\ Mode' /\ Wanted' /\ Drops(q, h, r)
  BY OneLess
<1>2. /\ \A x : h \notin Dooms(x) /\ h \notin Leaves(x) /\ h \notin Leaving(x)
      /\ h \notin Sweeps /\ h \notin Continues
  BY <1>1, InKind
<1> HIDE DEF q, r
<1>3. /\ \A K : Some(r, K) => Some(q, K)
      /\ \A K : Some(q, K) /\ h \notin K => Some(r, K)
      /\ \A K, L : Preceded(q, K, L) /\ h \notin L => Preceded(r, K, L)
      /\ \A K, L : Followed(q, K, L) => Followed(r, K, L)
  BY <1>1 DEF Drops
<1>4. RgListed' = RgListed /\ \A m : RgSigsOf(m)' = RgSigsOf(m)
  BY DEF RgListed, RgSigsOf
<1>5. Types /\ Sound /\ Scheduled /\ Swept /\ Freeing /\ rgDevs \subseteq RgDev
  BY DEF Inv, Types
<1>6. Sound'
  BY <1>4, <1>5 DEF Sound
<1>7. Scheduled'
  <2>1. \A m \in RgListed \ rgMarked : \A s \in RgSigsOf(m) : Preceded(r, Leaves(s), Dooms(m))
    BY <1>2, <1>3, <1>5 DEF Scheduled, q
  <2>2. \A s \in rgSigs \ rgMarked : Preceded(r, Leaves(RgOwner[s]), Dooms(s))
    BY <1>2, <1>3, <1>5 DEF Scheduled, q
  <2>3. \A k \in rgLinks' : \A d \in k : Preceded(r, Leaves(d), Cuts(k))
    BY <1>3, <1>5 DEF Scheduled, q
  <2>4. \A d \in rgDevs : \A x \in rgDevs \ {d} :
          d \in Range(rgLinked'[x]) => Preceded(r, Leaves(d), Unlinks(d))
    BY <1>3, <1>5 DEF Scheduled, q
  <2>5. \A d \in RgDev : Followed(r, Leaves(d), Frees(d))
    BY <1>3, <1>5 DEF Scheduled, q
  <2>6. \A d \in RgDev \ rgDevs : Range(rgLinked'[d]) = {} \/ Some(r, Frees(d))
    BY <1>3, <1>5 DEF Scheduled, q
  <2> QED BY <2>1, <2>2, <2>3, <2>4, <2>5, <2>6, <1>4 DEF Scheduled, r
<1>8. Swept'
  <2>1. \A s : h \notin Sweeps \cup Dooms(s)
    BY <1>2
  <2> QED BY <2>1, <1>3, <1>5 DEF Swept, q, r
<1>9. Freeing'
  BY <1>2, <1>3, <1>5 DEF Freeing, q, r
<1> QED BY <1>1, <1>6, <1>7, <1>8, <1>9 DEF Inv

LEMMA CutSafe ==
  ASSUME Inv, RgCut
  PROVE  Inv'
<1> DEFINE h == Head(rgTodo)
           k == h.o
           d == CHOOSE x \in k : TRUE
           e == CHOOSE x \in k : x # d
<1>1. /\ rgTodo # << >> /\ h.do = "cut" /\ rgTodo' = << >> \o Tail(rgTodo)
      /\ rgLinks' = rgLinks \ {k} /\ rgOnLink' = [rgOnLink EXCEPT ![k] = {}]
      /\ rgLinked' = RgUnlinked(rgLinked, d, e)
      /\ UNCHANGED <<rgDevs, rgSigs, rgMaps, rgSlots, rgMarked, rgFree, rgCbs, rgTold, rgMine>>
  BY DEF RgCut, RgIs, RgThen, RgThis, rgProgram
<1>2. h \in Tasks /\ k \in Bonds /\ rgTodo' \in Seq(Tasks)
  BY <1>1, OneLess, HeadIs, TaskIs
<1>3. d \in RgDev /\ e \in RgDev
  <2>1. k \subseteq RgDev /\ \E x, y \in k : x # y
    BY <1>2 DEF Bonds, Pairs
  <2>2. d \in k
    BY <2>1
  <2>3. e \in k
    <3>1. \E x \in k : x # d
      BY <2>1
    <3> QED BY <3>1
  <2> QED BY <2>1, <2>2, <2>3
<1> HIDE DEF d, e, h
<1>4. rgLinked' \in Linkings /\ \A x \in RgDev : Range(rgLinked'[x]) \subseteq Range(rgLinked[x])
  BY <1>1, <1>3, RgUnlinkedIs DEF Inv, Types
<1>5. /\ \A x : h \in Cuts(x) => x = k
      /\ \A x : h \notin Unlinks(x) /\ h \notin Frees(x)
  BY <1>1, <1>2, InKind
<1> HIDE DEF k
<1>6. Types'
  BY <1>1, <1>2, <1>4 DEF Inv, Types, RgListed
<1>7. \A x \in Pairs : rgOnLink'[x] \subseteq RgListed \cup rgFree'
  BY <1>1 DEF Inv, Types, Sound
<1>8. \A s \in Locals : rgSlots'[s] \subseteq RgListed \cup rgFree'
  BY <1>1 DEF Inv, Sound
<1> QED BY <1>1, <1>4, <1>5, <1>6, <1>7, <1>8, LessLinked DEF h

LEMMA FreedSafe ==
  ASSUME Inv, RgFreed
  PROVE  Inv'
<1> DEFINE h == Head(rgTodo)
           o == h.o
<1>1. /\ rgTodo # << >> /\ h.do = "free" /\ rgTodo' = << >> \o Tail(rgTodo)
      /\ rgFree' = rgFree \ {o} /\ rgOnLink' = RgWithoutMap(rgOnLink, o)
      /\ rgSlots' = IF o \in DOMAIN rgSlots THEN [rgSlots EXCEPT ![o] = {}] ELSE RgWithoutMap(rgSlots, o)
      /\ rgLinked' = IF o \in RgDev THEN [rgLinked EXCEPT ![o] = << >>] ELSE rgLinked
      /\ UNCHANGED <<rgDevs, rgSigs, rgLinks, rgMaps, rgMarked, rgCbs, rgTold, rgMine>>
  BY DEF RgFreed, RgIs, RgThen, RgThis, rgProgram
<1>2. h \in Tasks /\ o \in Objects /\ rgTodo' \in Seq(Tasks)
  BY <1>1, OneLess, HeadIs, TaskIs
<1>3. /\ rgLinked \in Linkings /\ rgOnLink \in [Pairs -> SUBSET RgMap] /\ rgSlots \in [Locals -> SUBSET RgMap]
      /\ rgFree \subseteq RgMap /\ Locals \subseteq RgSig
  BY DEF Inv, Types, Locals
<1>4. /\ \A x : h \notin Cuts(x) /\ h \notin Unlinks(x)
      /\ \A x : h \in Frees(x) => x = o
  BY <1>1, <1>2, InKind
<1> HIDE DEF h, o
<1>5. << >> \in Seq(RgDev) /\ Range(<< >>) = {}
  BY DEF Range
<1>6. /\ rgLinked' \in Linkings /\ \A x \in RgDev : Range(rgLinked'[x]) \subseteq Range(rgLinked[x])
      /\ o \in RgDev => Range(rgLinked'[o]) = {}
  BY <1>1, <1>3, <1>5 DEF Linkings
<1>7. /\ rgOnLink' \in [Pairs -> SUBSET RgMap]
      /\ \A k \in Pairs : rgOnLink'[k] = rgOnLink[k] \ {o}
  BY <1>1, <1>3 DEF RgWithoutMap
<1>8. /\ rgSlots' \in [Locals -> SUBSET RgMap]
      /\ \A s \in Locals : rgSlots'[s] \subseteq rgSlots[s] \ {o}
  <2>1. CASE o \in Locals
    <3>1. \A s \in Locals : o \notin rgSlots[s]
      BY <2>1, <1>3, RgAssumption
    <3> QED BY <2>1, <3>1, <1>1, <1>3
  <2>2. CASE o \notin Locals
    BY <2>2, <1>1, <1>3 DEF RgWithoutMap
  <2> QED BY <2>1, <2>2
<1>9. Types'
  BY <1>1, <1>2, <1>6, <1>7, <1>8 DEF Inv, Types, RgListed
<1>10. \A k \in Pairs : rgOnLink'[k] \subseteq RgListed \cup rgFree'
  BY <1>1, <1>7 DEF Inv, Sound
<1>11. \A s \in Locals : rgSlots'[s] \subseteq RgListed \cup rgFree'
  BY <1>1, <1>8 DEF Inv, Sound
<1> QED BY <1>1, <1>4, <1>6, <1>9, <1>10, <1>11, LessLinked DEF h

LEMMA UnlinkSafe ==
  ASSUME Inv, RgUnlink
  PROVE  Inv'
<1> DEFINE h == Head(rgTodo)
           o == h.o
<1>1. /\ rgTodo # << >> /\ h.do = "unlink" /\ rgTodo' = << >> \o Tail(rgTodo)
      /\ rgLinked' = RgAllUnlinked(o)
      /\ UNCHANGED <<rgDevs, rgSigs, rgLinks, rgMaps, rgOnLink, rgSlots, rgMarked, rgFree, rgCbs, rgTold, rgMine>>
  BY DEF RgUnlink, RgIs, RgThen, RgThis, rgProgram
<1>2. h \in Tasks /\ o \in RgDev /\ rgTodo' \in Seq(Tasks)
  BY <1>1, OneLess, HeadIs, TaskIs
<1>3. /\ \A x : h \notin Cuts(x) /\ h \notin Frees(x)
      /\ \A x : h \in Unlinks(x) => x = o
  BY <1>1, <1>2, InKind
<1> HIDE DEF h, o
<1>4. /\ rgLinked' \in Linkings
      /\ \A x \in RgDev : Range(rgLinked'[x]) \subseteq Range(rgLinked[x])
      /\ \A x \in RgDev \ {o} : o \notin Range(rgLinked'[x])
  BY <1>1, <1>2, RgAllUnlinkedIs DEF Inv, Types
<1>5. Types'
  BY <1>1, <1>2, <1>4 DEF Inv, Types, RgListed
<1>6. /\ \A k \in Pairs : rgOnLink'[k] \subseteq RgListed \cup rgFree'
      /\ \A s \in Locals : rgSlots'[s] \subseteq RgListed \cup rgFree'
  BY <1>1 DEF Inv, Sound
<1> QED BY <1>1, <1>3, <1>4, <1>5, <1>6, LessLinked DEF h

-----------------------------------------------------------------------------
(* The steps that add records. *)
LEMMA AddingIs ==
  ASSUME Inv, Adding(rgTodo)
  PROVE  /\ \A s \in rgSigs : RgOwner[s] \in rgDevs
         /\ \A d \in RgDev \ rgDevs : Range(rgLinked[d]) = {}
<1>0. rgTodo \in Seq(Tasks)
  BY DEF Inv, Types
<1>1. ASSUME NEW s \in rgSigs PROVE RgOwner[s] \in rgDevs
  <2>1. (Sweeps \cup Dooms(s)) \cap (Adds \cup Brings) = {}
    BY DEF Sweeps, Dooms, On, Adds, Brings, Kind
  <2>2. ~Some(rgTodo, Sweeps \cup Dooms(s))
    BY <2>1, <1>0, AddingVoid
  <2> QED BY <2>2 DEF Inv, Swept
<1>2. ASSUME NEW d \in RgDev \ rgDevs PROVE Range(rgLinked[d]) = {}
  <2>1. \A o : ~Some(rgTodo, Frees(o))
    BY <1>0, AddingVoid
  <2> QED BY <2>1 DEF Inv, Scheduled
<1> QED BY <1>1, <1>2

LEMMA CallIs ==
  ASSUME NEW o \in Objects, NEW e \in {"new", "modified"}
  PROVE  /\ RgCall(o, e) \in Brings /\ RgCall(o, e) \in Tasks /\ RgCall(o, e) \notin Kind({"addmap"})
         /\ RgCall(o, e).do = "call" /\ RgCall(o, e).o = o /\ RgCall(o, e).e = e
<1>1. RgCall(o, e) \in Tasks /\ RgCall(o, e).do = "call" /\ RgCall(o, e).o = o /\ RgCall(o, e).e = e
  BY ThingIs DEF RgCall, Events
<1> QED BY <1>1 DEF Brings, Kind

(* Nothing, or one call, takes the place of the head. *)
LEMMA AddedOne ==
  ASSUME NEW q \in Seq(Tasks), q # << >>, Adding(q), NEW r, NEW new, r = new \o Tail(q),
         new = << >> \/ \E o \in Objects, e \in {"new", "modified"} : new = <<RgCall(o, e)>>
  PROVE  new \in Seq(Tasks) /\ r \in Seq(Tasks) /\ Adding(r) /\ ~Some(new, Kind({"addmap"}))
<1>0. Tail(q) \in Seq(Tasks)
  BY TailIs
<1>1. CASE new = << >>
  <2>1. Adding(r)
    BY <1>1, AddingGoesOn
  <2> QED BY <2>1, <1>0, <1>1, Nothing
<1>2. ASSUME NEW o \in Objects, NEW e \in {"new", "modified"}, new = <<RgCall(o, e)>>
      PROVE  new \in Seq(Tasks) /\ r \in Seq(Tasks) /\ Adding(r) /\ ~Some(new, Kind({"addmap"}))
  <2> DEFINE c == RgCall(o, e)
  <2>1. c \in Brings /\ c \in Tasks /\ c \notin Kind({"addmap"})
    BY CallIs
  <2> HIDE DEF c
  <2>2. new = <<c>>
    BY <1>2 DEF c
  <2>3. new \in Seq(Tasks)
    BY <2>1, <2>2
  <2>4. r \in Seq(Tasks)
    BY <2>3, <1>0
  <2>5. Adding(r)
    BY <2>1, <2>2, AddingGoesOn
  <2>6. ~Some(new, Kind({"addmap"}))
    BY <2>1, <2>2, OneThing
  <2> QED BY <2>3, <2>4, <2>5, <2>6
<1> QED BY <1>1, <1>2

LEMMA AddSigSafe ==
  ASSUME Inv, RgAddSig
  PROVE  Inv'
<1> DEFINE h == Head(rgTodo)
           s == h.o
           new == IF s \notin rgSigs THEN <<RgCall(s, "new")>>
                  ELSE IF h.e = "changed" /\ RgOwner[s] # RgLocal THEN <<RgCall(s, "modified")>> ELSE << >>
<1>1. /\ rgTodo # << >> /\ h.do = "addsig" /\ rgTodo' = new \o Tail(rgTodo)
      /\ rgDevs' = rgDevs \cup {RgOwner[s]} /\ rgSigs' = rgSigs \cup {s}
      /\ UNCHANGED <<rgLinks, rgMaps, rgLinked, rgOnLink, rgSlots, rgMarked, rgFree, rgCbs, rgTold, rgMine>>
  BY DEF RgAddSig, RgIs, RgThen, RgThis, rgProgram
<1>2. rgTodo \in Seq(Tasks) /\ Mode
  BY DEF Inv, Types
<1>3. h \in Tasks /\ s \in RgSig /\ s \in Objects /\ RgOwner[s] \in RgDev /\ Adding(rgTodo) /\ rgCbs # << >>
  BY <1>1, <1>2, WhichMode, TaskIs, RgAssumption DEF Objects
<1>4. new = << >> \/ \E o \in Objects, e \in {"new", "modified"} : new = <<RgCall(o, e)>>
  BY <1>3
<1> HIDE DEF h, new
<1>5. new \in Seq(Tasks) /\ rgTodo' \in Seq(Tasks) /\ Adding(rgTodo') /\ ~Some(new, Kind({"addmap"}))
  BY <1>1, <1>2, <1>3, <1>4, AddedOne
<1>6. /\ \A x \in rgSigs : RgOwner[x] \in rgDevs
      /\ \A d \in RgDev \ rgDevs : Range(rgLinked[d]) = {}
  BY <1>3, AddingIs
<1>7. \A x \in RgSig : h \in On({"addsig"}, x) => x \in rgSigs' /\ RgOwner[x] \in rgDevs'
  BY <1>1 DEF On
<1> HIDE DEF s
<1>8. Types'
  BY <1>1, <1>3, <1>5 DEF Inv, Types, RgListed
<1>9. RgListed' = RgListed /\ \A m : RgSigsOf(m)' = RgSigsOf(m)
  BY <1>1 DEF RgListed, RgSigsOf
<1>10. Sound'
  <2>1. \A d \in rgDevs' : Range(rgLinked'[d]) \subseteq rgDevs'
    BY <1>1, <1>3, <1>6 DEF Inv, Sound
  <2> QED BY <1>1, <1>6, <1>9, <2>1 DEF Inv, Sound
<1>11. Wanted'
  BY <1>1, <1>5, <1>7, <1>9, WantedStays DEF h
<1>12. /\ \A x \in rgSigs' : RgOwner[x] \in rgDevs'
       /\ \A d \in RgDev \ rgDevs' : Range(rgLinked'[d]) = {}
  BY <1>1, <1>6
<1> QED BY <1>1, <1>3, <1>5, <1>8, <1>10, <1>11, <1>12, WhileAdding

LEMMA BondIs ==
  ASSUME NEW x \in RgDev, NEW y \in RgDev, Cardinality({x, y}) = 2
  PROVE  {x, y} \in Bonds
<1>1. x # y
  <2>1. Cardinality({x}) = 1
    BY FS_Singleton
  <2> SUFFICES ASSUME x = y PROVE FALSE
    OBVIOUS
  <2>2. {x, y} = {x}
    OBVIOUS
  <2> QED BY <2>1, <2>2
<1> QED BY <1>1 DEF Bonds, Pairs

LEMMA AddMapSafe ==
  ASSUME Inv, RgAddMap
  PROVE  Inv'
<1> DEFINE h == Head(rgTodo)
           m == h.o.map
           S == h.o.src
           isNew == m \notin RgListed
           pairs == {RgLinkOf(RgOwner[s], RgOwner[RgMapDst[m]]) : s \in S}
           links == IF isNew THEN {k \in pairs : Cardinality(k) = 2} ELSE {}
           new == CASE isNew /\ ~RgIsLocal(m) -> <<RgCall(m, "new")>>
                    [] ~isNew /\ ~(S \subseteq rgMaps[m].src) -> <<RgCall(m, "modified")>>
                    [] OTHER -> << >>
<1>1. /\ rgTodo # << >> /\ h.do = "addmap" /\ rgTodo' = new \o Tail(rgTodo)
      /\ rgMaps' = [x \in RgListed \cup {m} |->
                        CASE x # m -> rgMaps[x]
                          [] x = m /\ isNew ->
                               [src |-> S, is |-> IF RgIsLocal(m) THEN "staged" ELSE "active"]
                          [] OTHER -> [rgMaps[m] EXCEPT !.src = @ \cup S]]
      /\ rgLinks' = rgLinks \cup links
      /\ rgOnLink' = [k \in DOMAIN rgOnLink |->
                        IF RgIsLocal(m) /\ k \in links THEN rgOnLink[k] \cup {m} ELSE rgOnLink[k]]
      /\ UNCHANGED <<rgDevs, rgSigs, rgLinked, rgSlots, rgMarked, rgFree, rgCbs, rgTold, rgMine>>
  BY DEF RgAddMap, RgIs, RgThen, RgThis, rgProgram
<1>2. rgTodo \in Seq(Tasks) /\ Mode /\ Types /\ Sound /\ Wanted
  BY DEF Inv, Types
<1>3. h \in Tasks /\ m \in RgMap /\ m \in Objects /\ S \subseteq RgMapSrc[m] /\ Adding(rgTodo) /\ rgCbs # << >>
  BY <1>1, <1>2, WhichMode, TaskIs DEF Objects, Wishes
<1>4. new = << >> \/ \E o \in Objects, e \in {"new", "modified"} : new = <<RgCall(o, e)>>
  <2> HIDE DEF m, S
  <2> QED BY <1>3
<1> HIDE DEF new
<1>5. new \in Seq(Tasks) /\ rgTodo' \in Seq(Tasks) /\ Adding(rgTodo') /\ ~Some(new, Kind({"addmap"}))
  BY <1>1, <1>2, <1>3, <1>4, AddedOne
<1>6. /\ \A x \in rgSigs : RgOwner[x] \in rgDevs
      /\ \A d \in RgDev \ rgDevs : Range(rgLinked[d]) = {}
  BY <1>3, AddingIs
<1>7. /\ \A s \in S \cup {RgMapDst[m]} : s \in rgSigs /\ RgOwner[s] \in rgDevs
      /\ RgIsLocal(m) => isNew /\ S = RgMapSrc[m]
  <2>1. h \in Range(rgTodo)
    <3>1. 1 \in DOMAIN rgTodo /\ rgTodo[1] = h
      BY <1>1, <1>2, TailIs
    <3> QED BY <3>1 DEF Range
  <2>2. ASSUME NEW s \in S \cup {RgMapDst[m]} PROVE ~Preceded(rgTodo, {h}, On({"addsig"}, s))
    BY <1>1, <1>2, PrecededHead
  <2> QED BY <2>1, <2>2, <1>1, <1>2 DEF Wanted
<1>8. ASSUME NEW k \in links PROVE k \in Bonds /\ k \subseteq rgDevs
  <2>1. PICK s \in S : k = {RgOwner[s], RgOwner[RgMapDst[m]]} /\ Cardinality(k) = 2
    BY <1>8 DEF RgLinkOf
  <2>2. RgOwner[s] \in rgDevs /\ RgOwner[RgMapDst[m]] \in rgDevs /\ rgDevs \subseteq RgDev
    BY <1>2, <1>7 DEF Types
  <2> QED BY <2>1, <2>2, BondIs
<1>9. ~Some(rgTodo', Kind({"addmap"}))
  <2>1. h \in Kind({"addmap"})
    BY <1>1, <1>3 DEF Kind
  <2>2. ~Some(Tail(rgTodo), Kind({"addmap"}))
    BY <2>1, <1>1, <1>2, SingleTail DEF Wanted
  <2>3. Tail(rgTodo) \in Seq(Tasks)
    BY <1>1, <1>2, TailIs
  <2>4. Some(new \o Tail(rgTodo), Kind({"addmap"})) <=> Some(new, Kind({"addmap"})) \/ Some(Tail(rgTodo), Kind({"addmap"}))
    BY <2>3, <1>5, Joined
  <2> QED BY <2>2, <2>4, <1>1, <1>5
<1> HIDE DEF links
<1>10. /\ RgListed' = RgListed \cup {m}
       /\ \A x \in RgListed \ {m} : rgMaps'[x] = rgMaps[x]
       /\ isNew => rgMaps'[m] = [src |-> S, is |-> IF RgIsLocal(m) THEN "staged" ELSE "active"]
       /\ ~isNew => rgMaps'[m] = [rgMaps[m] EXCEPT !.src = @ \cup S]
  <2> DEFINE f(x) == CASE x # m -> rgMaps[x]
                          [] x = m /\ isNew ->
                               [src |-> S, is |-> IF RgIsLocal(m) THEN "staged" ELSE "active"]
                          [] OTHER -> [rgMaps[m] EXCEPT !.src = @ \cup S]
  <2>1. rgMaps' = [x \in RgListed \cup {m} |-> f(x)]
    BY <1>1
  <2> HIDE DEF m, S
  <2>2. /\ \A x : x # m => f(x) = rgMaps[x]
        /\ isNew => f(m) = [src |-> S, is |-> IF RgIsLocal(m) THEN "staged" ELSE "active"]
        /\ ~isNew => f(m) = [rgMaps[m] EXCEPT !.src = @ \cup S]
    OBVIOUS
  <2> HIDE DEF f
  <2> QED BY <2>1, <2>2 DEF RgListed
<1> HIDE DEF h, m, S
<1>11. rgMaps'[m].src \subseteq RgMapSrc[m] /\ rgMaps'[m] \in [src : SUBSET RgMapSrc[m], is : {"staged", "ready", "active"}]
       /\ rgMaps'[m].src = (IF isNew THEN {} ELSE rgMaps[m].src) \cup S
       /\ IF RgIsLocal(m) THEN rgMaps'[m].src = RgMapSrc[m] ELSE rgMaps'[m].is = "active"
  <2>1. CASE isNew
    BY <2>1, <1>3, <1>7, <1>10
  <2>2. CASE ~isNew
    <3>1. rgMaps[m] \in [src : SUBSET RgMapSrc[m], is : {"staged", "ready", "active"}] /\ rgMaps[m].is = "active"
      BY <2>2, <1>2, <1>7 DEF Types
    <3> QED BY <2>2, <3>1, <1>3, <1>7, <1>10
  <2> QED BY <2>1, <2>2
<1>12. rgOnLink' \in [Pairs -> SUBSET RgMap] /\ \A k \in Pairs : rgOnLink'[k] \subseteq rgOnLink[k] \cup {m}
  BY <1>1, <1>2, <1>3 DEF Types
<1>13. Types'
  <2>1. \A x \in RgListed' :
          /\ rgMaps'[x] \in [src : SUBSET RgMapSrc[x], is : {"staged", "ready", "active"}]
          /\ IF RgIsLocal(x) THEN rgMaps'[x].src = RgMapSrc[x] ELSE rgMaps'[x].is = "active"
    BY <1>2, <1>10, <1>11 DEF Types
  <2> QED BY <2>1, <1>1, <1>2, <1>3, <1>5, <1>8, <1>10, <1>12 DEF Types
<1>14. Sound'
  <2>1. ASSUME NEW x \in RgListed' \ rgMarked' PROVE (rgMaps'[x].src \cup {RgMapDst[x]}) \subseteq rgSigs'
    <3>0. rgSigs' = rgSigs /\ rgMarked' = rgMarked /\ \A y \in RgListed \ rgMarked : (rgMaps[y].src \cup {RgMapDst[y]}) \subseteq rgSigs
      BY <1>1, <1>2 DEF Sound, RgSigsOf
    <3>1. CASE x # m
      BY <3>0, <3>1, <2>1, <1>10
    <3>2. CASE x = m
      <4>1. RgMapDst[m] \in rgSigs /\ S \subseteq rgSigs
        BY <1>7
      <4>2. ~isNew => rgMaps[m].src \subseteq rgSigs
        BY <3>0, <3>2, <2>1
      <4>3. rgMaps'[m].src \subseteq rgSigs
        BY <4>1, <4>2, <1>11
      <4> HIDE DEF isNew
      <4> QED BY <4>1, <4>3, <3>0, <3>2
    <3> QED BY <3>1, <3>2
  <2> QED BY <2>1, <1>1, <1>2, <1>8, <1>10, <1>12 DEF Sound, RgSigsOf
<1>15. Wanted'
  <2>1. Single(rgTodo', Kind({"addmap"}))
    BY <1>9, WithoutSome
  <2>2. ASSUME NEW t \in Range(rgTodo'), t.do = "addmap" PROVE FALSE
    <3>1. t \in Tasks
      BY <1>5, RangeOf
    <3>2. t \in Kind({"addmap"})
      BY <3>1, <2>2 DEF Kind
    <3> QED BY <1>9, <3>2, SomeRange
  <2> QED BY <2>1, <2>2 DEF Wanted
<1>16. /\ \A x \in rgSigs' : RgOwner[x] \in rgDevs'
       /\ \A d \in RgDev \ rgDevs' : Range(rgLinked'[d]) = {}
  BY <1>1, <1>6
<1> QED BY <1>1, <1>3, <1>5, <1>13, <1>14, <1>15, <1>16, WhileAdding

-----------------------------------------------------------------------------
(* What is begun between two messages and adds records. *)
LEMMA BeginsOne ==
  ASSUME NEW q, q = << >> \/ \E x \in Adds \cup Brings : x.do # "addmap" /\ q = <<x>>, rgTodo' = q
  PROVE  q \in Seq(Tasks) /\ Adding(q) /\ Wanted'
<1>1. CASE q = << >>
  <2>1. Adding(q) /\ Removing(q) /\ q \in Seq(Tasks)
    BY <1>1, AddingBegins
  <2> QED BY <2>1, WhileRemoving
<1>2. ASSUME NEW x \in Adds \cup Brings, x.do # "addmap", q = <<x>>
      PROVE  q \in Seq(Tasks) /\ Adding(q) /\ Wanted'
  <2>1. x \in Tasks
    BY DEF Adds, Brings, Kind
  <2>2. q \in Seq(Tasks) /\ Adding(q)
    BY <1>2, <2>1, AddingBegins
  <2>3. ~Some(q, Kind({"addmap"}))
    <3>1. x \notin Kind({"addmap"})
      BY <1>2 DEF Kind
    <3> QED BY <3>1, <1>2, OneThing
  <2>4. \A t \in Range(q) : t.do # "addmap"
    BY <1>2 DEF Range
  <2>5. Single(q, Kind({"addmap"}))
    BY <2>3, WithoutSome
  <2> QED BY <2>2, <2>4, <2>5 DEF Wanted
<1> QED BY <1>1, <1>2

(* The messages that add records. *)
LEMMA ReceiveDeviceSafe ==
  ASSUME Inv, NEW d \in RgDev, NEW names \in RgLinkedTo, RgReceiveDevice(d, names)
  PROVE  Inv'
<1> DEFINE e == IF d \in rgDevs THEN "modified" ELSE "new"
           x == RgCall(d, e)
<1>1. /\ rgTodo = << >> /\ rgCbs # << >> /\ d \notin names /\ names \subseteq RgDev
      /\ rgDevs' = rgDevs \cup {d} \cup names /\ rgLinked' = RgRelinked(d, names) /\ rgTodo' = <<x>>
      /\ UNCHANGED <<rgSigs, rgLinks, rgMaps, rgOnLink, rgSlots, rgMarked, rgFree, rgCbs, rgTold, rgMine>>
  BY RgAssumption DEF RgReceiveDevice, RgIdle, RgDo, rgProgram
<1>2. x \in Brings /\ x.do # "addmap"
  <2>1. d \in Objects /\ e \in {"new", "modified"}
    BY DEF Objects
  <2> HIDE DEF e
  <2> QED BY <2>1, CallIs
<1> HIDE DEF x
<1>3. rgTodo' \in Seq(Tasks) /\ Adding(rgTodo') /\ Wanted'
  BY <1>1, <1>2, BeginsOne
<1>4. /\ \A s \in rgSigs : RgOwner[s] \in rgDevs
      /\ \A y \in RgDev \ rgDevs : Range(rgLinked[y]) = {}
      /\ \A y \in rgDevs : Range(rgLinked[y]) \subseteq rgDevs
  BY <1>1, IdleIs
<1>5. rgLinked \in Linkings /\ rgDevs \subseteq RgDev
  BY DEF Inv, Types
<1>6. /\ rgLinked' \in Linkings
      /\ \A y \in RgDev : Range(rgLinked'[y]) \subseteq
              Range(rgLinked[y]) \cup (IF y = d THEN names ELSE IF y \in names THEN {d} ELSE {})
  BY <1>1, <1>5, RgRelinkedIs
<1>7. RgListed' = RgListed /\ \A m : RgSigsOf(m)' = RgSigsOf(m)
  BY <1>1 DEF RgListed, RgSigsOf
<1>8. Types'
  BY <1>1, <1>3, <1>5, <1>6, <1>7 DEF Inv, Types
<1>9. ASSUME NEW y \in rgDevs' PROVE Range(rgLinked'[y]) \subseteq rgDevs'
  <2>1. y \in RgDev /\ Range(rgLinked[y]) \subseteq rgDevs
    BY <1>1, <1>4, <1>5, <1>9
  <2> QED BY <2>1, <1>1, <1>6
<1>10. ASSUME NEW y \in RgDev \ rgDevs' PROVE Range(rgLinked'[y]) = {}
  BY <1>1, <1>4, <1>6, <1>10
<1>11. Sound'
  BY <1>1, <1>4, <1>7, <1>9 DEF Inv, Sound
<1> QED BY <1>1, <1>3, <1>4, <1>8, <1>10, <1>11, WhileAdding

LEMMA ReceiveSignalSafe ==
  ASSUME Inv, NEW s \in RgSig, RgReceiveSignal(s)
  PROVE  Inv'
<1> DEFINE x == RgThing("addsig", s, "changed")
<1>1. /\ rgTodo = << >> /\ rgCbs # << >> /\ rgTodo' = <<x>>
      /\ UNCHANGED <<rgDevs, rgSigs, rgLinks, rgMaps, rgLinked, rgOnLink, rgSlots, rgMarked, rgFree,
                     rgCbs, rgTold, rgMine>>
  BY DEF RgReceiveSignal, RgIdle, RgDo, rgProgram, rgLists
<1>2. x \in Adds /\ x.do # "addmap"
  BY ThingIs DEF Adds, Kind
<1> HIDE DEF x
<1>3. rgTodo' \in Seq(Tasks) /\ Adding(rgTodo') /\ Wanted'
  BY <1>1, <1>2, BeginsOne
<1>4. /\ \A y \in rgSigs : RgOwner[y] \in rgDevs
      /\ \A y \in RgDev \ rgDevs : Range(rgLinked[y]) = {}
  BY <1>1, IdleIs
<1>5. Types'
  BY <1>1, <1>3 DEF Inv, Types, RgListed
<1>6. Sound'
  BY <1>1 DEF Inv, Sound, RgListed, RgSigsOf
<1> QED BY <1>1, <1>3, <1>4, <1>5, <1>6, WhileAdding

LEMMA TwoJoined ==
  ASSUME NEW x, NEW y
  PROVE  <<x>> \o <<y>> = <<x, y>>
<1> DEFINE T == {x, y}
           a == <<x>>
           b == <<y>>
           c == <<x, y>>
<1>1. a \in Seq(T) /\ b \in Seq(T) /\ c \in Seq(T) /\ a \o b \in Seq(T)
  OBVIOUS
<1>2. Len(a) = 1 /\ Len(b) = 1 /\ Len(c) = 2 /\ a[1] = x /\ b[1] = y /\ c[1] = x /\ c[2] = y
  OBVIOUS
<1> HIDE DEF a, b, c, T
<1>3. Len(a \o b) = 2 /\ (a \o b)[1] = x /\ (a \o b)[2] = y
  <2>1. Len(a \o b) = 1 + 1
    BY <1>1, <1>2
  <2>2. 1 \in DOMAIN a /\ 1 \in DOMAIN b
    BY <1>1, <1>2
  <2>3. (a \o b)[1] = a[1] /\ (a \o b)[Len(a) + 1] = b[1]
    BY <1>1, <2>2, ConcatIs
  <2>4. Len(a) + 1 = 2
    BY <1>2
  <2> QED BY <2>1, <2>3, <2>4, <1>2
<1>4. \A i \in 1..2 : (a \o b)[i] = c[i]
  <2>1. \A i \in 1..2 : i = 1 \/ i = 2
    OBVIOUS
  <2> QED BY <2>1, <1>2, <1>3
<1>5. a \o b = c
  BY <1>1, <1>2, <1>3, <1>4, SeqEqual
<1> QED BY <1>5 DEF a, b, c

LEMMA AddCbSafe ==
  ASSUME Inv, RgAddCb
  PROVE  Inv'
<1>1. /\ rgTodo = << >> /\ rgCbs # << >> /\ rgTodo' = << >> /\ rgCbs' = <<"other">> \o rgCbs
      /\ ~Contains(rgCbs, "other")
      /\ UNCHANGED <<rgDevs, rgSigs, rgLinks, rgMaps, rgLinked, rgOnLink, rgSlots, rgMarked, rgFree,
                     rgTold, rgMine>>
  BY DEF RgAddCb, RgIdle, RgDo, rgLists
<1>2. rgCbs' = <<"other", "first">>
  <2>1. rgCbs \in Walks
    BY DEF Inv, Types
  <2>2. rgCbs = <<"first">> \/ rgCbs = <<"other", "first">>
    BY <1>1, <2>1 DEF Walks
  <2>3. Contains(<<"other", "first">>, "other")
    BY DEF Contains
  <2>4. rgCbs = <<"first">>
    BY <1>1, <2>2, <2>3
  <2>5. <<"other">> \o <<"first">> = <<"other", "first">>
    BY TwoJoined, Zenon
  <2> QED BY <1>1, <2>4, <2>5
<1>3. rgTodo' \in Seq(Tasks) /\ Adding(rgTodo') /\ Wanted'
  BY <1>1, BeginsOne
<1>4. /\ \A y \in rgSigs : RgOwner[y] \in rgDevs
      /\ \A y \in RgDev \ rgDevs : Range(rgLinked[y]) = {}
  BY <1>1, IdleIs
<1>5. Types' /\ rgCbs' # << >>
  <2>1. rgCbs' \in Walks /\ rgCbs' # << >>
    BY <1>2 DEF Walks
  <2> QED BY <2>1, <1>1, <1>3 DEF Inv, Types, RgListed
<1>6. Sound'
  BY <1>1 DEF Inv, Sound, RgListed, RgSigsOf
<1> QED BY <1>1, <1>3, <1>4, <1>5, <1>6, WhileAdding

LEMMA ActivateSafe ==
  ASSUME Inv, NEW m \in RgMap, RgActivate(m)
  PROVE  Inv'
<1> DEFINE x == RgCall(m, "new")
<1>1. /\ rgTodo = << >> /\ rgCbs # << >> /\ rgTodo' = <<x>> /\ m \in RgListed \ rgMarked
      /\ rgMaps' = [rgMaps EXCEPT ![m].is = "active"]
      /\ UNCHANGED <<rgDevs, rgSigs, rgLinks, rgLinked, rgOnLink, rgSlots, rgMarked, rgFree,
                     rgCbs, rgTold, rgMine>>
  BY DEF RgActivate, RgIdle, RgDo, rgProgram
<1>2. x \in Brings /\ x.do # "addmap"
  BY CallIs DEF Objects
<1> HIDE DEF x
<1>3. rgTodo' \in Seq(Tasks) /\ Adding(rgTodo') /\ Wanted'
  BY <1>1, <1>2, BeginsOne
<1>4. /\ \A y \in rgSigs : RgOwner[y] \in rgDevs
      /\ \A y \in RgDev \ rgDevs : Range(rgLinked[y]) = {}
  BY <1>1, IdleIs
<1>5. RgListed' = RgListed
  BY <1>1 DEF RgListed
<1>6. ASSUME NEW y \in RgListed
      PROVE  /\ rgMaps'[y] \in [src : SUBSET RgMapSrc[y], is : {"staged", "ready", "active"}]
             /\ rgMaps'[y].src = rgMaps[y].src
             /\ IF RgIsLocal(y) THEN rgMaps'[y].src = RgMapSrc[y] ELSE rgMaps'[y].is = "active"
  <2>1. /\ rgMaps[y] \in [src : SUBSET RgMapSrc[y], is : {"staged", "ready", "active"}]
        /\ IF RgIsLocal(y) THEN rgMaps[y].src = RgMapSrc[y] ELSE rgMaps[y].is = "active"
        /\ y \in DOMAIN rgMaps
    BY DEF Inv, Types, RgListed
  <2>2. rgMaps'[y] = IF y = m THEN [rgMaps[y] EXCEPT !.is = "active"] ELSE rgMaps[y]
    BY <1>1, <2>1
  <2> QED BY <2>1, <2>2
<1>7. Types'
  BY <1>1, <1>3, <1>5, <1>6 DEF Inv, Types
<1>8. Sound'
  BY <1>1, <1>5, <1>6 DEF Inv, Sound, RgSigsOf
<1> QED BY <1>1, <1>3, <1>4, <1>7, <1>8, WhileAdding

LEMMA ReadySafe ==
  ASSUME Inv, NEW m \in RgMap, RgReady(m)
  PROVE  Inv'
<1> DEFINE peers == {RgOwner[s] : s \in RgSigsOf(m)} \ {RgLocal}
           d == CHOOSE d \in peers : TRUE
<1>1. /\ rgTodo = << >> /\ rgCbs # << >> /\ rgTodo' = << >> /\ m \in RgListed \ rgMarked /\ RgIsLocal(m)
      /\ rgMaps' = [rgMaps EXCEPT ![m].is = "ready"] /\ RgLocal \in rgDevs
      /\ rgSlots' = [s \in DOMAIN rgSlots |->
                       IF s \in RgSigsOf(m) THEN rgSlots[s] \cup {m} ELSE rgSlots[s]]
      /\ rgLinked' = RgWithLinked(rgLinked, RgLocal, d)
      /\ UNCHANGED <<rgDevs, rgSigs, rgLinks, rgOnLink, rgMarked, rgFree, rgCbs, rgTold, rgMine>>
  BY DEF RgReady, RgIdle, RgDo, rgProgram, RgLives
<1>2. rgTodo' \in Seq(Tasks) /\ Adding(rgTodo') /\ Wanted'
  BY <1>1, BeginsOne
<1>3. /\ \A y \in rgSigs : RgOwner[y] \in rgDevs
      /\ \A y \in RgDev \ rgDevs : Range(rgLinked[y]) = {}
      /\ \A y \in rgDevs : Range(rgLinked[y]) \subseteq rgDevs
  BY <1>1, IdleIs
<1>4. RgSigsOf(m) = RgEnds(m) /\ RgSigsOf(m) \subseteq rgSigs
  BY <1>1 DEF Inv, Types, Sound, RgSigsOf, RgEnds
<1>5. d \in rgDevs
  <2>1. PICK s \in RgEnds(m) : RgOwner[s] # RgLocal
    BY RgAssumption
  <2>2. RgOwner[s] \in peers
    BY <2>1, <1>4
  <2>3. d \in peers
    BY <2>2
  <2> QED BY <2>3, <1>3, <1>4
<1> HIDE DEF d
<1>6. rgLinked \in Linkings /\ rgDevs \subseteq RgDev /\ RgLocal \in RgDev /\ d \in RgDev
  BY <1>5, RgAssumption DEF Inv, Types
<1>7. /\ rgLinked' \in Linkings
      /\ \A x \in RgDev : Range(rgLinked'[x]) \subseteq
              Range(rgLinked[x]) \cup (IF x = RgLocal \/ x = d THEN {RgLocal, d} ELSE {})
  BY <1>1, <1>6, RgWithLinkedIs
<1>8. RgListed' = RgListed
  BY <1>1 DEF RgListed
<1>9. ASSUME NEW y \in RgListed
      PROVE  /\ rgMaps'[y] \in [src : SUBSET RgMapSrc[y], is : {"staged", "ready", "active"}]
             /\ rgMaps'[y].src = rgMaps[y].src
             /\ IF RgIsLocal(y) THEN rgMaps'[y].src = RgMapSrc[y] ELSE rgMaps'[y].is = "active"
  <2>1. /\ rgMaps[y] \in [src : SUBSET RgMapSrc[y], is : {"staged", "ready", "active"}]
        /\ IF RgIsLocal(y) THEN rgMaps[y].src = RgMapSrc[y] ELSE rgMaps[y].is = "active"
        /\ y \in DOMAIN rgMaps
    BY DEF Inv, Types, RgListed
  <2>2. rgMaps'[y] = IF y = m THEN [rgMaps[y] EXCEPT !.is = "ready"] ELSE rgMaps[y]
    BY <1>1, <2>1
  <2> QED BY <2>1, <2>2, <1>1
<1>10. rgSlots' \in [Locals -> SUBSET RgMap] /\ \A s \in Locals : rgSlots'[s] \subseteq rgSlots[s] \cup {m}
  BY <1>1 DEF Inv, Types
<1>11. Types'
  BY <1>1, <1>2, <1>7, <1>8, <1>9, <1>10 DEF Inv, Types
<1>12. ASSUME NEW y \in rgDevs PROVE Range(rgLinked'[y]) \subseteq rgDevs
  <2>1. y \in RgDev /\ Range(rgLinked[y]) \subseteq rgDevs
    BY <1>3, <1>6
  <2> QED BY <2>1, <1>1, <1>5, <1>7
<1>13. ASSUME NEW y \in RgDev \ rgDevs PROVE Range(rgLinked'[y]) = {}
  BY <1>1, <1>3, <1>5, <1>7
<1>14. Sound'
  BY <1>1, <1>8, <1>9, <1>10, <1>12 DEF Inv, Sound, RgSigsOf
<1> QED BY <1>1, <1>2, <1>3, <1>11, <1>13, <1>14, WhileAdding

(* What /mapped or /map leads to: the signals are added before the map. *)
Wishing(m, S) ==
  <<RgThing("addsig", RgMapDst[m], "known")>> \o RgEach("addsig", S, "known")
    \o <<RgThing("addmap", [map |-> m, src |-> S], "new")>>
Fulfils(q, m, S) ==
  /\ q \in Seq(Tasks) /\ Adding(q) /\ Single(q, Kind({"addmap"}))
  /\ \A t \in Range(q) : t.do = "addmap" =>
       /\ t.o.map = m /\ t.o.src = S
       /\ \A s \in S \cup {RgMapDst[m]} : Preceded(q, {t}, On({"addsig"}, s))
LEMMA WishIs ==
  ASSUME NEW m \in RgMap, NEW S, S \subseteq RgMapSrc[m]
  PROVE  Fulfils(Wishing(m, S), m, S)
<1> DEFINE q == Wishing(m, S)
           x == RgThing("addsig", RgMapDst[m], "known")
           a == <<x>>
           b == RgEach("addsig", S, "known")
           w == [map |-> m, src |-> S]
           y == RgThing("addmap", w, "new")
           c == <<y>>
<1>1. x \in Tasks /\ x.do = "addsig" /\ x.o = RgMapDst[m] /\ RgMapDst[m] \in RgSig
  BY RgAssumption, ThingIs
<1>2. S \subseteq RgSig
  BY RgAssumption
<1>3. y \in Tasks /\ y.do = "addmap" /\ y.o = w
  <2>1. w \in Wishes /\ w.src \subseteq RgMapSrc[w.map]
    BY <1>2 DEF Wishes
  <2> HIDE DEF w
  <2> QED BY <2>1, ThingIs
<1>4. \A s \in S : RgThing("addsig", s, "known") \in Tasks /\ RgThing("addsig", s, "known").do = "addsig"
                   /\ RgThing("addsig", s, "known").o = s
  BY <1>2, ThingIs
<1>5. /\ b \in Seq(Tasks)
      /\ \A K : Some(b, K) <=> \E s \in S : RgThing("addsig", s, "known") \in K
  <2>1. IsFiniteSet(S) /\ \A s \in S : RgThing("addsig", s, "known") \in Tasks
    BY <1>2, <1>4, FiniteSets, FS_Subset
  <2> QED BY <2>1, RgEachIs
<1>6. q = (a \o b) \o c
  <2>1. a \in Seq(Tasks) /\ b \in Seq(Tasks) /\ c \in Seq(Tasks)
    BY <1>1, <1>3, <1>5
  <2> QED BY <2>1 DEF Wishing
<1> HIDE DEF q, x, b, w, y
<1>7. /\ \A K : Some(a, K) <=> x \in K
      /\ \A K : Some(c, K) <=> y \in K
      /\ \A K : Single(c, K)
      /\ a \in Seq(Tasks) /\ c \in Seq(Tasks)
  BY <1>1, <1>3, OneThing
<1> HIDE DEF a, c
<1>8. /\ a \o b \in Seq(Tasks)
      /\ \A K : Some(a \o b, K) <=> x \in K \/ \E s \in S : RgThing("addsig", s, "known") \in K
  BY <1>5, <1>7, Joined
<1>9. /\ q \in Seq(Tasks)
      /\ \A K : Some(q, K) <=> Some(a \o b, K) \/ y \in K
      /\ \A K, L : ~Some(a \o b, K) /\ Some(a \o b, L) => Preceded(q, K, L)
      /\ \A K : ~Some(a \o b, K) => Single(q, K)
  <2> DEFINE d == a \o b
  <2>1. d \in Seq(Tasks) /\ q = d \o c
    BY <1>6, <1>8
  <2> HIDE DEF d
  <2>2. /\ d \o c \in Seq(Tasks)
        /\ \A K : Some(d \o c, K) <=> Some(d, K) \/ Some(c, K)
        /\ \A K, L : ~Some(d, K) /\ (Some(d, L) \/ Preceded(c, K, L)) => Preceded(d \o c, K, L)
        /\ \A K : Single(d, K) /\ Single(c, K) /\ (~Some(d, K) \/ ~Some(c, K)) => Single(d \o c, K)
    BY <1>7, <2>1, Joined
  <2>3. \A K : ~Some(d, K) => Single(d, K)
    BY WithoutSome
  <2>4. /\ q \in Seq(Tasks)
        /\ \A K : Some(q, K) <=> Some(d, K) \/ y \in K
        /\ \A K, L : ~Some(d, K) /\ Some(d, L) => Preceded(q, K, L)
        /\ \A K : ~Some(d, K) => Single(q, K)
    <3>1. q \in Seq(Tasks) /\ \A K : Some(q, K) <=> Some(d, K) \/ y \in K
      BY <1>7, <2>1, <2>2
    <3>2. \A K, L : ~Some(d, K) /\ Some(d, L) => Preceded(q, K, L)
      BY <2>1, <2>2
    <3>3. ASSUME NEW K, ~Some(d, K) PROVE Single(q, K)
      <4>1. Single(d, K) /\ Single(c, K)
        BY <1>7, <2>3, <3>3
      <4>2. Single(d \o c, K)
        BY <2>2, <3>3, <4>1
      <4> QED BY <4>2, <2>1
    <3> QED BY <3>1, <3>2, <3>3
  <2> QED BY <2>4 DEF d
<1>10. ~Some(a \o b, Kind({"addmap"}))
  <2>1. x \notin Kind({"addmap"}) /\ \A s \in S : RgThing("addsig", s, "known") \notin Kind({"addmap"})
    BY <1>1, <1>4 DEF Kind
  <2> QED BY <2>1, <1>8
<1>11. Single(q, Kind({"addmap"}))
  BY <1>9, <1>10
<1>12. Adding(q)
  <2>1. q = a \o (b \o c)
    <3>1. a \in Seq(Tasks) /\ b \in Seq(Tasks) /\ c \in Seq(Tasks)
      BY <1>5, <1>7
    <3>2. (a \o b) \o c = a \o (b \o c)
      BY <3>1, ConcatAssociative
    <3> QED BY <3>2, <1>6
  <2>2. Head(q) = x /\ Tail(q) = b \o c
    <3> DEFINE d == b \o c
    <3>1. a = <<x>> /\ d \in Seq(Tasks)
      BY <1>5, <1>7 DEF a
    <3> HIDE DEF d
    <3>2. Head(<<x>> \o d) = x /\ Tail(<<x>> \o d) = d
      BY <3>1
    <3>3. q = <<x>> \o d
      BY <2>1, <3>1 DEF d
    <3> QED BY <3>2, <3>3 DEF d
  <2>3. ~Some(b \o c, Tasks \ Adds)
    <3>1. \A K : Some(b \o c, K) <=> Some(b, K) \/ Some(c, K)
      BY <1>5, <1>7, Joined
    <3>2. y \notin Tasks \ Adds /\ \A s \in S : RgThing("addsig", s, "known") \notin Tasks \ Adds
      BY <1>3, <1>4 DEF Adds, Kind
    <3> QED BY <3>1, <3>2, <1>5, <1>7
  <2> QED BY <2>2, <2>3, <1>1 DEF Adding, Adds, Kind
<1>13. ASSUME NEW t \in Range(q), t.do = "addmap"
       PROVE  /\ t.o.map = m /\ t.o.src = S
              /\ \A s \in S \cup {RgMapDst[m]} : Preceded(q, {t}, On({"addsig"}, s))
  <2>1. Some(q, {t})
    BY SomeRange
  <2>2. ~Some(a \o b, {t})
    BY <1>1, <1>4, <1>8, <1>13
  <2>3. t = y
    BY <2>1, <2>2, <1>9
  <2>4. ASSUME NEW s \in S \cup {RgMapDst[m]} PROVE Some(a \o b, On({"addsig"}, s))
    BY <1>1, <1>4, <1>8 DEF On
  <2>5. t.o = w
    BY <2>3, <1>3
  <2> QED BY <2>2, <2>4, <2>5, <1>9 DEF w
<1> QED BY <1>9, <1>11, <1>12, <1>13 DEF q, Fulfils

LEMMA ReceiveMapSafe ==
  ASSUME Inv, NEW m \in RgMap, NEW S \in SUBSET RgMapSrc[m], RgReceiveMap(m, S)
  PROVE  Inv'
<1> DEFINE q == Wishing(m, S)
<1>1. /\ rgTodo = << >> /\ rgCbs # << >> /\ rgTodo' = q
      /\ RgIsLocal(m) => S = RgMapSrc[m] /\ m \notin RgListed
      /\ UNCHANGED <<rgDevs, rgSigs, rgLinks, rgMaps, rgLinked, rgOnLink, rgSlots, rgMarked, rgFree,
                     rgCbs, rgTold, rgMine>>
  BY DEF RgReceiveMap, RgIdle, RgDo, rgProgram, rgLists, Wishing
<1>2. /\ q \in Seq(Tasks) /\ Adding(q) /\ Single(q, Kind({"addmap"}))
      /\ \A t \in Range(q) : t.do = "addmap" =>
            /\ t.o.map = m /\ t.o.src = S
            /\ \A s \in S \cup {RgMapDst[m]} : Preceded(q, {t}, On({"addsig"}, s))
  <2>1. S \subseteq RgMapSrc[m]
    OBVIOUS
  <2>2. Fulfils(q, m, S)
    BY <2>1, WishIs
  <2> HIDE DEF q
  <2> QED BY <2>2 DEF Fulfils
<1> HIDE DEF q
<1>3. Wanted'
  BY <1>1, <1>2 DEF Wanted, RgListed
<1>4. /\ \A y \in rgSigs : RgOwner[y] \in rgDevs
      /\ \A y \in RgDev \ rgDevs : Range(rgLinked[y]) = {}
  BY <1>1, IdleIs
<1>5. Types'
  BY <1>1, <1>2 DEF Inv, Types, RgListed
<1>6. Sound'
  BY <1>1 DEF Inv, Sound, RgListed, RgSigsOf
<1> QED BY <1>1, <1>2, <1>3, <1>4, <1>5, <1>6, WhileAdding

-----------------------------------------------------------------------------
(* What is begun between two messages and removes records. *)
LEMMA EndsOne ==
  ASSUME NEW what \in {"map", "sig", "dev", "link"}, NEW o, NEW e \in {"removed", "expired"},
         what = "map" => o \in RgMap, what = "sig" => o \in RgSig, what = "dev" => o \in RgDev,
         what = "link" => o \in Bonds
  PROVE  RgThing(what, o, e) \in Ends /\ RgThing(what, o, e).do = what /\ RgThing(what, o, e).o = o
<1>1. RgThing(what, o, e) \in Tasks
  BY ThingIs DEF Events
<1> QED BY <1>1, ThingIs DEF Ends

(* A removal of one thing. *)
LEMMA OneRemoval ==
  ASSUME Inv, rgTodo = << >>, rgCbs # << >>, UNCHANGED rgLists, UNCHANGED rgProgram,
         NEW x \in Ends, x.do \in {"map", "sig", "link", "dev"},
         x.do = "dev" => x.o # RgLocal, rgTodo' = <<x>>
  PROVE  Inv'
<1>1. x \in Tasks
  BY DEF Ends
<1>2. <<x>> \in Seq(Tasks) /\ \A K : Some(<<x>>, K) <=> x \in K
  BY <1>1, OneThing
<1>3. Removing(<<x>>)
  BY <1>2 DEF Removing
<1>4. ~Some(<<x>>, Kind({"unlist"}))
  BY <1>2 DEF Kind
<1>5. ASSUME NEW s \in rgSigs \cap rgMarked', Some(<<x>>, Leaving(RgOwner[s])) PROVE FALSE
  <2>1. RgOwner[s] = RgLocal
    <3>1. rgMarked' \subseteq {RgLocal} \cup Locals \cup LocalMaps /\ rgSigs \subseteq RgSig
      BY DEF Inv, Types, rgLists
    <3> QED BY <3>1, <1>5, RgAssumption DEF Locals, LocalMaps
  <2>2. x \in Leaving(RgOwner[s])
    BY <1>2, <1>5
  <2> QED BY <2>1, <2>2 DEF Leaving, On
<1>6. Types'
  BY <1>2, TypesKept DEF Inv
<1>7. Freeing'
  BY DEF Freeing, rgProgram
<1>8. UNCHANGED <<rgDevs, rgSigs, rgLinks, rgMaps, rgLinked, rgOnLink, rgSlots, rgFree, rgMarked>>
  BY DEF rgLists
<1> QED BY <1>2, <1>3, <1>4, <1>5, <1>6, <1>7, <1>8, RemovalBegins

LEMMA ReceiveUnmappedSafe ==
  ASSUME Inv, NEW m \in RgMap, RgReceiveUnmapped(m)
  PROVE  Inv'
<1> DEFINE x == RgThing("map", m, "removed")
<1>1. /\ rgTodo = << >> /\ rgCbs # << >> /\ rgTodo' = <<x>> /\ UNCHANGED rgLists /\ UNCHANGED rgProgram
  BY DEF RgReceiveUnmapped, RgIdle, RgDo
<1>2. x \in Ends /\ x.do = "map" /\ x.o = m
  BY EndsOne
<1> HIDE DEF x
<1> QED BY <1>1, <1>2, OneRemoval

LEMMA ReceiveSignalRemovedSafe ==
  ASSUME Inv, NEW s \in RgSig, RgReceiveSignalRemoved(s)
  PROVE  Inv'
<1> DEFINE x == RgThing("sig", s, "removed")
<1>1. /\ rgTodo = << >> /\ rgCbs # << >> /\ rgTodo' = <<x>> /\ UNCHANGED rgLists /\ UNCHANGED rgProgram
  BY DEF RgReceiveSignalRemoved, RgIdle, RgDo
<1>2. x \in Ends /\ x.do = "sig" /\ x.o = s
  BY EndsOne
<1> HIDE DEF x
<1> QED BY <1>1, <1>2, OneRemoval

LEMMA ReceiveLogoutSafe ==
  ASSUME Inv, NEW d \in RgDev, RgReceiveLogout(d)
  PROVE  Inv'
<1> DEFINE x == RgThing("dev", d, "removed")
<1>1. /\ rgTodo = << >> /\ rgCbs # << >> /\ rgTodo' = <<x>> /\ UNCHANGED rgLists /\ UNCHANGED rgProgram
      /\ d # RgLocal
  BY DEF RgReceiveLogout, RgIdle, RgDo, RgRemote
<1>2. x \in Ends /\ x.do = "dev" /\ x.o = d
  BY EndsOne
<1> HIDE DEF x
<1> QED BY <1>1, <1>2, OneRemoval

LEMMA LoseLinkSafe ==
  ASSUME Inv, NEW k \in rgLinks, RgLoseLink(k)
  PROVE  Inv'
<1> DEFINE x == RgThing("link", k, "expired")
<1>1. /\ rgTodo = << >> /\ rgCbs # << >> /\ rgTodo' = <<x>> /\ UNCHANGED rgLists /\ UNCHANGED rgProgram
  BY DEF RgLoseLink, RgIdle, RgDo
<1>2. x \in Ends /\ x.do = "link" /\ x.o = k
  BY EndsOne DEF Inv, Types
<1> HIDE DEF x
<1> QED BY <1>1, <1>2, OneRemoval

(* The program marks what it removes. *)
LEMMA UnmapSafe ==
  ASSUME Inv, NEW m \in RgMap, NEW mine \in BOOLEAN, RgUnmap(m, mine)
  PROVE  Inv'
<1>1. /\ rgTodo = << >> /\ rgCbs # << >> /\ rgTodo' = << >> /\ m \in RgListed \ rgMarked /\ RgIsLocal(m)
      /\ rgMaps' = (IF mine THEN [rgMaps EXCEPT ![m].is = "ready"] ELSE rgMaps)
      /\ rgMarked' = rgMarked \cup {m} /\ rgMine' = (IF mine THEN rgMine \cup {m} ELSE rgMine)
      /\ UNCHANGED <<rgDevs, rgSigs, rgLinks, rgLinked, rgOnLink, rgSlots, rgFree, rgCbs, rgTold>>
  BY DEF RgUnmap, RgIdle, RgDo
<1>2. rgTodo' \in Seq(Tasks) /\ Adding(rgTodo') /\ Wanted'
  BY <1>1, BeginsOne
<1>3. /\ \A y \in rgSigs : RgOwner[y] \in rgDevs
      /\ \A y \in RgDev \ rgDevs : Range(rgLinked[y]) = {}
  BY <1>1, IdleIs
<1>4. RgListed' = RgListed
  BY <1>1 DEF RgListed
<1>5. ASSUME NEW y \in RgListed
      PROVE  /\ rgMaps'[y] \in [src : SUBSET RgMapSrc[y], is : {"staged", "ready", "active"}]
             /\ rgMaps'[y].src = rgMaps[y].src
             /\ IF RgIsLocal(y) THEN rgMaps'[y].src = RgMapSrc[y] ELSE rgMaps'[y].is = "active"
  <2>1. /\ rgMaps[y] \in [src : SUBSET RgMapSrc[y], is : {"staged", "ready", "active"}]
        /\ IF RgIsLocal(y) THEN rgMaps[y].src = RgMapSrc[y] ELSE rgMaps[y].is = "active"
        /\ y \in DOMAIN rgMaps
    BY DEF Inv, Types, RgListed
  <2>2. rgMaps'[y] = IF mine /\ y = m THEN [rgMaps[y] EXCEPT !.is = "ready"] ELSE rgMaps[y]
    BY <1>1, <2>1
  <2> QED BY <2>1, <2>2, <1>1
<1>6. Types'
  BY <1>1, <1>2, <1>4, <1>5 DEF Inv, Types, LocalMaps
<1>7. Sound'
  BY <1>1, <1>4, <1>5 DEF Inv, Sound, RgSigsOf
<1> QED BY <1>1, <1>2, <1>3, <1>6, <1>7, WhileAdding

LEMMA FreeSigSafe ==
  ASSUME Inv, NEW s \in RgSig, RgFreeSig(s)
  PROVE  Inv'
<1>1. /\ rgTodo = << >> /\ rgCbs # << >> /\ rgTodo' = << >> /\ RgOwner[s] = RgLocal
      /\ rgMarked' = rgMarked \cup {s}
      /\ UNCHANGED <<rgDevs, rgSigs, rgLinks, rgMaps, rgLinked, rgOnLink, rgSlots, rgFree, rgCbs, rgTold, rgMine>>
  BY DEF RgFreeSig, RgIdle, RgDo, rgProgram
<1>2. rgTodo' \in Seq(Tasks) /\ Adding(rgTodo') /\ Wanted'
  BY <1>1, BeginsOne
<1>3. /\ \A y \in rgSigs : RgOwner[y] \in rgDevs
      /\ \A y \in RgDev \ rgDevs : Range(rgLinked[y]) = {}
  BY <1>1, IdleIs
<1>4. Types'
  BY <1>1, <1>2 DEF Inv, Types, RgListed, Locals
<1>5. Sound'
  BY <1>1 DEF Inv, Sound, RgSigsOf, RgListed
<1> QED BY <1>1, <1>2, <1>3, <1>4, <1>5, WhileAdding

LEMMA FreeDevSafe ==
  ASSUME Inv, RgFreeDev
  PROVE  Inv'
<1> DEFINE q == RgEach("link", RgLinksOf(RgLocal), "removed")
<1>1. /\ rgTodo = << >> /\ rgCbs # << >> /\ rgTodo' = q
      /\ rgMarked' = rgMarked \cup {RgLocal} \cup RgSigsOfDev(RgLocal)
      /\ UNCHANGED <<rgDevs, rgSigs, rgLinks, rgMaps, rgLinked, rgOnLink, rgSlots, rgFree, rgCbs, rgTold, rgMine>>
  BY DEF RgFreeDev, RgIdle, RgDo, rgProgram
<1>2. RgLinksOf(RgLocal) \subseteq Bonds
  BY DEF Inv, Types, RgLinksOf
<1>3. /\ q \in Seq(Tasks)
      /\ \A K : Some(q, K) <=> \E l \in RgLinksOf(RgLocal) : RgThing("link", l, "removed") \in K
  BY <1>2, EachLink DEF Events
<1>4. \A l \in RgLinksOf(RgLocal) : /\ RgThing("link", l, "removed") \in Ends
                                    /\ RgThing("link", l, "removed").do = "link"
  BY <1>2, EndsOne
<1> HIDE DEF q
<1>5. Removing(q)
  BY <1>3, <1>4 DEF Removing
<1>6. ~Some(q, Kind({"unlist"})) /\ \A d : ~Some(q, Leaving(d))
  BY <1>3, <1>4 DEF Kind, Leaving, On
<1>7. RgSigsOfDev(RgLocal) \subseteq Locals
  BY DEF Inv, Types, RgSigsOfDev, Locals
<1>8. Types'
  BY <1>1, <1>3, <1>7 DEF Inv, Types, RgListed
<1>9. Freeing'
  BY <1>1 DEF Freeing
<1>10. rgMarked \subseteq rgMarked'
  BY <1>1
<1> QED BY <1>1, <1>3, <1>5, <1>6, <1>8, <1>9, <1>10, RemovalBegins

LEMMA HousekeepingSafe ==
  ASSUME Inv, NEW silent \in SUBSET RgRemote, RgHousekeeping(silent)
  PROVE  Inv'
<1> DEFINE a == RgEach("dev", silent, "expired")
           x == RgThing("dev", RgLocal, "removed")
           b == IF RgLocal \in rgMarked THEN <<x>> ELSE << >>
           y == RgThing("sweep", RgLocal, "removed")
           q == (a \o b) \o <<y>>
<1>1. silent \in SUBSET RgDev /\ RgLocal \in RgDev
  BY RgAssumption DEF RgRemote
<1>2. a \in Seq(Tasks) /\ \A K : Some(a, K) <=> \E d \in silent : RgThing("dev", d, "expired") \in K
  BY <1>1, EachDev DEF Events
<1>3. \A d \in silent : RgThing("dev", d, "expired") \in Ends /\ RgThing("dev", d, "expired").do = "dev"
  BY <1>1, EndsOne
<1>4. x \in Ends /\ x.do = "dev" /\ x \in Tasks
  BY <1>1, EndsOne DEF Ends
<1>5. y \in Tasks /\ y.do = "sweep" /\ y \in Ends
  <2>1. y \in Tasks /\ y.do = "sweep" /\ y.e = "removed"
    BY <1>1, ThingIs DEF Events
  <2> QED BY <2>1 DEF Ends
<1> HIDE DEF a, x, y
<1>6. b \in Seq(Tasks) /\ \A K : Some(b, K) => x \in K
  BY <1>4, OneThing, Nothing
<1> HIDE DEF b
<1>7. <<y>> \in Seq(Tasks) /\ \A K : Some(<<y>>, K) <=> y \in K
  BY <1>5, OneThing
<1>8. /\ a \o b \in Seq(Tasks)
      /\ \A K : Some(a \o b, K) <=> Some(a, K) \/ Some(b, K)
  BY <1>2, <1>6, Joined
<1>9. /\ q \in Seq(Tasks)
      /\ \A K : Some(q, K) <=> Some(a \o b, K) \/ Some(<<y>>, K)
  BY <1>7, <1>8, Joined
<1>10. /\ rgTodo = << >> /\ rgCbs # << >> /\ UNCHANGED rgLists /\ UNCHANGED rgProgram
       /\ rgTodo' = q
  <2>1. /\ rgTodo = << >> /\ rgCbs # << >> /\ UNCHANGED rgLists /\ UNCHANGED rgProgram
        /\ rgTodo' = a \o b \o <<y>>
    BY DEF RgHousekeeping, RgIdle, RgDo, a, b, x, y
  <2> QED BY <2>1
<1> HIDE DEF q
<1>11. ASSUME NEW K, Some(q, K) PROVE \E z \in K \cap Ends : z.do \in {"dev", "sweep"}
  <2>1. Some(a, K) \/ Some(b, K) \/ Some(<<y>>, K)
    BY <1>8, <1>9, <1>11
  <2>2. CASE Some(a, K)
    BY <2>2, <1>2, <1>3
  <2>3. CASE Some(b, K)
    BY <2>3, <1>4, <1>6
  <2>4. CASE Some(<<y>>, K)
    BY <2>4, <1>5, <1>7
  <2> QED BY <2>1, <2>2, <2>3, <2>4
<1>12. Removing(q) /\ ~Some(q, Kind({"unlist"}))
  BY <1>11 DEF Removing, Kind
<1>13. \A s : Some(q, Sweeps \cup Dooms(s))
  BY <1>5, <1>7, <1>9 DEF Sweeps, Kind
<1>14. Types'
  BY <1>9, <1>10, TypesKept DEF Inv
<1>15. Freeing'
  BY <1>10 DEF Freeing, rgProgram
<1>16. UNCHANGED <<rgDevs, rgSigs, rgLinks, rgMaps, rgLinked, rgOnLink, rgSlots, rgFree, rgMarked>>
  BY <1>10 DEF rgLists
<1> QED BY <1>9, <1>10, <1>11, <1>12, <1>13, <1>14, <1>15, <1>16, RemovalBegins

LEMMA CleanupSafe ==
  ASSUME Inv, NEW given \in SUBSET RgMap, RgCleanup(given)
  PROVE  Inv'
<1> DEFINE gone == RgListed \cap rgMarked
           late == {m \in RgListed \ gone : RgIsLocal(m) /\ rgMaps[m].is # "active"} \cap given
           a == RgEach("map", gone, "removed")
           b == RgEach("map", late, "expired")
           q == a \o b
<1>1. /\ rgTodo = << >> /\ rgCbs # << >> /\ UNCHANGED rgLists /\ UNCHANGED rgProgram
      /\ rgTodo' = q
  BY DEF RgCleanup, RgIdle, RgDo
<1>2. gone \in SUBSET RgMap /\ late \in SUBSET RgMap
  BY DEF Inv, Types
<1> HIDE DEF gone, late
<1>3. /\ a \in Seq(Tasks) /\ \A K : Some(a, K) <=> \E m \in gone : RgThing("map", m, "removed") \in K
      /\ b \in Seq(Tasks) /\ \A K : Some(b, K) <=> \E m \in late : RgThing("map", m, "expired") \in K
  BY <1>2, EachMap DEF Events
<1>4. /\ \A m \in gone : RgThing("map", m, "removed") \in Ends /\ RgThing("map", m, "removed").do = "map"
      /\ \A m \in late : RgThing("map", m, "expired") \in Ends /\ RgThing("map", m, "expired").do = "map"
  BY <1>2, EndsOne
<1> HIDE DEF a, b
<1>5. q \in Seq(Tasks) /\ \A K : Some(q, K) <=> Some(a, K) \/ Some(b, K)
  BY <1>3, Joined
<1> HIDE DEF q
<1>6. Removing(q)
  BY <1>3, <1>4, <1>5 DEF Removing
<1>7. ~Some(q, Kind({"unlist"})) /\ \A d : ~Some(q, Leaving(d))
  BY <1>3, <1>4, <1>5 DEF Kind, Leaving, On
<1>8. Types'
  BY <1>1, <1>5, TypesKept DEF Inv
<1>9. Freeing'
  BY <1>1 DEF Freeing, rgProgram
<1>10. UNCHANGED <<rgDevs, rgSigs, rgLinks, rgMaps, rgLinked, rgOnLink, rgSlots, rgFree, rgMarked>>
  BY <1>1 DEF rgLists
<1> QED BY <1>1, <1>5, <1>6, <1>7, <1>8, <1>9, <1>10, RemovalBegins

(* What mpr_graph_free does with each device: its signals, then itself. *)
LEMMA WithSigsIs ==
  ASSUME NEW d \in RgDev, NEW S \in SUBSET RgSig, NEW q,
         q = RgEach("sig", S, "removed") \o <<RgThing("dev", d, "removed")>>
  PROVE  /\ q \in Seq(Tasks)
         /\ \A K : Some(q, K) <=> \/ \E s \in S : RgThing("sig", s, "removed") \in K
                                  \/ RgThing("dev", d, "removed") \in K
<1> DEFINE a == RgEach("sig", S, "removed")
           x == RgThing("dev", d, "removed")
<1>1. a \in Seq(Tasks) /\ \A K : Some(a, K) <=> \E s \in S : RgThing("sig", s, "removed") \in K
  BY EachSig DEF Events
<1>2. x \in Tasks
  BY ThingIs DEF Events
<1>3. <<x>> \in Seq(Tasks) /\ \A K : Some(<<x>>, K) <=> x \in K
  BY <1>2, OneThing
<1> HIDE DEF a
<1>4. a \o <<x>> \in Seq(Tasks) /\ \A K : Some(a \o <<x>>, K) <=> Some(a, K) \/ Some(<<x>>, K)
  BY <1>1, <1>3, Joined
<1>5. q = a \o <<x>>
  BY DEF a
<1> QED BY <1>1, <1>3, <1>4, <1>5

(* mpr_graph_free takes all devices with their signals. *)
LEMMA AllDevicesIs ==
  ASSUME Inv, NEW q,
         q = (LET devs == SetToSeq(rgDevs)
                  withSigs(d) == RgEach("sig", {s \in rgSigs : RgOwner[s] = d}, "removed")
                                   \o <<RgThing("dev", d, "removed")>>
              IN FlattenSeq([i \in 1..Len(devs) |-> withSigs(devs[i])]))
  PROVE  /\ q \in Seq(Tasks)
         /\ \A K : Some(q, K) <=>
              \E d \in rgDevs : \/ \E s \in {s \in rgSigs : RgOwner[s] = d} : RgThing("sig", s, "removed") \in K
                                \/ RgThing("dev", d, "removed") \in K
<1> DEFINE devs == SetToSeq(rgDevs)
           n == Len(devs)
           sigs(d) == {s \in rgSigs : RgOwner[s] = d}
           withSigs(d) == RgEach("sig", sigs(d), "removed") \o <<RgThing("dev", d, "removed")>>
           ss == [i \in 1..n |-> withSigs(devs[i])]
<1>1. q = FlattenSeq(ss)
  OBVIOUS
<1>2. rgDevs \subseteq RgDev /\ IsFiniteSet(rgDevs) /\ rgSigs \subseteq RgSig
  BY FiniteSets, FS_Subset DEF Inv, Types
<1>3. devs \in Seq(rgDevs) /\ Range(devs) = rgDevs
  BY <1>2, SetToSeqIs
<1> HIDE DEF devs
<1>4. n \in Nat /\ DOMAIN devs = 1..n /\ \A i \in 1..n : devs[i] \in rgDevs
  BY <1>3
<1>5. ASSUME NEW d \in rgDevs
      PROVE  /\ withSigs(d) \in Seq(Tasks)
             /\ \A K : Some(withSigs(d), K) <=> \/ \E s \in sigs(d) : RgThing("sig", s, "removed") \in K
                                                \/ RgThing("dev", d, "removed") \in K
  <2>1. sigs(d) \in SUBSET RgSig /\ d \in RgDev
    BY <1>2
  <2> QED BY <2>1, WithSigsIs
<1> HIDE DEF n, withSigs
<1>6. ss \in [1..n -> Seq(Tasks)]
  BY <1>4, <1>5
<1>7. \A i \in 1..n : ss[i] = withSigs(devs[i])
  OBVIOUS
<1> HIDE DEF ss
<1>8. /\ FlattenSeq(ss) \in Seq(Tasks)
      /\ \A x : x \in Range(FlattenSeq(ss)) <=> \E i \in 1..n : x \in Range(ss[i])
  BY <1>4, <1>6, FlattenHas
<1>9. ASSUME NEW K PROVE Some(q, K) <=> \E d \in rgDevs : Some(withSigs(d), K)
  <2>1. Some(q, K) <=> \E i \in 1..n : Some(withSigs(devs[i]), K)
    <3>1. Some(q, K) <=> \E x \in Range(q) : x \in K
      BY SomeRange
    <3>2. \A i \in 1..n : Some(ss[i], K) <=> \E x \in Range(ss[i]) : x \in K
      BY SomeRange
    <3> QED BY <3>1, <3>2, <1>1, <1>7, <1>8
  <2>2. \A d : d \in rgDevs <=> \E i \in 1..n : devs[i] = d
    BY <1>3, <1>4 DEF Range
  <2> QED BY <2>1, <2>2
<1>10. ASSUME NEW K
       PROVE  Some(q, K) <=>
              \E d \in rgDevs : \/ \E s \in sigs(d) : RgThing("sig", s, "removed") \in K
                                \/ RgThing("dev", d, "removed") \in K
  BY <1>5, <1>9
<1> QED BY <1>1, <1>8, <1>10

LEMMA FreeGraphSafe ==
  ASSUME Inv, RgFreeGraph
  PROVE  Inv'
<1> DEFINE c == (LET devs == SetToSeq(rgDevs)
                     withSigs(d) == RgEach("sig", {s \in rgSigs : RgOwner[s] = d}, "removed")
                                      \o <<RgThing("dev", d, "removed")>>
                 IN FlattenSeq([i \in 1..Len(devs) |-> withSigs(devs[i])]))
           M == {m \in RgListed : ~RgIsLocal(m)}
           L == {k \in rgLinks : RgLocal \notin k}
           a == RgEach("map", M, "removed")
           b == RgEach("link", L, "removed")
           q == (a \o b) \o c
<1>1. /\ rgTodo = << >> /\ rgCbs' = << >>
      /\ UNCHANGED <<rgDevs, rgSigs, rgLinks, rgMaps, rgLinked, rgOnLink, rgSlots, rgFree, rgMarked, rgTold, rgMine>>
  BY DEF RgFreeGraph, RgIdle, rgLists
<1>2. rgTodo' = a \o b \o c
  BY DEF RgFreeGraph, RgDo
<1>3. M \in SUBSET RgMap /\ L \in SUBSET Bonds /\ rgSigs \subseteq RgSig /\ rgDevs \subseteq RgDev
  BY DEF Inv, Types
<1>4. /\ c \in Seq(Tasks)
      /\ \A K : Some(c, K) <=>
              \E d \in rgDevs : \/ \E s \in {s \in rgSigs : RgOwner[s] = d} : RgThing("sig", s, "removed") \in K
                                \/ RgThing("dev", d, "removed") \in K
  BY AllDevicesIs
<1> HIDE DEF c, M, L
<1>5. /\ a \in Seq(Tasks) /\ \A K : Some(a, K) <=> \E m \in M : RgThing("map", m, "removed") \in K
      /\ b \in Seq(Tasks) /\ \A K : Some(b, K) <=> \E k \in L : RgThing("link", k, "removed") \in K
  BY <1>3, EachMap, EachLink DEF Events
<1>6. /\ \A m \in M : RgThing("map", m, "removed") \in Ends /\ RgThing("map", m, "removed").do = "map"
      /\ \A k \in L : RgThing("link", k, "removed") \in Ends /\ RgThing("link", k, "removed").do = "link"
      /\ \A s \in rgSigs : /\ RgThing("sig", s, "removed") \in Ends /\ RgThing("sig", s, "removed").do = "sig"
                           /\ RgThing("sig", s, "removed").o = s
      /\ \A d \in rgDevs : /\ RgThing("dev", d, "removed") \in Ends /\ RgThing("dev", d, "removed").do = "dev"
                           /\ RgThing("dev", d, "removed").o = d
  <2>1. /\ \A m \in M : RgThing("map", m, "removed") \in Ends /\ RgThing("map", m, "removed").do = "map"
        /\ \A k \in L : RgThing("link", k, "removed") \in Ends /\ RgThing("link", k, "removed").do = "link"
    BY <1>3, EndsOne
  <2>2. \A s \in rgSigs : /\ RgThing("sig", s, "removed") \in Ends /\ RgThing("sig", s, "removed").do = "sig"
                          /\ RgThing("sig", s, "removed").o = s
    BY <1>3, EndsOne
  <2>3. \A d \in rgDevs : /\ RgThing("dev", d, "removed") \in Ends /\ RgThing("dev", d, "removed").do = "dev"
                          /\ RgThing("dev", d, "removed").o = d
    BY <1>3, EndsOne
  <2> QED BY <2>1, <2>2, <2>3
<1> HIDE DEF a, b
<1>7. a \o b \in Seq(Tasks) /\ \A K : Some(a \o b, K) <=> Some(a, K) \/ Some(b, K)
  BY <1>5, Joined
<1>8. q \in Seq(Tasks) /\ \A K : Some(q, K) <=> Some(a \o b, K) \/ Some(c, K)
  BY <1>4, <1>7, Joined
<1>9. rgTodo' = q
  BY <1>2
<1> HIDE DEF q
<1>11. ASSUME NEW K, Some(q, K)
       PROVE  \E x \in K \cap Ends : x.do \in {"map", "link", "sig", "dev"}
  <2>1. Some(a, K) \/ Some(b, K) \/ Some(c, K)
    BY <1>7, <1>8, <1>11
  <2>2. CASE Some(a, K)
    BY <2>2, <1>5, <1>6
  <2>3. CASE Some(b, K)
    BY <2>3, <1>5, <1>6
  <2>4. CASE Some(c, K)
    BY <2>4, <1>4, <1>6
  <2> QED BY <2>1, <2>2, <2>3, <2>4
<1>10. Removing(q)
  BY <1>11 DEF Removing
<1>12. ~Some(q, Kind({"unlist"})) /\ ~Some(q, Continues)
  BY <1>11 DEF Kind, Continues
<1>13. \A s \in rgSigs : RgOwner[s] \in rgDevs
  BY <1>1, IdleIs
<1>14. ASSUME NEW s \in rgSigs PROVE Some(q, Dooms(s))
  <2>1. RgThing("sig", s, "removed") \in Dooms(s)
    BY <1>6 DEF Dooms, On, Ends
  <2>2. Some(c, Dooms(s))
    BY <2>1, <1>4, <1>13
  <2> QED BY <2>2, <1>8
<1>15. ASSUME NEW d \in rgDevs PROVE Some(q, Dooms(d))
  <2>1. RgThing("dev", d, "removed") \in Dooms(d)
    BY <1>6 DEF Dooms, On, Ends
  <2>2. Some(c, Dooms(d))
    BY <2>1, <1>4
  <2> QED BY <2>2, <1>8
<1>16. \A s \in rgSigs : Some(q, Sweeps \cup Dooms(s))
  BY <1>14, <1>8, SomeIn
<1>17. Types'
  BY <1>1, <1>8, <1>9 DEF Inv, Types, RgListed, Walks
<1>18. Freeing'
  BY <1>1, <1>9, <1>12, <1>14, <1>15 DEF Freeing
<1> QED BY <1>1, <1>8, <1>9, <1>10, <1>12, <1>16, <1>17, <1>18, RemovalBegins

-----------------------------------------------------------------------------
(* The process starts with its own device and signals. *)
LEMMA InitSafe ==
  ASSUME RgInit
  PROVE  Inv
<1>1. /\ rgDevs = {RgLocal} /\ rgSigs = Locals /\ rgLinks = {} /\ RgListed = {}
      /\ rgLinked = [d \in RgDev |-> << >>] /\ rgOnLink = [k \in Pairs |-> {}]
      /\ rgSlots = [s \in Locals |-> {}] /\ rgMarked = {} /\ rgFree = {} /\ rgCbs = <<"first">>
      /\ rgMine = {} /\ rgTodo = << >>
      /\ rgTold \in [Objects -> {"there", "none", "wrong"}]
  BY DEF RgInit, RgListed, Locals, Pairs, Objects
<1>2. RgLocal \in RgDev /\ Locals \subseteq RgSig /\ \A s \in Locals : RgOwner[s] = RgLocal
  BY RgAssumption DEF Locals
<1>3. \A d \in RgDev : rgLinked[d] = << >> /\ Range(rgLinked[d]) = {}
  BY <1>1 DEF Range
<1>4. rgCbs \in Walks /\ rgCbs # << >>
  BY <1>1 DEF Walks
<1>5. Types
  <2>1. rgTodo \in Seq(Tasks) /\ rgLinked \in Linkings
    BY <1>1, <1>3 DEF Linkings
  <2> QED BY <1>1, <1>2, <1>4, <2>1 DEF Types
<1>6. Mode /\ Wanted /\ Freeing
  <2>1. Adding(rgTodo) /\ Single(rgTodo, Kind({"addmap"})) /\ Range(rgTodo) = {}
    BY <1>1, Nothing DEF Adding, Range
  <2> QED BY <1>4, <2>1 DEF Mode, Wanted, Freeing
<1>7. Sound
  BY <1>1, <1>2, <1>3 DEF Sound
<1>8. Scheduled
  BY <1>1, <1>3, Nothing DEF Scheduled
<1>9. Swept
  BY <1>1, <1>2, Nothing DEF Swept
<1> QED BY <1>5, <1>6, <1>7, <1>8, <1>9 DEF Inv

LEMMA StutterSafe ==
  ASSUME Inv, UNCHANGED rgVars
  PROVE  Inv'
<1>1. UNCHANGED <<rgDevs, rgSigs, rgLinks, rgMaps, rgLinked, rgOnLink, rgSlots, rgMarked, rgFree,
                  rgCbs, rgTold, rgMine, rgTodo>>
  BY DEF rgVars
<1>2. RgListed' = RgListed /\ \A m : RgSigsOf(m)' = RgSigsOf(m)
  BY <1>1 DEF RgListed, RgSigsOf
<1>3. Types' /\ Mode' /\ Sound'
  BY <1>1, <1>2 DEF Inv, Types, Mode, Sound
<1>4. Scheduled' /\ Wanted'
  BY <1>1, <1>2 DEF Inv, Scheduled, Wanted
<1>5. Swept' /\ Freeing'
  BY <1>1 DEF Inv, Swept, Freeing
<1> QED BY <1>3, <1>4, <1>5 DEF Inv

LEMMA StepSafe ==
  ASSUME Inv, RgStep
  PROVE  Inv'
BY TakeApartSafe, UnlistSafe, CutSafe, FreedSafe, UnlinkSafe, StartSafe, HandlerSafe, AddSigSafe,
   AddMapSafe, SweepSafe DEF RgStep

(* Every step keeps the invariant. *)
LEMMA NextSafe ==
  ASSUME Inv, RgNext
  PROVE  Inv'
<1>1. CASE RgStep
  BY <1>1, StepSafe
<1>2. ASSUME NEW d \in RgDev, NEW names \in RgLinkedTo, RgReceiveDevice(d, names) PROVE Inv'
  BY <1>2, ReceiveDeviceSafe
<1>3. ASSUME NEW s \in RgSig, RgReceiveSignal(s) \/ RgReceiveSignalRemoved(s) \/ RgFreeSig(s) PROVE Inv'
  BY <1>3, ReceiveSignalSafe, ReceiveSignalRemovedSafe, FreeSigSafe
<1>4. ASSUME NEW m \in RgMap, NEW S \in SUBSET RgMapSrc[m], RgReceiveMap(m, S) PROVE Inv'
  BY <1>4, ReceiveMapSafe
<1>5. ASSUME NEW m \in RgMap, RgReady(m) \/ RgActivate(m) \/ RgReceiveUnmapped(m) PROVE Inv'
  BY <1>5, ReadySafe, ActivateSafe, ReceiveUnmappedSafe
<1>6. ASSUME NEW m \in RgMap, NEW mine \in BOOLEAN, RgUnmap(m, mine) PROVE Inv'
  BY <1>6, UnmapSafe
<1>7. ASSUME NEW d \in RgDev, RgReceiveLogout(d) PROVE Inv'
  BY <1>7, ReceiveLogoutSafe
<1>8. ASSUME NEW k \in rgLinks, RgLoseLink(k) PROVE Inv'
  BY <1>8, LoseLinkSafe
<1>9. CASE RgFreeDev \/ RgAddCb \/ RgFreeGraph
  BY <1>9, FreeDevSafe, AddCbSafe, FreeGraphSafe
<1>10. ASSUME NEW silent \in SUBSET RgRemote, RgHousekeeping(silent) PROVE Inv'
  BY <1>10, HousekeepingSafe
<1>11. ASSUME NEW given \in SUBSET RgMap, RgCleanup(given) PROVE Inv'
  BY <1>11, CleanupSafe
<1> QED BY <1>1, <1>2, <1>3, <1>4, <1>5, <1>6, <1>7, <1>8, <1>9, <1>10, <1>11 DEF RgNext

(* What the invariant says of the records. *)
LEMMA InvIsWhole ==
  ASSUME Inv
  PROVE  RgWhole
<1>1. /\ \A s \in rgSigs \ rgMarked : RgOwner[s] \in rgDevs
      /\ \A m \in RgListed \ rgMarked : RgSigsOf(m) \subseteq rgSigs
  BY DEF Inv, Sound
<1>2. \A k \in rgLinks : k \subseteq rgDevs /\ rgOnLink[k] \subseteq RgListed \cup rgFree
  <2>1. rgLinks \subseteq Pairs
    BY DEF Inv, Types, Bonds
  <2> QED BY <2>1 DEF Inv, Sound
<1>3. ASSUME NEW d \in rgDevs, NEW i \in DOMAIN rgLinked[d] PROVE rgLinked[d][i] \in rgDevs
  <2>1. rgLinked[d] \in Seq(RgDev)
    BY DEF Inv, Types, Linkings
  <2>2. rgLinked[d][i] \in Range(rgLinked[d])
    BY <2>1, RangeOf
  <2> QED BY <2>2 DEF Inv, Sound
<1>4. \A s \in DOMAIN rgSlots : rgSlots[s] \subseteq RgListed \cup rgFree
  <2>1. DOMAIN rgSlots = Locals
    BY DEF Inv, Types
  <2> QED BY <2>1 DEF Inv, Sound
<1>5. ASSUME rgCbs = << >>, rgTodo = << >> PROVE rgDevs \cup rgSigs = {} /\ RgListed \subseteq rgMarked
  <2>1. \A K : ~Some(rgTodo, K)
    BY <1>5, Nothing
  <2>2. rgDevs \cup rgSigs = {}
    BY <1>5, <2>1 DEF Inv, Freeing
  <2>3. \A m : RgMapDst[m] \in RgSigsOf(m)
    BY DEF RgSigsOf
  <2> QED BY <2>2, <2>3, <1>1
<1> QED BY <1>1, <1>2, <1>3, <1>4, <1>5 DEF RgWhole

RgSpec == RgInit /\ [][RgNext]_rgVars

(* No record that is listed refers to one that is gone, whatever is added and removed and whatever the *)
(* handlers do in between: the records of src/graph.c are whole at every step of a removal.            *)
THEOREM RegistryIsWhole == RgSpec => []RgWhole
<1>1. RgInit => Inv
  BY InitSafe
<1>2. Inv /\ [RgNext]_rgVars => Inv'
  BY NextSafe, StutterSafe
<1>3. Inv => RgWhole
  BY InvIsWhole
<1> QED BY <1>1, <1>2, <1>3, PTL DEF RgSpec

-----------------------------------------------------------------------------
(* What the program was told. The tasks that tell its first handler of o, and those about records. *)
Told == {t \in Kind({"call", "walk"}) : t.do = "walk" => t.rest # << >>}
Tells(o) == {t \in Told : t.o = o}
News == {t \in Tasks : t.e = "new"}
Changes == {t \in Tasks : t.e = "modified"}
About(o) == On({"map", "sig", "unlist", "call", "walk", "free"}, o)
Asks(o) == On({"map", "sig"}, o)
OfMaps == {t \in Kind({"map", "unlist", "call", "walk", "free"}) : t.o \in RgMap}
OfSigs == {t \in Kind({"sig", "unlist", "call", "walk", "free"}) : t.o \in RgSig}
Early == OfMaps \cup OfSigs \cup Kind({"link", "cut", "unlink"})

(* The signals and active maps that there are; those the program keeps account of. *)
Here == rgSigs \cup {m \in RgListed : rgMaps[m].is = "active"}
Listed == rgSigs \cup RgListed
Records == RgSig \cup RgMap
Watched == RgSig \cup (RgMap \ rgMine)

(* What was told of o fits what there is and what is left to do. *)
Fits(q, told, here, o) ==
  /\ ~Some(q, Tells(o)) => (told[o] = "there" <=> o \in here)
  /\ Single(q, Tells(o))
  /\ Some(q, Tells(o) \cap News) => told[o] = "none" /\ o \in here
  /\ Some(q, Tells(o) \cap Changes) => told[o] = "there" /\ o \in here
  /\ Some(q, Tells(o) \cap Ends) =>
       told[o] = "there" /\ (o \in here => Preceded(q, Tells(o), Leaves(o)))
  /\ o \in here /\ Some(q, Leaves(o)) => Some(q, Tells(o))
FitsDev(q, told, devs, d) ==
  /\ told[d] = "there" => d \in devs \/ Some(q, Tells(d))
  /\ Followed(q, Leaves(d), Tells(d))
  /\ Some(q, Tells(d) \cap Brings) => d \in devs
(* A record is taken apart once, and nothing else about it is left to do until then. *)
Once(q, listed, o) == Some(q, Asks(o)) => o \in listed /\ Single(q, About(o))
Ordered(q) == Grouped(q, OfMaps) /\ Grouped(q, Early)
Kept(q, told, here, listed, devs, watched) ==
  /\ Ordered(q)
  /\ \A o \in watched : Fits(q, told, here, o)
  /\ \A o \in Records : Once(q, listed, o)
  /\ \A d \in RgDev : FitsDev(q, told, devs, d)
Accounts ==
  /\ \A o \in Watched : rgTold[o] # "wrong"
  /\ rgCbs # << >> => Kept(rgTodo, rgTold, Here, Listed, rgDevs, Watched)

(* Which tasks are of which kind. *)
LEMMA TellsIs ==
  ASSUME NEW t \in Tasks
  PROVE  /\ \A o : t \in Tells(o) <=> t.o = o /\ (t.do = "call" \/ (t.do = "walk" /\ t.rest # << >>))
         /\ \A o : t \in About(o) <=> t.o = o /\ t.do \in {"map", "sig", "unlist", "call", "walk", "free"}
         /\ \A o : t \in Asks(o) <=> t.o = o /\ t.do \in {"map", "sig"}
         /\ \A o : t \in Leaves(o) <=> t.o = o /\ t.do = "unlist"
         /\ t \in OfMaps <=> t.o \in RgMap /\ t.do \in {"map", "unlist", "call", "walk", "free"}
         /\ t \in Early <=> \/ t.o \in RgMap /\ t.do \in {"map", "unlist", "call", "walk", "free"}
                            \/ t.o \in RgSig /\ t.do \in {"sig", "unlist", "call", "walk", "free"}
                            \/ t.do \in {"link", "cut", "unlink"}
         /\ t \in News <=> t.e = "new"
         /\ t \in Changes <=> t.e = "modified"
         /\ t \in Brings <=> t.do \in {"call", "walk"} /\ t.e \in {"new", "modified"}
         /\ t \in Ends <=> t.do \notin {"addsig", "addmap"} /\ t.e \in {"removed", "expired"}
BY DEF Tells, Told, About, Asks, Leaves, OfMaps, OfSigs, Early, News, Changes, Brings, Ends, On, Kind

LEMMA TellsWithin ==
  ASSUME NEW o
  PROVE  /\ Tells(o) \subseteq About(o) /\ Leaves(o) \subseteq About(o) /\ Asks(o) \subseteq About(o)
         /\ Tells(o) \subseteq Tasks /\ About(o) \subseteq Tasks
         /\ o \in RgMap => About(o) \subseteq OfMaps
         /\ o \in Records => About(o) \subseteq Early
         /\ Tells(o) \subseteq (Tells(o) \cap News) \cup (Tells(o) \cap Changes) \cup (Tells(o) \cap Ends)
<1>1. \A t \in Tells(o) : t \in Tasks
  BY DEF Tells, Told, Kind
<1>2. \A t \in Tells(o) : t.e \in Events /\ t.do \notin {"addsig", "addmap"}
  BY <1>1, TaskIs, TellsIs
<1>3. Tells(o) \subseteq (Tells(o) \cap News) \cup (Tells(o) \cap Changes) \cup (Tells(o) \cap Ends)
  BY <1>1, <1>2, TellsIs DEF Events
<1>4. Leaves(o) \subseteq Tasks /\ About(o) \subseteq Tasks /\ Asks(o) \subseteq Tasks
  BY DEF Leaves, About, Asks, On
<1>5. ASSUME NEW t \in About(o)
      PROVE  (o \in RgMap => t \in OfMaps) /\ (o \in Records => t \in Early)
  <2>1. t \in Tasks /\ t.o = o /\ t.do \in {"map", "sig", "unlist", "call", "walk", "free"}
    BY <1>4, TellsIs
  <2>2. (t.do = "sig" => o \in RgSig) /\ (t.do = "map" => o \in RgMap) /\ RgSig \cap RgMap = {}
    BY <2>1, TaskIs, RgAssumption
  <2> QED BY <2>1, <2>2, TellsIs DEF Records
<1> QED BY <1>1, <1>3, <1>4, <1>5, TellsIs

(* What a step does not touch fits as before. *)
LEMMA FitsSpared ==
  ASSUME NEW q, NEW new \in Seq(Tasks), NEW h, NEW r, Replaces(q, new, h, r), NEW o,
         h \notin Tells(o), h \notin Leaves(o), ~Some(new, Tells(o)), ~Some(new, Leaves(o)),
         NEW told, NEW here, NEW told2, NEW here2, told2[o] = told[o],
         (o \in here2 /\ o \in here) \/ (o \notin here2 /\ o \notin here),
         Fits(q, told, here, o)
  PROVE  Fits(r, told2, here2, o)
<1> DEFINE T == Tells(o)
<1>1. ASSUME NEW K, K \subseteq T \/ K = Leaves(o) PROVE Some(r, K) <=> Some(q, K)
  <2>1. h \notin K /\ ~Some(new, K)
    <3>1. K \cap Tasks \subseteq T \/ K = Leaves(o)
      BY <1>1
    <3> QED BY <3>1, <1>1, SomeIn
  <2> QED BY <2>1, Zenon DEF Replaces
<1>2. Single(new, T) /\ Preceded(new, T, Leaves(o))
  BY WithoutSome
<1>3. Single(q, T) => Single(r, T)
  BY <1>2, Zenon DEF Replaces
<1>4. Preceded(q, T, Leaves(o)) => Preceded(r, T, Leaves(o))
  BY <1>2, Zenon DEF Replaces
<1>5. T \cap News \subseteq T /\ T \cap Changes \subseteq T /\ T \cap Ends \subseteq T
  OBVIOUS
<1>6. /\ Some(r, T) <=> Some(q, T)
      /\ Some(r, T \cap News) <=> Some(q, T \cap News)
      /\ Some(r, T \cap Changes) <=> Some(q, T \cap Changes)
      /\ Some(r, T \cap Ends) <=> Some(q, T \cap Ends)
      /\ Some(r, Leaves(o)) <=> Some(q, Leaves(o))
  BY <1>1, <1>5
<1> QED BY <1>3, <1>4, <1>6 DEF Fits

(* A record that is taken apart is told of if it is there, after it left its list. *)
LEMMA FitsTakenApart ==
  ASSUME NEW q \in Seq(Tasks), q # << >>, NEW new \in Seq(Tasks), NEW h, h = Head(q), NEW r, Replaces(q, new, h, r),
         NEW o, h \notin Tells(o), h \notin Leaves(o), ~Some(Tail(q), About(o)),
         NEW told, NEW here, Fits(q, told, here, o),
         Single(new, Tells(o)), Some(new, Tells(o)) <=> o \in here, Removing(new),
         Preceded(new, Tells(o), Leaves(o))
  PROVE  Fits(r, told, here, o)
<1> DEFINE T == Tells(o)
<1>0. Tail(q) \in Seq(Tasks) /\ r \in Seq(Tasks)
  BY DEF Replaces
<1>1. ASSUME NEW K, K \subseteq About(o) PROVE ~Some(Tail(q), K)
  <2>1. K \cap Tasks \subseteq About(o)
    BY <1>1
  <2> QED BY <2>1, <1>0, SomeIn
<1>2. /\ T \subseteq About(o) /\ Leaves(o) \subseteq About(o)
      /\ T \cap News \subseteq About(o) /\ T \cap Changes \subseteq About(o)
  BY TellsWithin
<1>3. ~Some(Tail(q), T) /\ ~Some(Tail(q), T \cap News) /\ ~Some(Tail(q), T \cap Changes)
  BY <1>1, <1>2
<1>4. ~Some(new, T \cap News) /\ ~Some(new, T \cap Changes)
  <2>1. (T \cap News) \cap Ends = {} /\ (T \cap Changes) \cap Ends = {}
    BY DEF News, Changes, Ends
  <2> QED BY <2>1, RemovingVoid
<1>5. ~Some(r, T \cap News) /\ ~Some(r, T \cap Changes) /\ (Some(r, T) <=> o \in here)
  BY <1>3, <1>4, Zenon DEF Replaces
<1>6. ~Some(q, T)
  <2>1. Some(q, T) => h \in T \/ Some(Tail(q), T)
    BY SomeTail
  <2> QED BY <2>1, <1>3
<1>7. told[o] = "there" <=> o \in here
  BY <1>6 DEF Fits
<1>8. Single(r, T)
  BY <1>3, Zenon DEF Replaces
<1>9. Preceded(q, T, Leaves(o))
  BY <1>6, WithoutSome
<1>10. Preceded(r, T, Leaves(o))
  BY <1>9, Zenon DEF Replaces
<1>11. Some(r, T \cap Ends) => Some(r, T)
  BY <1>0, SomeIn
<1> QED BY <1>5, <1>7, <1>8, <1>10, <1>11 DEF Fits

(* A record leaves its list. *)
LEMMA FitsUnlisted ==
  ASSUME NEW q, NEW h, NEW r, Replaces(q, << >>, h, r), NEW o, h \in Leaves(o), Removing(r),
         NEW told, NEW here, NEW here2, o \notin here2, Fits(q, told, here, o)
  PROVE  Fits(r, told, here2, o)
<1> DEFINE T == Tells(o)
<1>0. r \in Seq(Tasks) /\ h \in Tasks
  BY DEF Replaces
<1>1. h \notin T
  BY <1>0, TellsIs
<1>2. Some(r, T) <=> Some(q, T)
  BY <1>1, Nothing, Zenon DEF Replaces
<1>3. ~Some(r, T \cap News) /\ ~Some(r, T \cap Changes)
  <2>1. (T \cap News) \cap Ends = {} /\ (T \cap Changes) \cap Ends = {}
    BY DEF News, Changes, Ends
  <2> QED BY <2>1, <1>0, RemovingVoid
<1>4. Some(q, Leaves(o))
  BY Zenon DEF Replaces
<1>5. Single(r, T)
  <2>1. Single(q, T) /\ Single(<< >>, T) /\ ~Some(<< >>, T)
    BY Nothing DEF Fits
  <2> QED BY <2>1, Zenon DEF Replaces
<1>6. Some(r, T \cap Ends) => Some(q, T \cap Ends)
  BY Nothing, Zenon DEF Replaces
<1> QED BY <1>2, <1>3, <1>4, <1>5, <1>6 DEF Fits

(* The handlers are called: what told of o still does. *)
LEMMA FitsGoesOn ==
  ASSUME NEW q, NEW w \in Tasks, NEW h, NEW r, Replaces(q, <<w>>, h, r), NEW o,
         h \in Tells(o), w \in Tells(o), w.e = h.e,
         NEW told, NEW here, NEW told2, NEW here2, told2[o] = told[o],
         (o \in here2 /\ o \in here) \/ (o \notin here2 /\ o \notin here),
         Fits(q, told, here, o)
  PROVE  Fits(r, told2, here2, o)
<1> DEFINE T == Tells(o)
<1>0. r \in Seq(Tasks) /\ h \in Tasks /\ Tail(q) \in Seq(Tasks)
  BY DEF Replaces
<1>1. Some(<<w>>, T) /\ Single(<<w>>, T)
  BY OneThing
<1>2. Single(q, T) /\ Some(r, T)
  BY <1>1, Zenon DEF Replaces, Fits
<1>3. Single(r, T) /\ ~Some(Tail(q), T)
  BY <1>1, <1>2, Zenon DEF Replaces
<1>4. ASSUME NEW K, K \subseteq T, w \in K => h \in K, Some(r, K) PROVE Some(q, K)
  <2>1. ~Some(Tail(q), K)
    BY <1>0, <1>3, <1>4, SomeIn
  <2>2. Some(<<w>>, K)
    BY <1>4, <2>1, Zenon DEF Replaces
  <2>3. h \in K
    BY <2>2, <1>4, OneThing
  <2> QED BY <2>3, Zenon DEF Replaces
<1>5. /\ w \in T \cap News => h \in T \cap News
      /\ w \in T \cap Changes => h \in T \cap Changes
      /\ w \in T \cap Ends => h \in T \cap Ends
  BY <1>0, TellsIs
<1>6. /\ Some(r, T \cap News) => Some(q, T \cap News)
      /\ Some(r, T \cap Changes) => Some(q, T \cap Changes)
      /\ Some(r, T \cap Ends) => Some(q, T \cap Ends)
  <2>1. T \cap News \subseteq T /\ T \cap Changes \subseteq T /\ T \cap Ends \subseteq T
    OBVIOUS
  <2> QED BY <2>1, <1>4, <1>5
<1>7. ~Preceded(q, T, Leaves(o))
  BY Zenon DEF Replaces
<1> QED BY <1>2, <1>3, <1>6, <1>7 DEF Fits

(* What the first handler was told of o fits afterwards. *)
Hears(o, e, told, told2) ==
  /\ e = "new" /\ told[o] = "none" => told2[o] = "there"
  /\ e = "modified" /\ told[o] = "there" => told2[o] = "there"
  /\ e \in {"removed", "expired"} /\ told[o] = "there" => told2[o] = "none"

LEMMA FitsTold ==
  ASSUME NEW q \in Seq(Tasks), NEW new \in Seq(Tasks), NEW h, NEW r, Replaces(q, new, h, r), NEW o,
         h \in Tells(o), ~Some(new, Tells(o)), ~Some(new, Leaves(o)), h \notin Brings \/ Adding(q),
         NEW told, NEW here, Fits(q, told, here, o), NEW told2, Hears(o, h.e, told, told2)
  PROVE  Fits(r, told2, here, o) /\ told2[o] \in {"there", "none"}
<1> DEFINE T == Tells(o)
<1>0. r \in Seq(Tasks) /\ h \in Tasks /\ Tail(q) \in Seq(Tasks)
  BY DEF Replaces
<1>1. Single(q, T)
  BY DEF Fits
<1>2. ~Some(Tail(q), T)
  BY <1>1, Zenon DEF Replaces
<1>3. ~Some(r, T)
  BY <1>2, Zenon DEF Replaces
<1>4. ~Preceded(q, T, Leaves(o)) /\ (Some(r, Leaves(o)) => Some(q, Leaves(o)))
  BY Zenon DEF Replaces
<1>5. \A K : h \in K => Some(q, K)
  BY Zenon DEF Replaces
<1>6. /\ h.e = "new" => h \in T \cap News
      /\ h.e = "modified" => h \in T \cap Changes
      /\ h.e \in {"removed", "expired"} => h \in T \cap Ends
      /\ h.e \in Events
      /\ h.e \in {"new", "modified"} => h \in Brings
  BY <1>0, TellsIs, TaskIs
<1>7. h.e = "new" => told[o] = "none" /\ o \in here
  BY <1>5, <1>6 DEF Fits
<1>8. h.e = "modified" => told[o] = "there" /\ o \in here
  BY <1>5, <1>6 DEF Fits
<1>9. h.e \in {"removed", "expired"} => told[o] = "there" /\ o \notin here
  BY <1>4, <1>5, <1>6 DEF Fits
<1>10. told2[o] = "there" <=> o \in here
  BY <1>6, <1>7, <1>8, <1>9 DEF Events, Hears
<1>11. told2[o] \in {"there", "none"}
  BY <1>6, <1>7, <1>8, <1>9 DEF Events, Hears
<1>12. o \in here => ~Some(r, Leaves(o))
  <2>1. o \in here => ~Some(q, Leaves(o))
    <3>1. o \in here => Adding(q)
      BY <1>6, <1>9 DEF Events
    <3>2. Leaves(o) \cap (Adds \cup Brings) = {}
      BY DEF Leaves, On, Adds, Brings, Kind
    <3> QED BY <3>1, <3>2, AddingVoid
  <2> QED BY <2>1, <1>4
<1>13. Single(r, T) /\ \A K : K \subseteq T => ~Some(r, K)
  BY <1>0, <1>3, SomeIn, WithoutSome
<1>14. T \cap News \subseteq T /\ T \cap Changes \subseteq T /\ T \cap Ends \subseteq T
  OBVIOUS
<1> QED BY <1>10, <1>11, <1>12, <1>13, <1>14 DEF Fits

(* Of a device the program knows that it has left, or will be told. *)
LEMMA FitsDevGoesOn ==
  ASSUME NEW q, NEW new \in Seq(Tasks), NEW h, NEW r, Replaces(q, new, h, r), NEW d,
         NEW told, NEW devs, FitsDev(q, told, devs, d), NEW told2, NEW devs2,
         told2[d] = told[d], d \notin devs \/ d \in devs2, h \notin Tells(d) \/ Some(new, Tells(d)),
         Followed(new, Leaves(d), Tells(d)), ~Some(new, Tells(d) \cap Brings) \/ d \in devs
  PROVE  FitsDev(r, told2, devs2, d)
<1> DEFINE T == Tells(d)
<1>1. Followed(q, Leaves(d), T) => Followed(r, Leaves(d), T)
  BY Zenon DEF Replaces
<1>2. Some(q, T) => Some(r, T)
  BY Zenon DEF Replaces
<1>3. Some(r, T \cap Brings) => Some(new, T \cap Brings) \/ Some(q, T \cap Brings)
  BY Zenon DEF Replaces
<1> QED BY <1>1, <1>2, <1>3 DEF FitsDev

LEMMA FitsDevUnlisted ==
  ASSUME NEW q, NEW h, NEW r, Replaces(q, << >>, h, r), NEW d, h \in Leaves(d), Removing(r),
         NEW told, NEW devs, FitsDev(q, told, devs, d), NEW devs2
  PROVE  FitsDev(r, told, devs2, d)
<1> DEFINE T == Tells(d)
<1>1. Followed(q, Leaves(d), T) => Followed(r, Leaves(d), T) /\ Some(r, T)
  BY Nothing, Zenon DEF Replaces
<1>2. ~Some(r, T \cap Brings)
  <2>1. (T \cap Brings) \cap Ends = {}
    BY DEF Brings, Ends
  <2>2. r \in Seq(Tasks)
    BY DEF Replaces
  <2> QED BY <2>1, <2>2, RemovingVoid
<1> QED BY <1>1, <1>2 DEF FitsDev

LEMMA FitsDevTold ==
  ASSUME NEW q, NEW new \in Seq(Tasks), NEW h, NEW r, Replaces(q, new, h, r), NEW d, h \in Tells(d),
         ~Some(new, Tells(d)), ~Some(new, Leaves(d)),
         NEW told, NEW devs, FitsDev(q, told, devs, d), NEW told2, told2[d] # "there" \/ h \in Brings
  PROVE  FitsDev(r, told2, devs, d)
<1> DEFINE T == Tells(d)
<1>1. Followed(new, Leaves(d), T)
  BY WithoutSome
<1>2. Followed(q, Leaves(d), T) => Followed(r, Leaves(d), T)
  BY <1>1, Zenon DEF Replaces
<1>3. ~Some(new, T \cap Brings)
  <2>1. (T \cap Brings) \cap Tasks \subseteq T
    OBVIOUS
  <2> QED BY <2>1, SomeIn
<1>4. Some(r, T \cap Brings) => Some(q, T \cap Brings)
  BY <1>3, Zenon DEF Replaces
<1>5. h \in Brings => Some(q, T \cap Brings)
  <2>1. h \in T \cap Brings => Some(q, T \cap Brings)
    BY Zenon DEF Replaces
  <2> QED BY <2>1
<1> QED BY <1>2, <1>4, <1>5 DEF FitsDev

(* Records are taken apart once. *)
LEMMA OnceStays ==
  ASSUME NEW q, NEW new \in Seq(Tasks), NEW h, NEW r, Replaces(q, new, h, r), NEW o,
         NEW listed, NEW listed2, Once(q, listed, o),
         ~Some(new, Asks(o)), h \in About(o) \/ ~Some(new, About(o)),
         o \notin listed \/ h \in Leaves(o) \/ o \in listed2
  PROVE  Once(r, listed2, o)
<1>0. Tail(q) \in Seq(Tasks)
  BY DEF Replaces
<1> SUFFICES ASSUME Some(r, Asks(o)) PROVE o \in listed2 /\ Single(r, About(o))
  BY DEF Once
<1>1. Some(Tail(q), Asks(o)) /\ Some(q, Asks(o))
  BY Zenon DEF Replaces
<1>2. o \in listed /\ Single(q, About(o))
  BY <1>1 DEF Once
<1>3. Some(Tail(q), About(o))
  <2>1. Asks(o) \cap Tasks \subseteq About(o)
    BY TellsWithin
  <2> QED BY <2>1, <1>0, <1>1, SomeIn
<1>4. h \notin About(o)
  BY <1>2, <1>3, Zenon DEF Replaces
<1>5. Single(new, About(o)) /\ ~Some(new, About(o))
  BY <1>4, WithoutSome
<1>6. Single(r, About(o))
  BY <1>2, <1>5, Zenon DEF Replaces
<1>7. h \notin Leaves(o)
  BY <1>4, TellsWithin
<1> QED BY <1>2, <1>6, <1>7

LEMMA OnceAsked ==
  ASSUME NEW q, NEW new \in Seq(Tasks), NEW h, NEW r, Replaces(q, new, h, r), NEW o,
         NEW listed, o \in listed, Single(new, About(o)), ~Some(Tail(q), About(o))
  PROVE  Once(r, listed, o)
<1>1. Single(r, About(o))
  BY Zenon DEF Replaces
<1> QED BY <1>1 DEF Once

(* What takes the place of a removal when it is taken apart. *)
Unfolds(q, new, h, here, listed) ==
  /\ Removing(new)
  /\ \A o : h \notin Tells(o) /\ h \notin Leaves(o)
  /\ \A o \in Records : h \in About(o) => h \in Asks(o)
  /\ \A o \in Records : Some(new, Asks(o)) =>
       o \in listed /\ Single(new, About(o)) /\ ~Some(Tail(q), About(o))
  /\ \A o \in Records : h \notin About(o) =>
       /\ Some(new, About(o)) => Some(new, Asks(o))
       /\ ~Some(new, Tells(o)) /\ ~Some(new, Leaves(o))
  /\ \A o \in Records : h \in Asks(o) =>
       /\ ~Some(new, Asks(o)) /\ Single(new, Tells(o)) /\ (Some(new, Tells(o)) <=> o \in here)
       /\ Preceded(new, Tells(o), Leaves(o))
  /\ Ordered(new) /\ (h \in OfMaps => All(new, OfMaps)) /\ (h \in Early => All(new, Early))
  /\ \A d \in RgDev : Followed(new, Leaves(d), Tells(d))

LEMMA RemovesOnly ==
  ASSUME NEW q \in Seq(Tasks), Removing(q), NEW o
  PROVE  /\ ~Some(q, Tells(o) \cap Brings) /\ ~Some(q, Tells(o) \cap News) /\ ~Some(q, Tells(o) \cap Changes)
<1>1. /\ (Tells(o) \cap Brings) \cap Ends = {} /\ (Tells(o) \cap News) \cap Ends = {}
      /\ (Tells(o) \cap Changes) \cap Ends = {}
  BY DEF Brings, News, Changes, Ends
<1> QED BY <1>1, RemovingVoid

LEMMA OrderedStays ==
  ASSUME NEW q, NEW new, NEW h, NEW r, Replaces(q, new, h, r), Ordered(q), Ordered(new),
         h \in OfMaps => All(new, OfMaps), h \in Early => All(new, Early)
  PROVE  Ordered(r)
BY Zenon DEF Ordered, Replaces

LEMMA KeptUnfolds ==
  ASSUME NEW q \in Seq(Tasks), q # << >>, NEW new \in Seq(Tasks), NEW h, h = Head(q), NEW r, r = new \o Tail(q),
         NEW told, NEW here, NEW listed, NEW devs, NEW watched \in SUBSET Records,
         Unfolds(q, new, h, here, listed), Kept(q, told, here, listed, devs, watched)
  PROVE  Kept(r, told, here, listed, devs, watched)
<1>1. Replaces(q, new, h, r)
  BY Goes
<1>2. Ordered(r)
  BY <1>1, OrderedStays DEF Unfolds, Kept
<1>3. ASSUME NEW o \in watched PROVE Fits(r, told, here, o)
  <2>0. o \in Records /\ Fits(q, told, here, o) /\ Once(q, listed, o) /\ h \notin Tells(o) /\ h \notin Leaves(o)
    BY DEF Kept, Unfolds
  <2>1. CASE h \notin About(o)
    <3>1. ~Some(new, Tells(o)) /\ ~Some(new, Leaves(o))
      BY <2>0, <2>1 DEF Unfolds
    <3> QED BY <1>1, <2>0, <3>1, FitsSpared
  <2>2. CASE h \in About(o)
    <3>1. h \in Asks(o)
      BY <2>0, <2>2 DEF Unfolds
    <3>2. /\ Single(new, Tells(o)) /\ (Some(new, Tells(o)) <=> o \in here)
          /\ Preceded(new, Tells(o), Leaves(o)) /\ Removing(new)
      BY <2>0, <3>1 DEF Unfolds
    <3>3. Some(q, Asks(o))
      BY <1>1, <3>1, Zenon DEF Replaces
    <3>4. Single(q, About(o))
      BY <2>0, <3>3 DEF Once
    <3>5. ~Some(Tail(q), About(o))
      BY <1>1, <2>2, <3>4, Zenon DEF Replaces
    <3> QED BY <1>1, <2>0, <3>2, <3>5, FitsTakenApart
  <2> QED BY <2>1, <2>2
<1>4. ASSUME NEW o \in Records PROVE Once(r, listed, o)
  <2>0. Once(q, listed, o) /\ h \notin Leaves(o)
    BY DEF Kept, Unfolds
  <2>1. CASE Some(new, Asks(o))
    <3>1. o \in listed /\ Single(new, About(o)) /\ ~Some(Tail(q), About(o))
      BY <2>1 DEF Unfolds
    <3> QED BY <1>1, <3>1, OnceAsked
  <2>2. CASE ~Some(new, Asks(o))
    <3>1. h \in About(o) \/ ~Some(new, About(o))
      BY <2>2 DEF Unfolds
    <3> QED BY <1>1, <2>0, <2>2, <3>1, OnceStays
  <2> QED BY <2>1, <2>2
<1>5. ASSUME NEW d \in RgDev PROVE FitsDev(r, told, devs, d)
  <2>1. FitsDev(q, told, devs, d) /\ h \notin Tells(d) /\ Followed(new, Leaves(d), Tells(d)) /\ Removing(new)
    BY DEF Kept, Unfolds
  <2>2. ~Some(new, Tells(d) \cap Brings)
    BY <2>1, RemovesOnly
  <2> QED BY <1>1, <2>1, <2>2, FitsDevGoesOn
<1> QED BY <1>2, <1>3, <1>4, <1>5 DEF Kept

(* While records are added, the head tells of one record at most, and nothing else does. *)
LEMMA WhileAddingKept ==
  ASSUME NEW q \in Seq(Tasks), Adding(q), NEW told, NEW here, NEW listed, NEW devs, NEW watched \in SUBSET Records,
         \A o \in watched :
            IF q # << >> /\ Head(q) \in Tells(o)
            THEN o \in here /\ (Head(q).e = "new" => told[o] = "none") /\ (Head(q).e = "modified" => told[o] = "there")
            ELSE told[o] = "there" <=> o \in here,
         \A d \in RgDev : /\ told[d] = "there" => d \in devs
                          /\ q # << >> /\ Head(q) \in Tells(d) => d \in devs
  PROVE  Kept(q, told, here, listed, devs, watched)
<1> DEFINE t == Tail(q)
           h == Head(q)
<1>1. ASSUME q # << >>
      PROVE  h \in Tasks /\ h \in Adds \cup Brings /\ t \in Seq(Tasks) /\ ~Some(t, Tasks \ Adds)
             /\ \A K : Some(q, K) <=> h \in K \/ Some(t, K)
  <2>1. h \in Tasks /\ t \in Seq(Tasks)
    BY <1>1, TailIs
  <2>2. \A K : Some(q, K) <=> h \in K \/ Some(t, K)
    BY <1>1, SomeTail
  <2> QED BY <1>1, <2>1, <2>2 DEF Adding
<1> HIDE DEF t, h
<1>2. ASSUME NEW K, K \cap Adds = {} PROVE Some(q, K) => q # << >> /\ h \in K \cap Brings
  <2>1. q # << >> => ~Some(t, K)
    <3>1. K \cap Tasks \subseteq Tasks \ Adds
      BY <1>2
    <3> QED BY <1>1, <3>1, SomeIn
  <2> QED BY <1>1, <1>2, <2>1, Nothing
<1>3. ASSUME NEW o PROVE Tells(o) \cap Adds = {} /\ About(o) \cap Adds = {} /\ Asks(o) \cap Adds = {}
  BY DEF Tells, Told, About, Asks, On, Kind, Adds
<1>4. ASSUME NEW K, K \cap Adds = {} PROVE Single(q, K) /\ Grouped(q, K)
  <2>1. CASE q = << >>
    BY <2>1, Nothing
  <2>2. CASE q # << >>
    <3>1. K \cap Tasks \subseteq Tasks \ Adds
      BY <1>4
    <3>2. ~Some(t, K)
      BY <1>1, <2>2, <3>1, SomeIn
    <3>3. q = <<h>> \o t /\ <<h>> \in Seq(Tasks)
      BY <2>2, <1>1, TailIs DEF t, h
    <3>4. Single(<<h>>, K) /\ Grouped(<<h>>, K)
      BY OneThing
    <3>5. Single(t, K)
      BY <3>2, WithoutSome
    <3> QED BY <1>1, <2>2, <3>2, <3>3, <3>4, <3>5, Joined
  <2> QED BY <2>1, <2>2
<1>5. Ordered(q)
  <2>1. OfMaps \cap Adds = {} /\ Early \cap Adds = {}
    BY DEF OfMaps, OfSigs, Early, Kind, Adds
  <2> QED BY <2>1, <1>4 DEF Ordered
<1>6. \A o : ~Some(q, Asks(o)) /\ ~Some(q, Leaves(o))
  <2>1. \A o : Asks(o) \cap Brings = {} /\ Leaves(o) \cap Brings = {} /\ Leaves(o) \cap Adds = {}
    BY DEF Asks, Leaves, On, Brings, Kind, Adds
  <2> QED BY <2>1, <1>2, <1>3
<1>7. ASSUME NEW o PROVE Some(q, Tells(o)) <=> q # << >> /\ h \in Tells(o)
  BY <1>1, <1>2, <1>3
<1>8. ASSUME NEW o \in watched PROVE Fits(q, told, here, o)
  <2>1. Single(q, Tells(o))
    BY <1>3, <1>4
  <2>2. ASSUME NEW X PROVE Some(q, Tells(o) \cap X) => q # << >> /\ h \in Tells(o) /\ h \in X /\ h \in Brings
    <3>1. (Tells(o) \cap X) \cap Adds = {}
      BY <1>3
    <3> QED BY <1>2, <3>1
  <2>3. Brings \cap Ends = {} /\ (h \in News => h.e = "new") /\ (h \in Changes => h.e = "modified")
    BY DEF Brings, Ends, News, Changes
  <2>4. ~Some(q, Tells(o) \cap Ends)
    BY <2>2, <2>3
  <2> QED BY <1>6, <1>7, <2>1, <2>2, <2>3, <2>4 DEF Fits, h
<1>9. \A o \in Records : Once(q, listed, o)
  BY <1>6 DEF Once
<1>10. ASSUME NEW d \in RgDev PROVE FitsDev(q, told, devs, d)
  <2>1. Followed(q, Leaves(d), Tells(d))
    BY <1>6, WithoutSome
  <2>2. Some(q, Tells(d) \cap Brings) => q # << >> /\ h \in Tells(d)
    <3>1. (Tells(d) \cap Brings) \cap Adds = {}
      BY <1>3
    <3> QED BY <1>2, <3>1
  <2> QED BY <2>1, <2>2 DEF FitsDev, h
<1> QED BY <1>5, <1>8, <1>9, <1>10 DEF Kept

(* Before a task that adds, and between two messages, what was told is what there is. *)
LEMMA ToldIsHere ==
  ASSUME NEW q \in Seq(Tasks), Adding(q), q = << >> \/ Head(q) \in Adds,
         NEW told, NEW here, NEW listed, NEW devs, NEW watched, Kept(q, told, here, listed, devs, watched)
  PROVE  /\ \A o \in watched : told[o] = "there" <=> o \in here
         /\ \A d \in RgDev : told[d] = "there" => d \in devs
<1>1. ASSUME NEW o PROVE ~Some(q, Tells(o))
  <2>1. Tells(o) \subseteq Tasks \ Adds
    BY DEF Tells, Told, Kind, Adds
  <2>2. CASE q = << >>
    BY <2>2, Nothing
  <2>3. CASE q # << >>
    <3>1. Tail(q) \in Seq(Tasks) /\ ~Some(Tail(q), Tasks \ Adds)
      BY <2>3, TailIs DEF Adding
    <3>2. ~Some(Tail(q), Tells(o))
      <4>1. Tells(o) \cap Tasks \subseteq Tasks \ Adds
        BY <2>1
      <4> QED BY <3>1, <4>1, SomeIn
    <3> QED BY <2>1, <2>3, <3>2, SomeTail
  <2> QED BY <2>2, <2>3
<1> QED BY <1>1 DEF Kept, Fits, FitsDev

-----------------------------------------------------------------------------
(* What removals are made of. A list of what is to be removed tells nobody and unlists nothing. *)
Asking(a, S) ==
  /\ a \in Seq(Tasks) /\ Removing(a)
  /\ \A o : Some(a, About(o)) <=> o \in S
  /\ \A o : Some(a, Asks(o)) <=> o \in S
  /\ \A o : Single(a, About(o)) /\ ~Some(a, Tells(o)) /\ ~Some(a, Leaves(o))

LEMMA AskMaps ==
  ASSUME NEW S \in SUBSET RgMap, NEW e \in {"removed", "expired"}, NEW a, a = RgEach("map", S, e)
  PROVE  Asking(a, S) /\ All(a, OfMaps) /\ All(a, Early)
<1> DEFINE T(m) == RgThing("map", m, e)
<1>1. e \in Events
  BY DEF Events
<1>2. /\ a \in Seq(Tasks)
      /\ \A K : Some(a, K) <=> \E m \in S : T(m) \in K
      /\ \A K : (\A o, p \in S : T(o) \in K /\ T(p) \in K => o = p) => Single(a, K)
      /\ \A K : (\A m \in S : T(m) \in K) => All(a, K)
  BY <1>1, EachMap
<1>3. \A m \in S : T(m) \in Tasks /\ T(m).do = "map" /\ T(m).o = m /\ T(m).e = e
  BY <1>1, ThingIs
<1> HIDE DEF T
<1>4. \A m \in S : T(m) \in OfMaps /\ T(m) \in Early /\ T(m) \in Ends
  BY <1>3, TellsIs
<1>5. \A o : \A m \in S : /\ T(m) \in About(o) <=> m = o
                          /\ T(m) \in Asks(o) <=> m = o
                          /\ T(m) \notin Tells(o) /\ T(m) \notin Leaves(o)
  BY <1>3, TellsIs
<1>6. Removing(a)
  BY <1>2, <1>4 DEF Removing
<1>7. ASSUME NEW o
      PROVE  /\ Some(a, About(o)) <=> o \in S
             /\ Some(a, Asks(o)) <=> o \in S
             /\ ~Some(a, Tells(o)) /\ ~Some(a, Leaves(o))
  <2>1. \A x \in S : /\ T(x) \in About(o) <=> x = o
                     /\ T(x) \in Asks(o) <=> x = o
                     /\ T(x) \notin Tells(o) /\ T(x) \notin Leaves(o)
    BY <1>5
  <2> QED BY <2>1, <1>2
<1>8. ASSUME NEW o PROVE Single(a, About(o))
  <2>1. \A x \in S : T(x) \in About(o) <=> x = o
    BY <1>5
  <2> QED BY <2>1, <1>2
<1> QED BY <1>2, <1>4, <1>6, <1>7, <1>8 DEF Asking

LEMMA AskSigs ==
  ASSUME NEW S \in SUBSET RgSig, NEW e \in {"removed", "expired"}, NEW a, a = RgEach("sig", S, e)
  PROVE  Asking(a, S) /\ ~Some(a, OfMaps) /\ All(a, Early)
<1> DEFINE T(s) == RgThing("sig", s, e)
<1>1. e \in Events
  BY DEF Events
<1>2. /\ a \in Seq(Tasks)
      /\ \A K : Some(a, K) <=> \E s \in S : T(s) \in K
      /\ \A K : (\A o, p \in S : T(o) \in K /\ T(p) \in K => o = p) => Single(a, K)
      /\ \A K : (\A s \in S : T(s) \in K) => All(a, K)
  BY <1>1, EachSig
<1>3. \A s \in S : T(s) \in Tasks /\ T(s).do = "sig" /\ T(s).o = s /\ T(s).e = e
  BY <1>1, ThingIs
<1> HIDE DEF T
<1>4. \A s \in S : T(s) \notin OfMaps /\ T(s) \in Early /\ T(s) \in Ends
  BY <1>3, TellsIs
<1>5. \A o : \A s \in S : /\ T(s) \in About(o) <=> s = o
                          /\ T(s) \in Asks(o) <=> s = o
                          /\ T(s) \notin Tells(o) /\ T(s) \notin Leaves(o)
  BY <1>3, TellsIs
<1>6. Removing(a)
  BY <1>2, <1>4 DEF Removing
<1>7. ASSUME NEW o
      PROVE  /\ Some(a, About(o)) <=> o \in S
             /\ Some(a, Asks(o)) <=> o \in S
             /\ ~Some(a, Tells(o)) /\ ~Some(a, Leaves(o))
  <2>1. \A x \in S : /\ T(x) \in About(o) <=> x = o
                     /\ T(x) \in Asks(o) <=> x = o
                     /\ T(x) \notin Tells(o) /\ T(x) \notin Leaves(o)
    BY <1>5
  <2> QED BY <2>1, <1>2
<1>8. ASSUME NEW o PROVE Single(a, About(o))
  <2>1. \A x \in S : T(x) \in About(o) <=> x = o
    BY <1>5
  <2> QED BY <2>1, <1>2
<1> QED BY <1>2, <1>4, <1>6, <1>7, <1>8 DEF Asking

LEMMA AskLinks ==
  ASSUME NEW S \in SUBSET Bonds, NEW e \in {"removed", "expired"}, NEW a, a = RgEach("link", S, e)
  PROVE  Asking(a, {}) /\ ~Some(a, OfMaps) /\ All(a, Early)
<1> DEFINE T(k) == RgThing("link", k, e)
<1>1. e \in Events
  BY DEF Events
<1>2. /\ a \in Seq(Tasks)
      /\ \A K : Some(a, K) <=> \E k \in S : T(k) \in K
      /\ \A K : (\A k \in S : T(k) \in K) => All(a, K)
  BY <1>1, EachLink
<1>3. \A k \in S : T(k) \in Tasks /\ T(k).do = "link" /\ T(k).e = e
  BY <1>1, ThingIs
<1> HIDE DEF T
<1>4. \A k \in S : T(k) \notin OfMaps /\ T(k) \in Early /\ T(k) \in Ends
  BY <1>3, TellsIs
<1>5. \A k \in S : \A o : T(k) \notin About(o) /\ T(k) \notin Asks(o) /\ T(k) \notin Tells(o) /\ T(k) \notin Leaves(o)
  BY <1>3, TellsIs
<1>6. Removing(a)
  BY <1>2, <1>4 DEF Removing
<1>7. \A o : ~Some(a, About(o)) /\ ~Some(a, Asks(o)) /\ ~Some(a, Tells(o)) /\ ~Some(a, Leaves(o))
  BY <1>2, <1>5
<1>8. \A o : Single(a, About(o))
  BY <1>7, WithoutSome
<1> QED BY <1>2, <1>4, <1>6, <1>7, <1>8 DEF Asking

LEMMA AskDevs ==
  ASSUME NEW S \in SUBSET RgDev, NEW e \in {"removed", "expired"}, NEW a, a = RgEach("dev", S, e)
  PROVE  Asking(a, {}) /\ ~Some(a, OfMaps) /\ ~Some(a, Early)
<1> DEFINE T(k) == RgThing("dev", k, e)
<1>1. e \in Events
  BY DEF Events
<1>2. /\ a \in Seq(Tasks)
      /\ \A K : Some(a, K) <=> \E k \in S : T(k) \in K
  BY <1>1, EachDev
<1>3. \A k \in S : T(k) \in Tasks /\ T(k).do = "dev" /\ T(k).e = e
  BY <1>1, ThingIs
<1> HIDE DEF T
<1>4. \A k \in S : T(k) \notin OfMaps /\ T(k) \notin Early /\ T(k) \in Ends
  BY <1>3, TellsIs
<1>5. \A k \in S : \A o : T(k) \notin About(o) /\ T(k) \notin Asks(o) /\ T(k) \notin Tells(o) /\ T(k) \notin Leaves(o)
  BY <1>3, TellsIs
<1>6. Removing(a)
  BY <1>2, <1>4 DEF Removing
<1>7. \A o : ~Some(a, About(o)) /\ ~Some(a, Asks(o)) /\ ~Some(a, Tells(o)) /\ ~Some(a, Leaves(o))
  BY <1>2, <1>5
<1>8. \A o : Single(a, About(o))
  BY <1>7, WithoutSome
<1> QED BY <1>2, <1>4, <1>6, <1>7, <1>8 DEF Asking

(* One thing to do. *)
LEMMA AskOne ==
  ASSUME NEW x \in Tasks, x \in Ends, NEW a, a = <<x>>
  PROVE  /\ x.do \in {"map", "sig"} => Asking(a, {x.o})
         /\ x.do \in {"link", "cut", "unlink", "dev", "sweep"} => Asking(a, {})
         /\ Ordered(a) /\ \A K : (Some(a, K) <=> x \in K) /\ (All(a, K) <=> x \in K)
<1>1. /\ a \in Seq(Tasks)
      /\ \A K : (Some(a, K) <=> x \in K) /\ (All(a, K) <=> x \in K) /\ Single(a, K) /\ Grouped(a, K)
  BY OneThing
<1>2. Removing(a)
  BY <1>1 DEF Removing
<1>3. ASSUME x.do \in {"map", "sig"} PROVE Asking(a, {x.o})
  <2>1. \A o : /\ x \in About(o) <=> o \in {x.o}
               /\ x \in Asks(o) <=> o \in {x.o}
               /\ x \notin Tells(o) /\ x \notin Leaves(o)
    BY <1>3, TellsIs
  <2> QED BY <1>1, <1>2, <2>1 DEF Asking
<1>4. ASSUME x.do \in {"link", "cut", "unlink", "dev", "sweep"} PROVE Asking(a, {})
  <2>1. \A o : x \notin About(o) /\ x \notin Asks(o) /\ x \notin Tells(o) /\ x \notin Leaves(o)
    BY <1>4, TellsIs
  <2> QED BY <1>1, <1>2, <2>1 DEF Asking
<1> QED BY <1>1, <1>3, <1>4 DEF Ordered

LEMMA AskBoth ==
  ASSUME NEW S, NEW a, Asking(a, S), NEW R, NEW b, Asking(b, R), S \cap R = {}
  PROVE  Asking(a \o b, S \cup R)
<1>1. a \in Seq(Tasks) /\ b \in Seq(Tasks)
  BY DEF Asking
<1>2. /\ a \o b \in Seq(Tasks)
      /\ \A K : Some(a \o b, K) <=> Some(a, K) \/ Some(b, K)
      /\ \A K : Single(a, K) /\ Single(b, K) /\ (~Some(a, K) \/ ~Some(b, K)) => Single(a \o b, K)
  BY <1>1, Joined
<1> DEFINE c == a \o b
<1> HIDE DEF c
<1>3. /\ c \in Seq(Tasks)
      /\ \A K : Some(c, K) <=> Some(a, K) \/ Some(b, K)
      /\ \A K : Single(a, K) /\ Single(b, K) /\ (~Some(a, K) \/ ~Some(b, K)) => Single(c, K)
  BY <1>2 DEF c
<1>4. Removing(c)
  BY <1>3 DEF Asking, Removing
<1>5. ASSUME NEW o
      PROVE  /\ Some(c, About(o)) <=> o \in S \cup R
             /\ Some(c, Asks(o)) <=> o \in S \cup R
             /\ Single(c, About(o)) /\ ~Some(c, Tells(o)) /\ ~Some(c, Leaves(o))
  BY <1>3 DEF Asking
<1> QED BY <1>3, <1>4, <1>5 DEF Asking, c

LEMMA AllIs ==
  ASSUME NEW a \in Seq(Tasks), NEW K
  PROVE  All(a, K) <=> ~Some(a, Tasks \ K)
<1>1. \A i \in DOMAIN a : a[i] \in Tasks
  OBVIOUS
<1> QED BY <1>1 DEF All, Some

(* The last that is done with a record: it leaves its list, is told of and is freed. *)
Parting(b, o) ==
  /\ b \in Seq(Tasks) /\ Removing(b) /\ \A x : ~Some(b, Asks(x))
  /\ \A x : /\ Some(b, About(x)) <=> x = o
            /\ Some(b, Tells(x)) <=> x = o
            /\ Some(b, Leaves(x)) <=> x = o
            /\ Single(b, Tells(x))
            /\ Preceded(b, Tells(x), Leaves(x)) /\ Followed(b, Leaves(x), Tells(x))
  /\ o \in RgMap => All(b, OfMaps)
  /\ o \notin RgMap => ~Some(b, OfMaps)
  /\ o \in Records => All(b, Early)
  /\ o \notin Records => ~Some(b, Early)

LEMMA LeaveTold ==
  ASSUME NEW o \in Objects, NEW e \in {"removed", "expired"}, NEW b,
         b = <<RgThing("unlist", o, e), RgCall(o, e), RgThing("free", o, e)>>
  PROVE  Parting(b, o)
<1> DEFINE u == RgThing("unlist", o, e)
           c == RgThing("call", o, e)
           f == RgThing("free", o, e)
<1>0. e \in Events /\ b = <<u, c, f>>
  BY DEF Events, RgCall
<1>1. /\ u \in Tasks /\ u.do = "unlist" /\ u.o = o /\ u.e = e
      /\ c \in Tasks /\ c.do = "call" /\ c.o = o /\ c.e = e
      /\ f \in Tasks /\ f.do = "free" /\ f.o = o /\ f.e = e
  BY <1>0, ThingIs
<1>2. /\ b \in Seq(Tasks)
      /\ \A K : Some(b, K) <=> u \in K \/ c \in K \/ f \in K
      /\ \A K : All(b, K) <=> u \in K /\ c \in K /\ f \in K
      /\ \A K, L : c \notin K /\ f \notin K /\ (c \in L \/ f \in L) => Followed(b, K, L)
      /\ \A K, L : u \notin K /\ f \notin K /\ u \in L => Preceded(b, K, L)
      /\ \A K : u \notin K /\ f \notin K => Single(b, K)
  BY <1>0, LeaveIs
<1> HIDE DEF u, c, f
<1>3. \A x : /\ u \in About(x) <=> x = o
             /\ c \in About(x) <=> x = o
             /\ f \in About(x) <=> x = o
             /\ u \notin Asks(x) /\ c \notin Asks(x) /\ f \notin Asks(x)
             /\ u \notin Tells(x) /\ f \notin Tells(x) /\ (c \in Tells(x) <=> x = o)
             /\ c \notin Leaves(x) /\ f \notin Leaves(x) /\ (u \in Leaves(x) <=> x = o)
  BY <1>1, TellsIs
<1>4. u \in Ends /\ c \in Ends /\ f \in Ends
  BY <1>1, TellsIs
<1>5. /\ u \in OfMaps <=> o \in RgMap
      /\ c \in OfMaps <=> o \in RgMap
      /\ f \in OfMaps <=> o \in RgMap
      /\ u \in Early <=> o \in Records
      /\ c \in Early <=> o \in Records
      /\ f \in Early <=> o \in Records
  BY <1>1, TellsIs DEF Records
<1>6. Removing(b)
  BY <1>2, <1>4 DEF Removing
<1>7. ASSUME NEW x
      PROVE  /\ Some(b, About(x)) <=> x = o
             /\ Some(b, Tells(x)) <=> x = o
             /\ Some(b, Leaves(x)) <=> x = o
             /\ ~Some(b, Asks(x)) /\ Single(b, Tells(x))
  BY <1>2, <1>3
<1>8. ASSUME NEW x
      PROVE  Preceded(b, Tells(x), Leaves(x)) /\ Followed(b, Leaves(x), Tells(x))
  <2>1. CASE x = o
    BY <2>1, <1>2, <1>3
  <2>2. CASE x # o
    BY <2>2, <1>7, WithoutSome
  <2> QED BY <2>1, <2>2
<1>9. /\ o \in RgMap => All(b, OfMaps)
      /\ o \notin RgMap => ~Some(b, OfMaps)
      /\ o \in Records => All(b, Early)
      /\ o \notin Records => ~Some(b, Early)
  BY <1>2, <1>5
<1> QED BY <1>2, <1>6, <1>7, <1>8, <1>9 DEF Parting

(* The same of a map, which is told of if it was active. *)
LEMMA RemoveMapTold ==
  ASSUME NEW m \in RgMap, NEW e \in {"removed", "expired"}, NEW b, b = RgRemoveMap(m, e)
  PROVE  /\ b \in Seq(Tasks) /\ Removing(b) /\ \A x : ~Some(b, Asks(x))
         /\ \A x : x # m => ~Some(b, About(x))
         /\ Some(b, Tells(m)) <=> rgMaps[m].is = "active"
         /\ Single(b, Tells(m)) /\ Preceded(b, Tells(m), Leaves(m))
         /\ All(b, OfMaps) /\ All(b, Early)
<1> DEFINE u == RgThing("unlist", m, e)
           c == RgThing("call", m, e)
           f == RgThing("free", m, e)
           s == IF rgMaps[m].is = "active" THEN <<c>> ELSE << >>
<1>0. e \in Events /\ m \in Objects /\ m \in Records
  BY DEF Events, Objects, Records
<1>1. /\ u \in Tasks /\ u.do = "unlist" /\ u.o = m /\ u.e = e
      /\ c \in Tasks /\ c.do = "call" /\ c.o = m /\ c.e = e
      /\ f \in Tasks /\ f.do = "free" /\ f.o = m /\ f.e = e
  BY <1>0, ThingIs
<1>2. /\ b \in Seq(Tasks)
      /\ \A K : Some(b, K) <=> u \in K \/ (rgMaps[m].is = "active" /\ c \in K) \/ f \in K
  BY <1>0, RemoveMapIs
<1>3. b = <<u>> \o s \o <<f>>
  BY DEF RgRemoveMap, RgCall
<1> HIDE DEF u, c, f
<1>4. \A x : /\ u \in About(x) <=> x = m
             /\ c \in About(x) <=> x = m
             /\ f \in About(x) <=> x = m
             /\ u \notin Asks(x) /\ c \notin Asks(x) /\ f \notin Asks(x)
             /\ u \notin Tells(x) /\ f \notin Tells(x) /\ (c \in Tells(x) <=> x = m)
             /\ u \in Leaves(x) <=> x = m
  BY <1>1, TellsIs
<1>5. u \in Ends /\ c \in Ends /\ f \in Ends
  BY <1>1, TellsIs
<1>6. /\ u \in OfMaps /\ c \in OfMaps /\ f \in OfMaps /\ u \in Early /\ c \in Early /\ f \in Early
  BY <1>1, TellsIs
<1>7. Removing(b)
  BY <1>2, <1>5 DEF Removing
<1>8. ASSUME NEW x
      PROVE  /\ x # m => ~Some(b, About(x))
             /\ Some(b, Tells(m)) <=> rgMaps[m].is = "active"
             /\ ~Some(b, Asks(x))
  BY <1>2, <1>4
<1>9. ~Some(b, Tasks \ OfMaps) /\ ~Some(b, Tasks \ Early)
  BY <1>2, <1>6
<1>10. All(b, OfMaps) /\ All(b, Early)
  BY <1>2, <1>9, AllIs
<1>11. <<u>> \in Seq(Tasks) /\ s \in Seq(Tasks) /\ <<f>> \in Seq(Tasks)
  BY <1>1
<1>12. Single(s, Tells(m)) /\ Single(<<u>>, Tells(m)) /\ ~Some(<<u>>, Tells(m)) /\ ~Some(<<f>>, Tells(m))
       /\ Single(<<f>>, Tells(m)) /\ Some(<<u>>, Leaves(m))
  BY <1>4, OneThing, Nothing
<1> HIDE DEF s
<1> DEFINE a == <<u>> \o s
<1>13. a \in Seq(Tasks) /\ Single(a, Tells(m)) /\ Preceded(a, Tells(m), Leaves(m)) /\ Some(a, Leaves(m))
  BY <1>11, <1>12, Joined
<1> HIDE DEF a
<1>14. b = a \o <<f>>
  BY <1>3 DEF a
<1>15. Single(b, Tells(m))
  BY <1>11, <1>12, <1>13, <1>14, SingleConcat
<1>16. Preceded(b, Tells(m), Leaves(m))
  BY <1>11, <1>13, <1>14, PrecededConcat
<1> QED BY <1>2, <1>7, <1>8, <1>10, <1>15, <1>16

LEMMA MapUnfolds ==
  ASSUME Inv, rgTodo # << >>, NEW h, h = Head(rgTodo), h.do = "map",
         NEW new, new = RgRemoveMap(h.o, h.e), h.o \in Listed
  PROVE  new \in Seq(Tasks) /\ Unfolds(rgTodo, new, h, Here, Listed)
<1> DEFINE m == h.o
<1>1. h \in Tasks /\ h.e \in {"removed", "expired"} /\ m \in RgMap
  BY HeadIs, TaskIs
<1>2. m \in RgListed /\ m \notin rgSigs
  BY <1>1, RgAssumption DEF Inv, Types, Listed
<1>3. m \in Here <=> rgMaps[m].is = "active"
  BY <1>2 DEF Here
<1>4. /\ new \in Seq(Tasks) /\ Removing(new) /\ \A x : ~Some(new, Asks(x))
      /\ \A x : x # m => ~Some(new, About(x))
      /\ Some(new, Tells(m)) <=> rgMaps[m].is = "active"
      /\ Single(new, Tells(m)) /\ Preceded(new, Tells(m), Leaves(m))
      /\ All(new, OfMaps) /\ All(new, Early)
  BY <1>1, RemoveMapTold
<1>5. \A o : /\ h \notin Tells(o) /\ h \notin Leaves(o)
             /\ h \in About(o) <=> o = m
             /\ h \in Asks(o) <=> o = m
  BY <1>1, TellsIs
<1>6. Ordered(new)
  BY <1>4 DEF Ordered, Grouped, All
<1>7. ASSUME NEW x, x # m PROVE ~Some(new, Tells(x)) /\ ~Some(new, Leaves(x))
  <2>1. ~Some(new, About(x)) /\ Tells(x) \cap Tasks \subseteq About(x) /\ Leaves(x) \cap Tasks \subseteq About(x)
    BY <1>4, <1>7, TellsWithin
  <2> QED BY <2>1, <1>4, SomeIn
<1>8. ASSUME NEW d \in RgDev PROVE Followed(new, Leaves(d), Tells(d))
  <2>1. d # m
    BY <1>1, RgAssumption
  <2> QED BY <2>1, <1>7, WithoutSome
<1> HIDE DEF m
<1> QED BY <1>3, <1>4, <1>5, <1>6, <1>7, <1>8 DEF Unfolds

(* What else is about a record is not left to do any more. *)
LEMMA TailHasNone ==
  ASSUME NEW q \in Seq(Tasks), q # << >>, NEW h, h = Head(q), Ordered(q)
  PROVE  /\ h \notin OfMaps => \A o \in RgMap : ~Some(Tail(q), About(o))
         /\ h \notin Early => \A o \in Records : ~Some(Tail(q), About(o))
<1>1. Tail(q) \in Seq(Tasks)
  BY TailIs
<1>2. /\ h \notin OfMaps => ~Some(Tail(q), OfMaps)
      /\ h \notin Early => ~Some(Tail(q), Early)
  BY GroupedTail DEF Ordered
<1>3. ASSUME NEW o \in RgMap, h \notin OfMaps PROVE ~Some(Tail(q), About(o))
  <2>1. About(o) \cap Tasks \subseteq OfMaps
    BY TellsWithin
  <2> QED BY <2>1, <1>1, <1>2, <1>3, SomeIn
<1>4. ASSUME NEW o \in Records, h \notin Early PROVE ~Some(Tail(q), About(o))
  <2>1. About(o) \cap Tasks \subseteq Early
    BY TellsWithin
  <2> QED BY <2>1, <1>1, <1>2, <1>4, SomeIn
<1> QED BY <1>3, <1>4

Joins(a, b, c) ==
  /\ a \in Seq(Tasks) /\ b \in Seq(Tasks) /\ c \in Seq(Tasks)
  /\ \A K : Some(c, K) <=> Some(a, K) \/ Some(b, K)
  /\ \A K, L : ~Some(a, K) /\ (Some(a, L) \/ Preceded(b, K, L)) => Preceded(c, K, L)
  /\ \A K, L : ~Some(a, K) /\ Followed(b, K, L) => Followed(c, K, L)
  /\ \A K : Single(a, K) /\ Single(b, K) /\ (~Some(a, K) \/ ~Some(b, K)) => Single(c, K)
  /\ \A K : Grouped(a, K) /\ ~Some(b, K) => Grouped(c, K)
  /\ \A K : All(a, K) /\ Grouped(b, K) => Grouped(c, K)
  /\ \A K : All(a, K) /\ All(b, K) => All(c, K)

LEMMA JoinedAs ==
  ASSUME NEW a \in Seq(Tasks), NEW b \in Seq(Tasks), NEW c, c = a \o b
  PROVE  Joins(a, b, c)
BY Joined, Zenon DEF Joins

(* Records to be removed, and then the last of what they refer to. *)
Goodbye(c, S, o) ==
  /\ c \in Seq(Tasks) /\ Removing(c)
  /\ \A x : /\ Some(c, About(x)) <=> x \in S \/ x = o
            /\ Some(c, Asks(x)) <=> x \in S
            /\ Some(c, Tells(x)) <=> x = o
            /\ Some(c, Leaves(x)) <=> x = o
            /\ x \in S => Single(c, About(x))
            /\ Single(c, Tells(x)) /\ Preceded(c, Tells(x), Leaves(x))
            /\ Followed(c, Leaves(x), Tells(x))

LEMMA AskThenLeave ==
  ASSUME NEW S, NEW a, Asking(a, S), NEW o, o \notin S, NEW b, Parting(b, o), NEW c, Joins(a, b, c)
  PROVE  Goodbye(c, S, o)
<1>1. Removing(c)
  BY DEF Removing, Asking, Parting, Joins
<1>2. ASSUME NEW x
      PROVE  /\ Some(c, About(x)) <=> x \in S \/ x = o
             /\ Some(c, Asks(x)) <=> x \in S
             /\ Some(c, Tells(x)) <=> x = o
             /\ Some(c, Leaves(x)) <=> x = o
  BY DEF Asking, Parting, Joins
<1>3. ASSUME NEW x \in S PROVE Single(c, About(x))
  <2>1. ~Some(b, About(x))
    BY DEF Parting
  <2>2. Single(b, About(x)) /\ Single(a, About(x))
    BY <2>1, WithoutSome DEF Asking
  <2> QED BY <2>1, <2>2 DEF Joins
<1>4. ASSUME NEW x
      PROVE  /\ Single(c, Tells(x)) /\ Preceded(c, Tells(x), Leaves(x)) /\ Followed(c, Leaves(x), Tells(x))
  <2>1. ~Some(a, Tells(x)) /\ ~Some(a, Leaves(x))
    BY DEF Asking
  <2>2. Single(a, Tells(x))
    BY <2>1, WithoutSome
  <2>3. Single(b, Tells(x)) /\ Preceded(b, Tells(x), Leaves(x)) /\ Followed(b, Leaves(x), Tells(x))
    BY DEF Parting
  <2> QED BY <2>1, <2>2, <2>3 DEF Joins
<1> QED BY <1>1, <1>2, <1>3, <1>4 DEF Goodbye, Joins

LEMMA SigUnfolds ==
  ASSUME Inv, rgTodo # << >>, NEW h, h = Head(rgTodo), h.do = "sig", Ordered(rgTodo),
         NEW new, new = RgRemoveSig(h.o, h.e), h.o \in Listed
  PROVE  new \in Seq(Tasks) /\ Unfolds(rgTodo, new, h, Here, Listed)
<1> DEFINE s == h.o
           e == h.e
           S == RgMapsOfSig(s)
           a == RgEach("map", S, e)
           b == <<RgThing("unlist", s, e), RgCall(s, e), RgThing("free", s, e)>>
           q == rgTodo
<1>1. h \in Tasks /\ h.e \in {"removed", "expired"} /\ s \in RgSig /\ q \in Seq(Tasks)
  BY HeadIs, TaskIs
<1>2. s \in Here /\ s \notin RgMap /\ s \in Objects /\ s \in Records
  BY <1>1, RgAssumption DEF Inv, Types, Listed, Here, Objects, Records
<1>3. S \in SUBSET RgMap /\ S \subseteq Listed
  BY DEF Inv, Types, RgMapsOfSig, Listed
<1>4. new = a \o b
  BY DEF RgRemoveSig
<1>5. a = RgEach("map", S, e) /\ b = <<RgThing("unlist", s, e), RgCall(s, e), RgThing("free", s, e)>>
  OBVIOUS
<1> HIDE DEF S, a, b, s, e
<1>6. Asking(a, S) /\ All(a, OfMaps) /\ All(a, Early)
  BY <1>1, <1>3, <1>5, AskMaps DEF e
<1>7. Parting(b, s)
  <2>1. e \in {"removed", "expired"}
    BY <1>1 DEF e
  <2> QED BY <2>1, <1>2, <1>5, LeaveTold
<1>8. Joins(a, b, new)
  BY <1>4, <1>6, <1>7, JoinedAs DEF Asking, Parting
<1>15. Goodbye(new, S, s)
  <2>1. s \notin S
    BY <1>2, <1>3
  <2> QED BY <2>1, <1>6, <1>7, <1>8, AskThenLeave
<1>9. Grouped(new, OfMaps) /\ All(new, Early)
  <2>1. Grouped(a, OfMaps)
    BY <1>6 DEF All, Grouped
  <2>2. ~Some(b, OfMaps) /\ All(b, Early)
    BY <1>2, <1>7 DEF Parting
  <2> QED BY <2>1, <2>2, <1>6, <1>8 DEF Joins
<1>10. Ordered(new)
  BY <1>9 DEF Ordered, All, Grouped
<1>11. \A o : /\ h \notin Tells(o) /\ h \notin Leaves(o) /\ h \notin OfMaps
              /\ h \in About(o) <=> o = s
              /\ h \in Asks(o) <=> o = s
  BY <1>1, <1>2, TellsIs DEF s
<1>12. \A o \in S : ~Some(Tail(q), About(o))
  BY <1>1, <1>3, <1>11, TailHasNone
<1> HIDE DEF q
<1>13. Unfolds(q, new, h, Here, Listed)
  BY <1>2, <1>3, <1>9, <1>10, <1>11, <1>12, <1>15 DEF Unfolds, Goodbye
<1> QED BY <1>13, <1>15 DEF q, Goodbye

(* A link, a device and the sweep are none of the records the program keeps account of. *)
Takes(new, S) ==
  /\ Removing(new) /\ Ordered(new)
  /\ \A x \in Records : /\ Some(new, About(x)) => x \in S
                        /\ x \in S => Some(new, Asks(x))
                        /\ x \in S => Single(new, About(x))
                        /\ ~Some(new, Tells(x)) /\ ~Some(new, Leaves(x))
  /\ \A d \in RgDev : Followed(new, Leaves(d), Tells(d))

LEMMA AskTakes ==
  ASSUME NEW new, NEW S, Asking(new, S), Ordered(new)
  PROVE  Takes(new, S)
<1>1. \A d \in RgDev : Followed(new, Leaves(d), Tells(d))
  BY WithoutSome DEF Asking
<1> QED BY <1>1 DEF Takes, Asking

LEMMA OthersUnfold ==
  ASSUME NEW q, NEW h \in Tasks, NEW new \in Seq(Tasks), NEW here, NEW listed,
         h.do \in {"link", "dev", "sweep"}, NEW S \in SUBSET Records, S \subseteq listed, Takes(new, S),
         \A x \in S : ~Some(Tail(q), About(x)), h.do # "link" \/ All(new, Early)
  PROVE  Unfolds(q, new, h, here, listed)
<1>1. \A o : h \notin Tells(o) /\ h \notin Leaves(o) /\ h \notin About(o) /\ h \notin Asks(o)
  BY TellsIs
<1>2. h \notin OfMaps /\ (h \in Early => h.do = "link")
  BY TellsIs
<1>3. ASSUME NEW x \in Records, Some(new, Asks(x)) PROVE x \in S
  <2>1. Asks(x) \cap Tasks \subseteq About(x)
    BY TellsWithin
  <2>2. Some(new, About(x))
    BY <2>1, <1>3, SomeIn
  <2> QED BY <2>2, Zenon DEF Takes
<1> QED BY <1>1, <1>2, <1>3 DEF Unfolds, Takes

LEMMA LinkUnfolds ==
  ASSUME Inv, rgTodo # << >>, NEW h, h = Head(rgTodo), h.do = "link", Ordered(rgTodo),
         NEW new, new = RgRemoveLink(h.o, h.e)
  PROVE  new \in Seq(Tasks) /\ Unfolds(rgTodo, new, h, Here, Listed)
<1> DEFINE k == h.o
           e == h.e
           S == RgMapsOfLink(k)
           x == RgThing("cut", k, e)
           a == RgEach("map", S, e)
           b == <<x>>
           q == rgTodo
<1>1. h \in Tasks /\ e \in {"removed", "expired"} /\ k \in Bonds /\ q \in Seq(Tasks)
  BY HeadIs, TaskIs
<1>2. S \in SUBSET RgMap /\ S \subseteq Listed /\ S \in SUBSET Records
  BY DEF Inv, Types, RgMapsOfLink, Listed, Records
<1>3. new = a \o b
  BY DEF RgRemoveLink
<1>4. x \in Tasks /\ x.do = "cut" /\ x.e = e
  BY <1>1, ThingIs DEF Events
<1> HIDE DEF S, x
<1>5. Asking(a, S) /\ All(a, OfMaps) /\ All(a, Early)
  BY <1>1, <1>2, AskMaps
<1>6. x \in Ends /\ x \notin OfMaps /\ x \in Early
  BY <1>1, <1>4, TellsIs
<1>7. b = <<x>>
  OBVIOUS
<1> HIDE DEF a, b
<1>8. Asking(b, {}) /\ ~Some(b, OfMaps) /\ All(b, Early)
  BY <1>4, <1>6, <1>7, AskOne
<1>9. Asking(new, S)
  <2>1. Asking(a \o b, S \cup {})
    BY <1>5, <1>8, AskBoth
  <2> QED BY <2>1, <1>3
<1>10. a \in Seq(Tasks) /\ b \in Seq(Tasks)
  BY <1>5, <1>8 DEF Asking
<1>11. Grouped(new, OfMaps) /\ All(new, Early)
  <2>1. Grouped(a, OfMaps)
    BY <1>5 DEF All, Grouped
  <2>2. /\ \A K : Grouped(a, K) /\ ~Some(b, K) => Grouped(new, K)
        /\ \A K : All(a, K) /\ All(b, K) => All(new, K)
    BY <1>3, <1>10, JoinedAs, Zenon DEF Joins
  <2> QED BY <2>1, <2>2, <1>5, <1>8
<1>12. Ordered(new)
  BY <1>11 DEF Ordered, All, Grouped
<1>13. h \notin OfMaps
  BY <1>1, TellsIs
<1>14. \A o \in S : ~Some(Tail(q), About(o))
  BY <1>1, <1>2, <1>13, TailHasNone
<1>15. Takes(new, S)
  BY <1>9, <1>12, AskTakes
<1> HIDE DEF q
<1>16. Unfolds(q, new, h, Here, Listed)
  <2>1. q # << >> /\ h = Head(q) /\ new \in Seq(Tasks) /\ h.do \in {"link", "dev", "sweep"} /\ S \subseteq Listed
    BY <1>2, <1>9 DEF q, Asking
  <2>2. h.do # "link" \/ All(new, Early)
    BY <1>11
  <2>3. h \in Tasks /\ S \in SUBSET Records /\ \A y \in S : ~Some(Tail(q), About(y))
    BY <1>1, <1>2, <1>14
  <2> QED BY <2>1, <2>2, <2>3, <1>15, OthersUnfold
<1> QED BY <1>9, <1>16 DEF q, Asking

LEMMA SweepUnfolds ==
  ASSUME Inv, rgTodo # << >>, NEW h, h = Head(rgTodo), h.do = "sweep", Ordered(rgTodo),
         NEW new, new = RgEach("sig", rgMarked \cap rgSigs, "removed")
  PROVE  new \in Seq(Tasks) /\ Unfolds(rgTodo, new, h, Here, Listed)
<1> DEFINE S == rgMarked \cap rgSigs
           q == rgTodo
<1>1. h \in Tasks /\ q \in Seq(Tasks)
  BY HeadIs
<1>2. S \in SUBSET RgSig /\ S \subseteq Listed /\ S \in SUBSET Records
  BY DEF Inv, Types, Listed, Records
<1> HIDE DEF S
<1>3. Asking(new, S) /\ ~Some(new, OfMaps) /\ All(new, Early)
  BY <1>2, AskSigs DEF S
<1>4. Ordered(new)
  BY <1>3, WithoutSome DEF Ordered, All, Grouped
<1>5. h \notin Early
  BY <1>1, TellsIs
<1>6. \A o \in S : ~Some(Tail(q), About(o))
  BY <1>1, <1>2, <1>5, TailHasNone
<1>7. Takes(new, S)
  BY <1>3, <1>4, AskTakes
<1> HIDE DEF q
<1>8. Unfolds(q, new, h, Here, Listed)
  <2>1. /\ q # << >> /\ h = Head(q) /\ new \in Seq(Tasks)
        /\ h.do \in {"link", "dev", "sweep"} /\ S \subseteq Listed /\ h.do # "link"
    BY <1>2, <1>3 DEF q, Asking
  <2> QED BY <2>1, <1>1, <1>2, <1>6, <1>7, OthersUnfold
<1> QED BY <1>3, <1>8 DEF q, Asking

(* What comes before a device leaves: its maps first, and nothing but records and links. *)
Fore(c, S) == Asking(c, S) /\ Grouped(c, OfMaps) /\ All(c, Early)

LEMMA ForeGrows ==
  ASSUME NEW S, NEW a, Fore(a, S), NEW R, NEW b, Asking(b, R), S \cap R = {},
         ~Some(b, OfMaps), All(b, Early), NEW c, c = a \o b, NEW SR, SR = S \cup R
  PROVE  Fore(c, SR)
<1>1. Asking(c, SR)
  BY AskBoth DEF Fore
<1>2. Joins(a, b, c)
  BY JoinedAs DEF Fore, Asking
<1>3. Grouped(c, OfMaps) /\ All(c, Early)
  BY <1>2 DEF Fore, Joins
<1> QED BY <1>1, <1>3 DEF Fore

LEMMA DevUnfolds ==
  ASSUME Inv, rgTodo # << >>, NEW h, h = Head(rgTodo), h.do = "dev", Ordered(rgTodo),
         NEW new, new = RgRemoveDev(h.o, h.e)
  PROVE  new \in Seq(Tasks) /\ Unfolds(rgTodo, new, h, Here, Listed)
<1> DEFINE d == h.o
           e == h.e
           S == RgMapsOfDev(d)
           R == RgSigsOfDev(d)
           L == RgLinksOf(d)
           x == RgThing("unlink", d, e)
           a1 == RgEach("map", S, e)
           a2 == <<x>>
           a3 == RgEach("link", L, e)
           a4 == RgEach("sig", R, e)
           b == <<RgThing("unlist", d, e), RgCall(d, e), RgThing("free", d, e)>>
           c2 == a1 \o a2
           c3 == c2 \o a3
           c4 == c3 \o a4
           q == rgTodo
           SR == S \cup R
<1>1. h \in Tasks /\ e \in {"removed", "expired"} /\ d \in RgDev /\ q \in Seq(Tasks)
  BY HeadIs, TaskIs
<1>2. S \in SUBSET RgMap /\ R \in SUBSET RgSig /\ L \in SUBSET Bonds /\ SR \subseteq Listed /\ SR \in SUBSET Records
  BY DEF Inv, Types, RgMapsOfDev, RgSigsOfDev, RgLinksOf, Listed, Records
<1>3. S \cap R = {} /\ d \in Objects /\ d \notin Records /\ d \notin RgMap
  BY <1>1, <1>2, RgAssumption DEF Objects, Records
<1>4. new = c4 \o b
  BY DEF RgRemoveDev
<1>5. x \in Tasks /\ x.do = "unlink" /\ x.e = e
  BY <1>1, ThingIs DEF Events
<1>6. /\ a1 = RgEach("map", S, e) /\ a2 = <<x>> /\ a3 = RgEach("link", L, e) /\ a4 = RgEach("sig", R, e)
      /\ b = <<RgThing("unlist", d, e), RgCall(d, e), RgThing("free", d, e)>>
      /\ c2 = a1 \o a2 /\ c3 = c2 \o a3 /\ c4 = c3 \o a4 /\ SR = S \cup R
  OBVIOUS
<1> HIDE DEF S, R, L, x, a1, a2, a3, a4, b, c2, c3, c4, SR, d, e
<1>7. Fore(a1, S)
  <2>1. Asking(a1, S) /\ All(a1, OfMaps) /\ All(a1, Early)
    BY <1>1, <1>2, <1>6, AskMaps
  <2> QED BY <2>1 DEF Fore, All, Grouped
<1>8. Asking(a2, {}) /\ ~Some(a2, OfMaps) /\ All(a2, Early)
  <2>1. x \in Ends /\ x \notin OfMaps /\ x \in Early
    BY <1>1, <1>5, TellsIs
  <2> QED BY <2>1, <1>5, <1>6, AskOne
<1>9. Asking(a3, {}) /\ ~Some(a3, OfMaps) /\ All(a3, Early)
  BY <1>1, <1>2, <1>6, AskLinks
<1>10. Asking(a4, R) /\ ~Some(a4, OfMaps) /\ All(a4, Early)
  BY <1>1, <1>2, <1>6, AskSigs
<1>11. Fore(c2, S) /\ Fore(c3, S)
  <2>1. S = S \cup {} /\ S \cap {} = {}
    OBVIOUS
  <2>2. Fore(c2, S)
    BY <2>1, <1>6, <1>7, <1>8, ForeGrows
  <2> QED BY <2>1, <2>2, <1>6, <1>9, ForeGrows
<1>13. Fore(c4, SR)
  BY <1>3, <1>6, <1>10, <1>11, ForeGrows
<1>14. Parting(b, d)
  BY <1>1, <1>3, <1>6, LeaveTold
<1>15. Joins(c4, b, new)
  BY <1>4, <1>13, <1>14, JoinedAs DEF Fore, Asking, Parting
<1>16. Goodbye(new, SR, d)
  <2>1. d \notin SR
    BY <1>2, <1>3
  <2> QED BY <2>1, <1>13, <1>14, <1>15, AskThenLeave DEF Fore
<1>17. Ordered(new)
  <2>1. ~Some(b, OfMaps) /\ ~Some(b, Early)
    BY <1>3, <1>14 DEF Parting
  <2>2. Grouped(c4, OfMaps) /\ Grouped(c4, Early)
    BY <1>13 DEF Fore, All, Grouped
  <2> QED BY <2>1, <2>2, <1>15 DEF Joins, Ordered
<1>18. Takes(new, SR)
  BY <1>3, <1>16, <1>17 DEF Takes, Goodbye
<1>19. \A o \in SR : ~Some(Tail(q), About(o))
  <2>1. h \notin Early
    BY <1>1, TellsIs
  <2> QED BY <2>1, <1>1, <1>2, TailHasNone
<1> HIDE DEF q
<1>20. Unfolds(q, new, h, Here, Listed)
  <2>1. new \in Seq(Tasks) /\ h.do \in {"link", "dev", "sweep"} /\ h.do # "link"
    BY <1>16 DEF Goodbye
  <2>2. h \in Tasks /\ SR \in SUBSET Records /\ SR \subseteq Listed
    BY <1>1, <1>2
  <2> QED BY <2>1, <2>2, <1>18, <1>19, OthersUnfold
<1> QED BY <1>16, <1>20 DEF q, Goodbye

(* Taking a removal apart. *)
LEMMA UnfoldsKept ==
  ASSUME Inv, Accounts, rgTodo # << >>, NEW new,
         rgCbs = << >> \/ (new \in Seq(Tasks) /\ Unfolds(rgTodo, new, Head(rgTodo), Here, Listed)),
         rgTodo' = new \o Tail(rgTodo), UNCHANGED <<rgLists, rgProgram>>
  PROVE  Accounts'
<1>1. UNCHANGED <<rgDevs, rgSigs, rgMaps, rgCbs, rgTold, rgMine>>
  BY DEF rgLists, rgProgram
<1>2. Here' = Here /\ Listed' = Listed /\ Watched' = Watched
  BY <1>1 DEF Here, Listed, Watched, RgListed
<1>3. \A o \in Watched : rgTold'[o] # "wrong"
  BY <1>1 DEF Accounts
<1>4. ASSUME rgCbs # << >> PROVE Kept(rgTodo', rgTold, Here, Listed, rgDevs, Watched)
  <2>1. Kept(rgTodo, rgTold, Here, Listed, rgDevs, Watched)
    BY <1>4 DEF Accounts
  <2>2. rgTodo \in Seq(Tasks) /\ Watched \in SUBSET Records
    BY DEF Inv, Types, Watched, Records
  <2>3. new \in Seq(Tasks) /\ Unfolds(rgTodo, new, Head(rgTodo), Here, Listed)
    BY <1>4
  <2> QED BY <2>1, <2>2, <2>3, KeptUnfolds
<1>5. rgCbs' # << >> => Kept(rgTodo', rgTold', Here', Listed', rgDevs', Watched')
  BY <1>1, <1>2, <1>4
<1> QED BY <1>2, <1>3, <1>5 DEF Accounts

LEMMA TakeApartTold ==
  ASSUME Inv, Accounts, RgTakeApart
  PROVE  Accounts'
<1> DEFINE h == Head(rgTodo)
           q == rgTodo
<1>1. PICK what \in {"map", "sig", "link", "dev"} :
        rgTodo # << >> /\ h.do = what /\ rgTodo' = RgRemove(what, h.o, h.e) \o Tail(rgTodo)
  BY DEF RgTakeApart, RgIs, RgThis, RgThen
<1>2. UNCHANGED <<rgLists, rgProgram>>
  BY DEF RgTakeApart
<1>3. h \in Tasks /\ q \in Seq(Tasks)
  BY <1>1, HeadIs
<1>4. rgCbs # << >> => Ordered(q) /\ \A o \in Records : Once(q, Listed, o)
  BY DEF Accounts, Kept
<1>5. ASSUME rgCbs # << >>, what \in {"map", "sig"} PROVE h.o \in Listed
  <2>1. h.o \in Records /\ h \in Asks(h.o)
    BY <1>1, <1>3, <1>5, TaskIs, TellsIs DEF Records
  <2>2. Some(q, Asks(h.o))
    BY <1>1, <1>3, <2>1, SomeTail
  <2> QED BY <2>1, <2>2, <1>4, <1>5 DEF Once
<1> DEFINE new == RgRemove(what, h.o, h.e)
<1>6. rgCbs = << >> \/ (new \in Seq(Tasks) /\ Unfolds(rgTodo, new, h, Here, Listed))
  <2>1. CASE rgCbs # << >> /\ what = "map"
    <3>1. new = RgRemoveMap(h.o, h.e) /\ h.o \in Listed
      BY <2>1, <1>5 DEF RgRemove
    <3> HIDE DEF new
    <3> QED BY <1>1, <2>1, <3>1, MapUnfolds
  <2>2. CASE rgCbs # << >> /\ what = "sig"
    <3>1. new = RgRemoveSig(h.o, h.e) /\ h.o \in Listed /\ Ordered(q)
      BY <2>2, <1>4, <1>5 DEF RgRemove
    <3> HIDE DEF new
    <3> QED BY <1>1, <2>2, <3>1, SigUnfolds
  <2>3. CASE rgCbs # << >> /\ what = "link"
    <3>1. new = RgRemoveLink(h.o, h.e) /\ Ordered(q)
      BY <2>3, <1>4 DEF RgRemove
    <3> HIDE DEF new
    <3> QED BY <1>1, <2>3, <3>1, LinkUnfolds
  <2>4. CASE rgCbs # << >> /\ what = "dev"
    <3>1. new = RgRemoveDev(h.o, h.e) /\ Ordered(q)
      BY <2>4, <1>4 DEF RgRemove
    <3> HIDE DEF new
    <3> QED BY <1>1, <2>4, <3>1, DevUnfolds
  <2> QED BY <2>1, <2>2, <2>3, <2>4
<1> HIDE DEF new
<1>7. rgTodo' = new \o Tail(rgTodo)
  BY <1>1 DEF new
<1> QED BY <1>1, <1>2, <1>6, <1>7, UnfoldsKept

LEMMA SweepTold ==
  ASSUME Inv, Accounts, RgSweepSigs
  PROVE  Accounts'
<1> DEFINE h == Head(rgTodo)
           new == RgEach("sig", rgMarked \cap rgSigs, "removed")
<1>1. rgTodo # << >> /\ h.do = "sweep" /\ rgTodo' = new \o Tail(rgTodo) /\ UNCHANGED <<rgLists, rgProgram>>
  BY DEF RgSweepSigs, RgIs, RgThis, RgThen
<1>2. rgCbs = << >> \/ Ordered(rgTodo)
  BY DEF Accounts, Kept
<1>3. new = RgEach("sig", rgMarked \cap rgSigs, "removed")
  OBVIOUS
<1> HIDE DEF new
<1>4. rgCbs = << >> \/ (new \in Seq(Tasks) /\ Unfolds(rgTodo, new, h, Here, Listed))
  BY <1>1, <1>2, <1>3, SweepUnfolds
<1> QED BY <1>1, <1>4, UnfoldsKept

(* Taking one thing off the list. *)
LEMMA OneGone ==
  ASSUME NEW q \in Seq(Tasks), q # << >>, NEW h, h = Head(q), NEW r, r = << >> \o Tail(q),
         NEW told, NEW here, NEW listed, NEW devs, NEW watched \in SUBSET Records,
         Kept(q, told, here, listed, devs, watched)
  PROVE  /\ Replaces(q, << >>, h, r) /\ Ordered(r) /\ r \in Seq(Tasks) /\ h \in Tasks
         /\ \A o \in watched : o \in Records /\ Fits(q, told, here, o)
         /\ \A o \in Records : Once(q, listed, o)
         /\ \A d \in RgDev : FitsDev(q, told, devs, d)
         /\ \A K : ~Some(<< >>, K) /\ All(<< >>, K) /\ Single(<< >>, K)
         /\ \A K, L : Followed(<< >>, K, L)
<1>1. << >> \in Seq(Tasks)
  OBVIOUS
<1>2. Replaces(q, << >>, h, r)
  BY <1>1, Goes
<1>3. /\ \A K : ~Some(<< >>, K) /\ All(<< >>, K) /\ Single(<< >>, K) /\ Grouped(<< >>, K)
      /\ \A K, L : Followed(<< >>, K, L)
  BY Nothing
<1>4. Ordered(<< >>)
  BY <1>3 DEF Ordered
<1>5. Ordered(r)
  BY <1>2, <1>3, <1>4, OrderedStays DEF Kept
<1>6. r \in Seq(Tasks) /\ h \in Tasks
  BY <1>2 DEF Replaces
<1> QED BY <1>2, <1>3, <1>5, <1>6 DEF Kept

LEMMA UnlistKept ==
  ASSUME NEW q \in Seq(Tasks), q # << >>, Removing(q), NEW h, h = Head(q), h.do = "unlist",
         NEW r, r = << >> \o Tail(q),
         NEW told, NEW here, NEW listed, NEW devs, NEW watched \in SUBSET Records,
         Kept(q, told, here, listed, devs, watched)
  PROVE  Kept(r, told, here \ {h.o}, listed \ {h.o}, devs \ {h.o}, watched)
<1> DEFINE here2 == here \ {h.o}
           listed2 == listed \ {h.o}
           devs2 == devs \ {h.o}
<1>1. /\ Replaces(q, << >>, h, r) /\ Ordered(r) /\ r \in Seq(Tasks) /\ h \in Tasks
      /\ \A o \in watched : o \in Records /\ Fits(q, told, here, o)
      /\ \A o \in Records : Once(q, listed, o)
      /\ \A d \in RgDev : FitsDev(q, told, devs, d)
      /\ \A K : ~Some(<< >>, K) /\ All(<< >>, K) /\ Single(<< >>, K)
      /\ \A K, L : Followed(<< >>, K, L)
  BY OneGone
<1>2. << >> \in Seq(Tasks)
  OBVIOUS
<1>8. Removing(r)
  BY <1>1, Zenon DEF Removing, Replaces
<1>7. /\ \A o : h.o = o => o \notin here2
      /\ \A o : h.o # o => (o \in here2 /\ o \in here) \/ (o \notin here2 /\ o \notin here)
      /\ \A o : h.o # o => o \notin listed \/ o \in listed2
      /\ \A o : h.o # o => o \notin devs \/ o \in devs2
  OBVIOUS
<1> HIDE DEF here2, listed2, devs2
<1>3. \A o : (h \in Leaves(o) <=> h.o = o) /\ h \notin Tells(o)
  BY <1>1, TellsIs
<1>4. ASSUME NEW o \in watched PROVE Fits(r, told, here2, o)
  <2>0. Fits(q, told, here, o) /\ ~Some(<< >>, Tells(o)) /\ ~Some(<< >>, Leaves(o))
    BY <1>1
  <2>1. CASE h.o = o
    <3>1. o \notin here2 /\ h \in Leaves(o)
      BY <2>1, <1>3, <1>7
    <3> QED BY <2>0, <3>1, <1>1, <1>8, FitsUnlisted
  <2>2. CASE h.o # o
    <3>1. /\ (o \in here2 /\ o \in here) \/ (o \notin here2 /\ o \notin here)
          /\ h \notin Leaves(o) /\ h \notin Tells(o)
      BY <2>2, <1>3, <1>7
    <3> QED BY <2>0, <3>1, <1>1, <1>2, FitsSpared
  <2> QED BY <2>1, <2>2
<1>5. ASSUME NEW o \in Records PROVE Once(r, listed2, o)
  <2>1. Once(q, listed, o) /\ ~Some(<< >>, Asks(o)) /\ ~Some(<< >>, About(o)) /\ Replaces(q, << >>, h, r)
    BY <1>1
  <2>2. o \notin listed \/ h \in Leaves(o) \/ o \in listed2
    BY <1>3, <1>7
  <2> QED BY <2>1, <2>2, <1>2, OnceStays
<1>6. ASSUME NEW d \in RgDev PROVE FitsDev(r, told, devs2, d)
  <2>0. /\ FitsDev(q, told, devs, d) /\ Followed(<< >>, Leaves(d), Tells(d)) /\ ~Some(<< >>, Tells(d) \cap Brings)
        /\ Replaces(q, << >>, h, r)
    BY <1>1
  <2>1. CASE h.o = d
    <3>1. h \in Leaves(d)
      BY <2>1, <1>3
    <3> QED BY <2>0, <3>1, <1>8, FitsDevUnlisted
  <2>2. CASE h.o # d
    <3>1. (d \notin devs \/ d \in devs2) /\ h \notin Tells(d)
      BY <2>2, <1>3, <1>7
    <3> QED BY <2>0, <3>1, <1>2, FitsDevGoesOn
  <2> QED BY <2>1, <2>2
<1> QED BY <1>1, <1>4, <1>5, <1>6 DEF Kept, here2, listed2, devs2

LEMMA OneKept ==
  ASSUME NEW q \in Seq(Tasks), q # << >>, NEW h, h = Head(q),
         h.do \in {"cut", "free", "unlink"} \/ (h.do = "walk" /\ h.rest = << >>),
         NEW r, r = << >> \o Tail(q),
         NEW told, NEW here, NEW listed, NEW devs, NEW watched \in SUBSET Records,
         Kept(q, told, here, listed, devs, watched)
  PROVE  Kept(r, told, here, listed, devs, watched)
<1>1. /\ Replaces(q, << >>, h, r) /\ Ordered(r) /\ r \in Seq(Tasks) /\ h \in Tasks
      /\ \A o \in watched : o \in Records /\ Fits(q, told, here, o)
      /\ \A o \in Records : Once(q, listed, o)
      /\ \A d \in RgDev : FitsDev(q, told, devs, d)
      /\ \A K : ~Some(<< >>, K) /\ All(<< >>, K) /\ Single(<< >>, K)
      /\ \A K, L : Followed(<< >>, K, L)
  BY OneGone
<1>2. << >> \in Seq(Tasks)
  OBVIOUS
<1>3. \A o : h \notin Leaves(o) /\ h \notin Tells(o)
  BY <1>1, TellsIs
<1>4. ASSUME NEW o \in watched PROVE Fits(r, told, here, o)
  <2>1. Fits(q, told, here, o) /\ ~Some(<< >>, Tells(o)) /\ ~Some(<< >>, Leaves(o)) /\ Replaces(q, << >>, h, r)
    BY <1>1
  <2> QED BY <2>1, <1>2, <1>3, FitsSpared
<1>5. ASSUME NEW o \in Records PROVE Once(r, listed, o)
  <2>1. Once(q, listed, o) /\ ~Some(<< >>, Asks(o)) /\ ~Some(<< >>, About(o)) /\ Replaces(q, << >>, h, r)
    BY <1>1
  <2> QED BY <2>1, <1>2, OnceStays
<1>6. ASSUME NEW d \in RgDev PROVE FitsDev(r, told, devs, d)
  <2>0. /\ FitsDev(q, told, devs, d) /\ Followed(<< >>, Leaves(d), Tells(d)) /\ ~Some(<< >>, Tells(d) \cap Brings)
        /\ Replaces(q, << >>, h, r)
    BY <1>1
  <2> QED BY <2>0, <1>2, <1>3, FitsDevGoesOn
<1> QED BY <1>1, <1>4, <1>5, <1>6 DEF Kept

LEMMA UnlistTold ==
  ASSUME Inv, Accounts, RgUnlist
  PROVE  Accounts'
<1> DEFINE h == Head(rgTodo)
<1>1. /\ rgTodo # << >> /\ h.do = "unlist" /\ rgTodo' = << >> \o Tail(rgTodo) /\ UNCHANGED rgProgram
      /\ rgDevs' = rgDevs \ {h.o} /\ rgSigs' = rgSigs \ {h.o}
      /\ rgMaps' = [m \in RgListed \ {h.o} |-> rgMaps[m]]
  BY DEF RgUnlist, RgIs, RgThis, RgThen
<1>2. rgTodo \in Seq(Tasks) /\ Removing(rgTodo)
  BY <1>1, HeadIs
<1>3. UNCHANGED <<rgCbs, rgTold, rgMine>>
  BY <1>1 DEF rgProgram
<1>4. Watched' = Watched /\ Watched \in SUBSET Records
  BY <1>3 DEF Watched, Records
<1> HIDE DEF h
<1>5. RgListed' = RgListed \ {h.o} /\ \A m \in RgListed \ {h.o} : rgMaps'[m] = rgMaps[m]
  BY <1>1 DEF RgListed
<1>6. Here' = Here \ {h.o} /\ Listed' = Listed \ {h.o}
  BY <1>1, <1>5 DEF Here, Listed
<1>7. ASSUME rgCbs # << >>
      PROVE  Kept(rgTodo', rgTold, Here \ {h.o}, Listed \ {h.o}, rgDevs \ {h.o}, Watched)
  <2>1. Kept(rgTodo, rgTold, Here, Listed, rgDevs, Watched)
    BY <1>7 DEF Accounts
  <2>2. h = Head(rgTodo)
    BY DEF h
  <2> QED BY <1>1, <1>2, <1>4, <2>1, <2>2, UnlistKept
<1> QED BY <1>1, <1>3, <1>4, <1>6, <1>7 DEF Accounts

(* A step that takes something else off the list. *)
LEMMA OneTold ==
  ASSUME Inv, Accounts, rgTodo # << >>,
         Head(rgTodo).do \in {"cut", "free", "unlink"} \/ (Head(rgTodo).do = "walk" /\ Head(rgTodo).rest = << >>),
         rgTodo' = << >> \o Tail(rgTodo), UNCHANGED <<rgDevs, rgSigs, rgMaps, rgProgram>>
  PROVE  Accounts'
<1>1. rgTodo \in Seq(Tasks)
  BY DEF Inv, Types
<1>2. UNCHANGED <<rgCbs, rgTold, rgMine>>
  BY DEF rgProgram
<1>3. Watched' = Watched /\ Watched \in SUBSET Records /\ Here' = Here /\ Listed' = Listed
  BY <1>2 DEF Watched, Records, Here, Listed, RgListed
<1>4. ASSUME rgCbs # << >> PROVE Kept(rgTodo', rgTold, Here, Listed, rgDevs, Watched)
  <2>1. Kept(rgTodo, rgTold, Here, Listed, rgDevs, Watched)
    BY <1>4 DEF Accounts
  <2> QED BY <1>1, <1>3, <2>1, OneKept
<1> QED BY <1>2, <1>3, <1>4 DEF Accounts

LEMMA CutTold ==
  ASSUME Inv, Accounts, RgCut
  PROVE  Accounts'
<1>1. rgTodo # << >> /\ Head(rgTodo).do = "cut" /\ rgTodo' = << >> \o Tail(rgTodo)
  BY DEF RgCut, RgIs, RgThen
<1>2. UNCHANGED <<rgDevs, rgSigs, rgMaps, rgProgram>>
  BY DEF RgCut
<1> QED BY <1>1, <1>2, OneTold

LEMMA FreedTold ==
  ASSUME Inv, Accounts, RgFreed
  PROVE  Accounts'
<1>1. rgTodo # << >> /\ Head(rgTodo).do = "free" /\ rgTodo' = << >> \o Tail(rgTodo)
  BY DEF RgFreed, RgIs, RgThen
<1>2. UNCHANGED <<rgDevs, rgSigs, rgMaps, rgProgram>>
  BY DEF RgFreed
<1> QED BY <1>1, <1>2, OneTold

LEMMA UnlinkTold ==
  ASSUME Inv, Accounts, RgUnlink
  PROVE  Accounts'
<1>1. rgTodo # << >> /\ Head(rgTodo).do = "unlink" /\ rgTodo' = << >> \o Tail(rgTodo)
  BY DEF RgUnlink, RgIs, RgThen
<1>2. UNCHANGED <<rgDevs, rgSigs, rgMaps, rgProgram>>
  BY DEF RgUnlink
<1> QED BY <1>1, <1>2, OneTold

(* The handlers are called, or the next of them. *)
LEMMA WalkWithin ==
  ASSUME NEW h \in Tasks, NEW w \in Tasks, h.do \in {"call", "walk"}, w.do = "walk", w.o = h.o, w.e = h.e
  PROVE  /\ Ordered(<<w>>) /\ (h \notin OfMaps \/ All(<<w>>, OfMaps)) /\ (h \notin Early \/ All(<<w>>, Early))
         /\ \A o : /\ ~Some(<<w>>, Asks(o)) /\ ~Some(<<w>>, Leaves(o)) /\ h \notin Leaves(o) /\ w \notin Leaves(o)
                   /\ h \in About(o) \/ ~Some(<<w>>, About(o))
                   /\ w.rest = << >> => ~Some(<<w>>, Tells(o))
                   /\ w.rest # << >> /\ h.o = o => w \in Tells(o)
                   /\ h.o # o => h \notin Tells(o) /\ ~Some(<<w>>, Tells(o))
                   /\ Followed(<<w>>, Leaves(o), Tells(o))
<1>1. \A K : (Some(<<w>>, K) <=> w \in K) /\ (All(<<w>>, K) <=> w \in K) /\ Grouped(<<w>>, K)
  BY OneThing
<1>2. \A K, L : w \notin K => Followed(<<w>>, K, L)
  BY OneThing
<1>3. (h \in OfMaps <=> w \in OfMaps) /\ (h \in Early <=> w \in Early)
  BY TellsIs
<1>4. ASSUME NEW o
      PROVE  /\ w \notin Asks(o) /\ w \notin Leaves(o) /\ h \notin Leaves(o)
             /\ h \in About(o) \/ w \notin About(o)
             /\ w.rest = << >> => w \notin Tells(o)
             /\ w.rest # << >> /\ h.o = o => w \in Tells(o)
             /\ h.o # o => h \notin Tells(o) /\ w \notin Tells(o)
  BY TellsIs
<1> QED BY <1>1, <1>2, <1>3, <1>4 DEF Ordered

LEMMA CallKept ==
  ASSUME NEW q \in Seq(Tasks), q # << >>, NEW h, h = Head(q), h.do \in {"call", "walk"},
         h.do = "call" \/ h.rest # << >>,
         NEW w \in Tasks, w.do = "walk", w.o = h.o, w.e = h.e, w.rest # << >>, NEW r, r = <<w>> \o Tail(q),
         NEW told, NEW here, NEW listed, NEW devs, NEW watched \in SUBSET Records,
         Kept(q, told, here, listed, devs, watched)
  PROVE  Kept(r, told, here, listed, devs, watched)
<1> DEFINE new == <<w>>
<1>0. new \in Seq(Tasks) /\ r = new \o Tail(q)
  OBVIOUS
<1>1. h \in Tasks
  BY TailIs
<1>2. /\ Ordered(new) /\ (h \notin OfMaps \/ All(new, OfMaps)) /\ (h \notin Early \/ All(new, Early))
      /\ \A o : /\ ~Some(new, Asks(o)) /\ ~Some(new, Leaves(o)) /\ h \notin Leaves(o) /\ w \notin Leaves(o)
                /\ h \in About(o) \/ ~Some(new, About(o))
                /\ h.o = o => w \in Tells(o)
                /\ h.o # o => h \notin Tells(o) /\ ~Some(new, Tells(o))
                /\ Followed(new, Leaves(o), Tells(o))
  BY <1>1, WalkWithin
<1>3. \A K : Some(new, K) <=> w \in K
  BY OneThing
<1>4. \A o : h.o = o => h \in Tells(o)
  BY <1>1, TellsIs
<1>5. h \in Brings <=> w \in Brings
  BY <1>1, TellsIs
<1>6. Replaces(q, new, h, r)
  BY <1>0, Goes
<1>7. Replaces(q, <<w>>, h, r)
  BY <1>6
<1> HIDE DEF new
<1>8. /\ \A o \in watched : Fits(q, told, here, o)
      /\ \A o \in Records : Once(q, listed, o)
      /\ \A d \in RgDev : FitsDev(q, told, devs, d)
      /\ Ordered(q)
  BY DEF Kept
<1>9. Ordered(r)
  <2>1. (h \in OfMaps => All(new, OfMaps)) /\ (h \in Early => All(new, Early))
    BY <1>2
  <2> QED BY <2>1, <1>2, <1>6, <1>8, OrderedStays
<1>10. ASSUME NEW o \in watched PROVE Fits(r, told, here, o)
  <2>1. Fits(q, told, here, o)
    BY <1>8
  <2>2. CASE h.o = o
    <3>1. h \in Tells(o) /\ w \in Tells(o)
      BY <2>2, <1>2, <1>4
    <3> QED BY <2>1, <3>1, <1>7, FitsGoesOn
  <2>3. CASE h.o # o
    <3>1. h \notin Tells(o) /\ ~Some(new, Tells(o)) /\ h \notin Leaves(o) /\ ~Some(new, Leaves(o))
      BY <2>3, <1>2
    <3> QED BY <2>1, <3>1, <1>0, <1>6, FitsSpared
  <2> QED BY <2>2, <2>3
<1>11. ASSUME NEW o \in Records PROVE Once(r, listed, o)
  <2>1. Once(q, listed, o) /\ ~Some(new, Asks(o)) /\ (h \in About(o) \/ ~Some(new, About(o)))
    BY <1>2, <1>8
  <2> QED BY <2>1, <1>0, <1>6, OnceStays
<1>12. ASSUME NEW d \in RgDev PROVE FitsDev(r, told, devs, d)
  <2>1. FitsDev(q, told, devs, d) /\ Followed(new, Leaves(d), Tells(d))
    BY <1>2, <1>8
  <2>2. h \notin Tells(d) \/ Some(new, Tells(d))
    BY <1>2, <1>3
  <2>3. ~Some(new, Tells(d) \cap Brings) \/ d \in devs
    <3>1. CASE w \notin Tells(d) \cap Brings
      BY <3>1, <1>3
    <3>2. CASE w \in Tells(d) \cap Brings
      <4>1. h \in Tells(d)
        BY <3>2, <1>2, <1>3, <1>4
      <4>2. h \in Tells(d) \cap Brings
        BY <3>2, <4>1, <1>5
      <4>3. Some(q, Tells(d) \cap Brings)
        BY <4>2, <1>6, Zenon DEF Replaces
      <4> QED BY <4>3, <2>1 DEF FitsDev
    <3> QED BY <3>1, <3>2
  <2> QED BY <2>1, <2>2, <2>3, <1>0, <1>6, FitsDevGoesOn
<1> QED BY <1>9, <1>10, <1>11, <1>12 DEF Kept

(* What was told before and after the first handler was told of o. *)
Heard(o, e, told, told2) ==
  /\ \A x \in Objects : x = o \/ told2[x] = told[x]
  /\ o \notin Records \/ Hears(o, e, told, told2)
  /\ o \notin RgDev \/ told2[o] # "there" \/ e \in {"new", "modified"}

(* q becomes r when the first handler was called for h, its head; w is what remains of h. *)
FirstCalled(q, h, w, r) ==
  /\ q \in Seq(Tasks) /\ q # << >> /\ h = Head(q) /\ h.do = "walk" /\ h.rest # << >>
  /\ h \notin Brings \/ Adding(q)
  /\ w \in Tasks /\ w.do = "walk" /\ w.o = h.o /\ w.e = h.e /\ w.rest = << >> /\ r = <<w>> \o Tail(q)

LEMMA TellKept ==
  ASSUME NEW q, NEW h, NEW w, NEW r, FirstCalled(q, h, w, r),
         NEW told, NEW here, NEW listed, NEW devs, NEW watched \in SUBSET Records,
         Kept(q, told, here, listed, devs, watched), NEW told2, Heard(h.o, h.e, told, told2)
  PROVE  Kept(r, told2, here, listed, devs, watched) /\ (h.o \notin watched \/ told2[h.o] # "wrong")
<1>13. /\ q \in Seq(Tasks) /\ q # << >> /\ h = Head(q) /\ h.do = "walk" /\ h.rest # << >>
       /\ h \notin Brings \/ Adding(q)
       /\ w \in Tasks /\ w.do = "walk" /\ w.o = h.o /\ w.e = h.e /\ w.rest = << >> /\ r = <<w>> \o Tail(q)
  BY DEF FirstCalled
<1> DEFINE new == <<w>>
<1>0. new \in Seq(Tasks) /\ r = new \o Tail(q)
  BY <1>13
<1>11. /\ \A o \in Objects : o = h.o \/ told2[o] = told[o]
       /\ h.o \notin Records \/ Hears(h.o, h.e, told, told2)
       /\ h.o \notin RgDev \/ told2[h.o] # "there" \/ h.e \in {"new", "modified"}
  BY DEF Heard
<1>1. h \in Tasks
  BY <1>13, TailIs
<1>2. /\ Ordered(new) /\ (h \notin OfMaps \/ All(new, OfMaps)) /\ (h \notin Early \/ All(new, Early))
      /\ \A o : /\ ~Some(new, Asks(o)) /\ ~Some(new, Leaves(o)) /\ h \notin Leaves(o)
                /\ h \in About(o) \/ ~Some(new, About(o))
                /\ ~Some(new, Tells(o))
                /\ h.o # o => h \notin Tells(o)
                /\ Followed(new, Leaves(o), Tells(o))
  BY <1>1, <1>13, WalkWithin
<1>3. \A o : h.o = o => h \in Tells(o)
  BY <1>1, <1>13, TellsIs
<1>4. h.e \in {"new", "modified"} => h \in Brings
  BY <1>1, <1>13, TellsIs
<1>5. Replaces(q, new, h, r)
  BY <1>0, <1>13, Goes
<1> HIDE DEF new
<1>6. /\ \A o \in watched : Fits(q, told, here, o)
      /\ \A o \in Records : Once(q, listed, o)
      /\ \A d \in RgDev : FitsDev(q, told, devs, d)
      /\ Ordered(q)
  BY DEF Kept
<1>7. Ordered(r)
  <2>1. (h \in OfMaps => All(new, OfMaps)) /\ (h \in Early => All(new, Early))
    BY <1>2
  <2> QED BY <2>1, <1>2, <1>5, <1>6, OrderedStays
<1>8. ASSUME NEW o \in watched PROVE Fits(r, told2, here, o) /\ (o = h.o => told2[o] # "wrong")
  <2>1. Fits(q, told, here, o) /\ ~Some(new, Tells(o)) /\ ~Some(new, Leaves(o)) /\ o \in Records
    BY <1>2, <1>6
  <2>2. CASE h.o = o
    <3>1. h \in Tells(o) /\ Hears(o, h.e, told, told2)
      BY <2>1, <2>2, <1>3, <1>11
    <3> QED BY <2>1, <3>1, <1>0, <1>5, <1>13, FitsTold
  <2>3. CASE h.o # o
    <3>1. h \notin Tells(o) /\ h \notin Leaves(o) /\ told2[o] = told[o]
      BY <2>1, <2>3, <1>2, <1>11 DEF Objects, Records
    <3> QED BY <2>1, <2>3, <3>1, <1>0, <1>5, FitsSpared
  <2> QED BY <2>2, <2>3
<1>9. ASSUME NEW o \in Records PROVE Once(r, listed, o)
  <2>1. Once(q, listed, o) /\ ~Some(new, Asks(o)) /\ (h \in About(o) \/ ~Some(new, About(o)))
    BY <1>2, <1>6
  <2> QED BY <2>1, <1>0, <1>5, OnceStays
<1>10. ASSUME NEW d \in RgDev PROVE FitsDev(r, told2, devs, d)
  <2>1. FitsDev(q, told, devs, d) /\ Followed(new, Leaves(d), Tells(d)) /\ ~Some(new, Tells(d)) /\ ~Some(new, Leaves(d))
    BY <1>2, <1>6
  <2>2. CASE h.o = d
    <3>1. h \in Tells(d) /\ (told2[d] # "there" \/ h \in Brings)
      BY <2>2, <1>3, <1>4, <1>11
    <3> QED BY <2>1, <3>1, <1>0, <1>5, FitsDevTold
  <2>3. CASE h.o # d
    <3>1. told2[d] = told[d] /\ h \notin Tells(d)
      BY <2>3, <1>2, <1>11 DEF Objects
    <3>2. ~Some(new, Tells(d) \cap Brings)
      <4>1. (Tells(d) \cap Brings) \cap Tasks \subseteq Tells(d)
        OBVIOUS
      <4> QED BY <4>1, <2>1, <1>0, <1>13, SomeIn
    <3> QED BY <2>1, <3>1, <3>2, <1>0, <1>5, FitsDevGoesOn
  <2> QED BY <2>2, <2>3
<1> QED BY <1>7, <1>8, <1>9, <1>10 DEF Kept

LEMMA StartTold ==
  ASSUME Inv, Accounts, RgStart
  PROVE  Accounts'
<1> DEFINE h == Head(rgTodo)
           w == RgWalk(h.o, h.e, rgCbs)
<1>1. /\ rgTodo # << >> /\ h.do = "call" /\ rgTodo' = <<w>> \o Tail(rgTodo)
      /\ UNCHANGED rgLists /\ UNCHANGED rgProgram
  BY DEF RgStart, RgIs, RgThen, RgThis
<1>2. rgTodo \in Seq(Tasks) /\ rgCbs \in Walks /\ h \in Tasks
  BY <1>1, TailIs DEF Inv, Types
<1>3. UNCHANGED <<rgDevs, rgSigs, rgMaps, rgCbs, rgTold, rgMine>>
  BY <1>1 DEF rgProgram, rgLists
<1>4. Watched' = Watched /\ Watched \in SUBSET Records /\ Here' = Here /\ Listed' = Listed
  BY <1>3 DEF Watched, Records, Here, Listed, RgListed
<1>5. h = Head(rgTodo) /\ w.do = "walk" /\ w.o = h.o /\ w.e = h.e /\ w.rest = rgCbs
  BY DEF RgWalk
<1>6. w \in Tasks
  BY <1>1, <1>2, TaskIs, WalkIs
<1> HIDE DEF h, w
<1>7. ASSUME rgCbs # << >> PROVE Kept(rgTodo', rgTold, Here, Listed, rgDevs, Watched)
  <2>1. Kept(rgTodo, rgTold, Here, Listed, rgDevs, Watched) /\ w.rest # << >>
    BY <1>5, <1>7 DEF Accounts
  <2>2. h.do \in {"call", "walk"} /\ (h.do = "call" \/ h.rest # << >>)
    BY <1>1
  <2> QED BY <1>1, <1>2, <1>4, <1>5, <1>6, <2>1, <2>2, CallKept
<1> QED BY <1>3, <1>4, <1>7 DEF Accounts

(* What RgHears makes of what was told so far. *)
LEMMA HearsIs ==
  ASSUME Inv, NEW o \in Objects, NEW e \in Events, NEW told2, told2 = RgHears(o, e)
  PROVE  Heard(o, e, rgTold, told2)
<1> DEFINE v == IF o \in RgDev THEN IF e \in {"new", "modified"} THEN "there" ELSE "none"
                ELSE CASE e = "new" /\ rgTold[o] = "none" -> "there"
                       [] e = "modified" /\ rgTold[o] = "there" -> "there"
                       [] e \in {"removed", "expired"} /\ rgTold[o] = "there" -> "none"
                       [] OTHER -> "wrong"
<1>1. told2 = [rgTold EXCEPT ![o] = v]
  BY DEF RgHears
<1>2. DOMAIN rgTold = Objects
  BY DEF Inv, Types
<1>3. /\ o \in RgDev => v = (IF e \in {"new", "modified"} THEN "there" ELSE "none")
      /\ o \notin RgDev /\ e = "new" /\ rgTold[o] = "none" => v = "there"
      /\ o \notin RgDev /\ e = "modified" /\ rgTold[o] = "there" => v = "there"
      /\ o \notin RgDev /\ e \in {"removed", "expired"} /\ rgTold[o] = "there" => v = "none"
  OBVIOUS
<1> HIDE DEF v
<1>4. told2[o] = v /\ \A x \in Objects : x # o => told2[x] = rgTold[x]
  BY <1>1, <1>2
<1>5. o \in Records => o \notin RgDev
  BY RgAssumption DEF Records
<1>6. o \notin Records \/ Hears(o, e, rgTold, told2)
  BY <1>3, <1>4, <1>5 DEF Hears
<1> QED BY <1>3, <1>4, <1>6 DEF Heard

(* After the first handler there is no other; after another one, there is the first. *)
LEMMA WalkGoes ==
  ASSUME NEW rest \in Walks, rest # << >>, NEW cbs \in Walks, cbs # << >>
  PROVE  /\ rest[1] = "first" => RgRest(rest, cbs) = << >>
         /\ rest[1] # "first" => RgRest(rest, cbs) = <<"first">>
<1> DEFINE S == Range(cbs)
<1>1. rest = <<"first">> \/ rest = <<"other", "first">>
  BY DEF Walks
<1>2. "first" \in S
  <2>1. CASE cbs = <<"first">>
    <3>1. 1 \in DOMAIN cbs /\ cbs[1] = "first"
      BY <2>1
    <3> QED BY <3>1 DEF Range
  <2>2. CASE cbs = <<"other", "first">>
    <3>1. 2 \in DOMAIN cbs /\ cbs[2] = "first"
      BY <2>2
    <3> QED BY <3>1 DEF Range
  <2> QED BY <2>1, <2>2 DEF Walks
<1>3. RgRest(rest, cbs) = RgKeep(Tail(rest), S)
  BY DEF RgRest
<1> HIDE DEF S
<1>4. Tail(<<"first">>) = << >> /\ Tail(<<"other", "first">>) = <<"first">>
  OBVIOUS
<1>5. RgKeep(<< >>, S) = << >>
  BY RgKeepNothing
<1>6. RgKeep(<<"first">>, S) = <<"first">>
  BY <1>2, RgKeepOne
<1>7. CASE rest = <<"first">>
  <2>1. rest[1] = "first"
    BY <1>7
  <2> QED BY <2>1, <1>3, <1>4, <1>5, <1>7
<1>8. CASE rest = <<"other", "first">>
  <2>1. rest[1] = "other"
    BY <1>8
  <2> QED BY <2>1, <1>3, <1>4, <1>6, <1>8
<1> QED BY <1>1, <1>7, <1>8

LEMMA HandlerTold ==
  ASSUME Inv, Accounts, RgHandler
  PROVE  Accounts'
<1> DEFINE h == Head(rgTodo)
<1>1. /\ rgTodo # << >> /\ h.do = "walk" /\ UNCHANGED rgLists
      /\ rgTodo \in Seq(Tasks) /\ rgCbs \in Walks
  BY DEF RgHandler, RgIs, Inv, Types
<1>2. h \in Tasks /\ h.o \in Objects /\ h.e \in Events /\ h.rest \in Walks
  BY <1>1, TailIs, TaskIs
<1>3. CASE h.rest = << >>
  <2>1. rgTodo' = << >> \o Tail(rgTodo) /\ UNCHANGED rgProgram
    BY <1>3 DEF RgHandler, RgThen, RgThis
  <2>2. UNCHANGED <<rgDevs, rgSigs, rgMaps, rgProgram>>
    BY <1>1, <2>1 DEF rgLists
  <2> QED BY <1>1, <1>3, <2>1, <2>2, OneTold
<1>4. CASE h.rest # << >>
  <2>1. PICK cbs \in RgReacts(h.rest[1]) :
          /\ rgCbs' = cbs
          /\ rgTold' = IF h.rest[1] = "first" THEN RgHears(h.o, h.e) ELSE rgTold
          /\ rgTodo' = <<RgWalk(h.o, h.e, RgRest(h.rest, cbs))>> \o Tail(rgTodo)
          /\ UNCHANGED rgMine
    BY <1>4 DEF RgHandler, RgThen, RgThis
  <2>2. rgCbs # << >>
    <3>1. h \in Continues
      BY <1>1, <1>2, <1>4, InKind
    <3>2. Some(rgTodo, Continues)
      BY <1>1, <3>1, SomeTail
    <3> QED BY <3>2 DEF Inv, Freeing
  <2>3. h \notin Brings \/ Adding(rgTodo)
    <3>1. Removing(rgTodo) => ~Some(rgTodo, Brings)
      <4>1. Brings \cap Ends = {}
        BY DEF Brings, Ends
      <4> QED BY <1>1, <4>1, RemovingVoid
    <3>2. h \in Brings => Some(rgTodo, Brings)
      BY <1>1, SomeTail
    <3> QED BY <3>1, <3>2 DEF Inv, Mode
  <2>4. h = Head(rgTodo)
    OBVIOUS
  <2> HIDE DEF h
  <2>5. h.rest[1] \in {"first", "other"}
    BY <1>2, <1>4, WalksGoOn
  <2>6. cbs \in Walks /\ cbs # << >>
    BY <1>1, <2>2, <2>5, HandlersStay
  <2> DEFINE rest == RgRest(h.rest, cbs)
             w == RgWalk(h.o, h.e, rest)
  <2>7. rest \in Walks /\ (h.rest[1] = "first" => rest = << >>) /\ (h.rest[1] # "first" => rest # << >>)
    <3>1. <<"first">> # << >>
      OBVIOUS
    <3>2. rest \in Walks
      BY <1>2, <1>4, WalksGoOn
    <3>3. /\ h.rest[1] = "first" => rest = << >>
          /\ h.rest[1] # "first" => rest = <<"first">>
      BY <1>2, <1>4, <2>6, WalkGoes
    <3> HIDE DEF rest
    <3> QED BY <3>1, <3>2, <3>3
  <2> HIDE DEF rest
  <2>8. w \in Tasks /\ w.do = "walk" /\ w.o = h.o /\ w.e = h.e /\ w.rest = rest
    BY <1>2, <2>7, WalkIs
  <2>9. rgTodo' = <<w>> \o Tail(rgTodo)
    BY <2>1 DEF rest
  <2> HIDE DEF w
  <2>10. UNCHANGED <<rgDevs, rgSigs, rgMaps, rgMine>>
    BY <1>1, <2>1 DEF rgLists
  <2>11. Watched' = Watched /\ Watched \in SUBSET Records /\ Here' = Here /\ Listed' = Listed
    BY <2>10 DEF Watched, Records, Here, Listed, RgListed
  <2>12. Kept(rgTodo, rgTold, Here, Listed, rgDevs, Watched) /\ \A o \in Watched : rgTold[o] # "wrong"
    BY <2>2 DEF Accounts
  <2>13. CASE h.rest[1] = "first"
    <3>1. rgTold' = RgHears(h.o, h.e)
      BY <2>1, <2>13
    <3> DEFINE told2 == rgTold'
               r == rgTodo'
    <3>2. Heard(h.o, h.e, rgTold, told2)
      BY <1>2, <3>1, HearsIs
    <3>3. w.rest = << >> /\ r = <<w>> \o Tail(rgTodo)
      BY <2>7, <2>8, <2>9, <2>13
    <3> HIDE DEF told2, r
    <3>4. FirstCalled(rgTodo, h, w, r)
      BY <1>1, <1>4, <2>3, <2>4, <2>8, <3>3 DEF FirstCalled
    <3>6. Kept(r, told2, Here, Listed, rgDevs, Watched) /\ (h.o \notin Watched \/ told2[h.o] # "wrong")
      BY <2>11, <2>12, <3>2, <3>4, TellKept
    <3>5. ASSUME NEW o \in Watched PROVE told2[o] # "wrong"
      <4>1. o \in Objects
        BY DEF Watched, Objects
      <4> QED BY <4>1, <2>12, <3>2, <3>6 DEF Heard
    <3> QED BY <2>10, <2>11, <3>5, <3>6 DEF Accounts, told2, r
  <2>14. CASE h.rest[1] # "first"
    <3>1. rgTold' = rgTold
      BY <2>1, <2>14
    <3>2. Kept(rgTodo', rgTold, Here, Listed, rgDevs, Watched)
      <4>1. h.do \in {"call", "walk"} /\ w.rest # << >>
        BY <1>1, <2>7, <2>8, <2>14
      <4> QED BY <1>1, <1>4, <2>4, <2>8, <2>9, <2>11, <2>12, <4>1, CallKept
    <3> QED BY <2>10, <2>11, <2>12, <3>1, <3>2 DEF Accounts
  <2> QED BY <2>13, <2>14
<1> QED BY <1>3, <1>4

-----------------------------------------------------------------------------
(* What adds records: the head of r tells of what came or changed, if of anything. *)
Added(r, here, here2, devs2, watched2) ==
  /\ \A o \in watched2 :
        IF r # << >> /\ Head(r) \in Tells(o)
        THEN o \in here2 /\ (Head(r).e = "new" => o \notin here) /\ (Head(r).e = "modified" => o \in here)
        ELSE o \in here2 <=> o \in here
  /\ \A d \in RgDev : r # << >> /\ Head(r) \in Tells(d) => d \in devs2

LEMMA AddedSilently ==
  ASSUME NEW r \in Seq(Tasks), r = << >> \/ Head(r) \in Adds, NEW here, NEW here2, NEW devs2, NEW watched2,
         \A o \in watched2 : o \in here2 <=> o \in here
  PROVE  Added(r, here, here2, devs2, watched2)
<1>1. \A o : r # << >> => Head(r) \notin Tells(o)
  BY DEF Tells, Told, Kind, Adds
<1> QED BY <1>1 DEF Added

LEMMA AddedAloud ==
  ASSUME NEW r, NEW x \in Objects, NEW e \in {"new", "modified"}, r # << >>, Head(r) = RgCall(x, e),
         NEW here, NEW here2, NEW devs2, NEW watched2,
         \A o \in watched2 : o # x => (o \in here2 <=> o \in here),
         x \in watched2 => x \in here2 /\ (e = "new" => x \notin here) /\ (e = "modified" => x \in here),
         x \in RgDev => x \in devs2
  PROVE  Added(r, here, here2, devs2, watched2)
<1> DEFINE c == RgCall(x, e)
<1>1. c \in Tasks /\ c.do = "call" /\ c.o = x /\ c.e = e
  <2>1. e \in Events
    BY DEF Events
  <2> QED BY <2>1, ThingIs DEF RgCall
<1> HIDE DEF c
<1>2. \A o : c \in Tells(o) <=> o = x
  BY <1>1, TellsIs
<1>3. Head(r) = c
  BY DEF c
<1> QED BY <1>1, <1>2, <1>3 DEF Added

LEMMA HeadOfOne ==
  ASSUME NEW q \in Seq(Tasks), q # << >>, NEW x \in Tasks
  PROVE  <<x>> \o Tail(q) # << >> /\ Head(<<x>> \o Tail(q)) = x
<1>1. Tail(q) \in Seq(Tasks) /\ <<x>> \in Seq(Tasks)
  BY TailIs
<1> QED BY <1>1

(* A step that adds: what was told up to it is what there was. *)
LEMMA AddedTold ==
  ASSUME Inv, Accounts, rgTodo = << >> \/ Head(rgTodo) \in Adds, Adding(rgTodo), rgCbs # << >>,
         rgTodo' \in Seq(Tasks), Adding(rgTodo'), rgTold' = rgTold, Watched' \subseteq Watched, rgDevs \subseteq rgDevs',
         Added(rgTodo', Here, Here', rgDevs', Watched')
  PROVE  Accounts'
<1>1. /\ \A o \in Watched : rgTold[o] # "wrong"
      /\ Kept(rgTodo, rgTold, Here, Listed, rgDevs, Watched)
      /\ rgTodo \in Seq(Tasks) /\ rgTold \in [Objects -> {"there", "none", "wrong"}]
  BY DEF Accounts, Inv, Types
<1>2. /\ \A o \in Watched : rgTold[o] = "there" <=> o \in Here
      /\ \A d \in RgDev : rgTold[d] = "there" => d \in rgDevs
  BY <1>1, ToldIsHere
<1>3. Watched \in SUBSET Records /\ Watched \subseteq Objects
  BY DEF Watched, Records, Objects
<1> DEFINE q == rgTodo'
           here2 == Here'
           listed2 == Listed'
           devs2 == rgDevs'
           watched2 == Watched'
<1>4. ASSUME NEW o \in watched2
      PROVE  IF q # << >> /\ Head(q) \in Tells(o)
             THEN /\ o \in here2 /\ (Head(q).e = "new" => rgTold[o] = "none")
                  /\ Head(q).e = "modified" => rgTold[o] = "there"
             ELSE rgTold[o] = "there" <=> o \in here2
  <2>1. /\ rgTold[o] = "there" <=> o \in Here
        /\ rgTold[o] \in {"there", "none"}
    BY <1>1, <1>2, <1>3
  <2> QED BY <2>1 DEF Added
<1>5. ASSUME NEW d \in RgDev
      PROVE  /\ rgTold[d] = "there" => d \in devs2
             /\ q # << >> /\ Head(q) \in Tells(d) => d \in devs2
  BY <1>2 DEF Added
<1>6. q \in Seq(Tasks) /\ Adding(q) /\ watched2 \in SUBSET Records /\ watched2 \subseteq Watched
  BY <1>3
<1>7. q = rgTodo' /\ here2 = Here' /\ listed2 = Listed' /\ devs2 = rgDevs' /\ watched2 = Watched'
  OBVIOUS
<1> HIDE DEF q, here2, listed2, devs2, watched2
<1>8. Kept(q, rgTold, here2, listed2, devs2, watched2)
  BY <1>4, <1>5, <1>6, WhileAddingKept
<1>9. \A o \in watched2 : rgTold[o] # "wrong"
  BY <1>1, <1>6
<1> QED BY <1>7, <1>8, <1>9 DEF Accounts

LEMMA TailAdds ==
  ASSUME NEW q \in Seq(Tasks), q # << >>, Adding(q)
  PROVE  Tail(q) = << >> \/ Head(Tail(q)) \in Adds
<1>1. Tail(q) \in Seq(Tasks) /\ ~Some(Tail(q), Tasks \ Adds)
  BY TailIs DEF Adding
<1>2. Tail(q) # << >> => Head(Tail(q)) \in Tasks /\ Head(Tail(q)) \notin Tasks \ Adds
  BY <1>1, TailIs, SomeTail
<1> QED BY <1>2

LEMMA AddSigTold ==
  ASSUME Inv, Accounts, RgAddSig
  PROVE  Accounts'
<1> DEFINE h == Head(rgTodo)
           s == h.o
           new == IF s \notin rgSigs THEN <<RgCall(s, "new")>>
                  ELSE IF h.e = "changed" /\ RgOwner[s] # RgLocal THEN <<RgCall(s, "modified")>> ELSE << >>
           r == rgTodo'
<1>1. /\ rgTodo # << >> /\ h.do = "addsig" /\ r = new \o Tail(rgTodo)
      /\ rgDevs' = rgDevs \cup {RgOwner[s]} /\ rgSigs' = rgSigs \cup {s}
      /\ UNCHANGED <<rgMaps, rgMarked, rgCbs, rgTold, rgMine>>
  BY DEF RgAddSig, RgIs, RgThen, RgThis, rgProgram
<1>2. rgTodo \in Seq(Tasks) /\ Mode
  BY DEF Inv, Types
<1>3. h \in Tasks /\ s \in RgSig /\ s \in Objects /\ Adding(rgTodo) /\ rgCbs # << >>
  BY <1>1, <1>2, WhichMode, TaskIs DEF Objects
<1>4. new = << >> \/ \E o \in Objects, e \in {"new", "modified"} : new = <<RgCall(o, e)>>
  BY <1>3
<1>5. r \in Seq(Tasks) /\ Adding(r)
  <2> HIDE DEF h, new, r
  <2> QED BY <1>1, <1>2, <1>3, <1>4, AddedOne
<1>6. Here' = Here \cup {s} /\ Watched' = Watched /\ s \notin RgDev /\ (s \in Here <=> s \in rgSigs)
  <2>1. s \notin RgMap /\ s \notin RgDev /\ RgListed \subseteq RgMap
    BY <1>3, RgAssumption DEF Inv, Types
  <2> QED BY <1>1, <2>1 DEF Here, RgListed, Watched
<1>7. h \in Adds
  BY <1>1, <1>3 DEF Adds, Kind
<1> DEFINE here2 == Here'
           devs2 == rgDevs'
<1>8. /\ s \notin rgSigs => new = <<RgCall(s, "new")>>
      /\ s \in rgSigs => new = <<RgCall(s, "modified")>> \/ new = << >>
  OBVIOUS
<1> HIDE DEF h, s, new, r
<1>9. ASSUME NEW e \in {"new", "modified"}, new = <<RgCall(s, e)>>, e = "new" <=> s \notin Here
      PROVE  Added(r, Here, here2, devs2, Watched)
  <2>1. RgCall(s, e) \in Tasks
    BY <1>3, CallIs
  <2>2. r # << >> /\ Head(r) = RgCall(s, e)
    BY <1>1, <1>2, <1>9, <2>1, HeadOfOne
  <2>3. s \in here2 /\ \A o : o # s => (o \in here2 <=> o \in Here)
    BY <1>6
  <2>4. (e = "new" => s \notin Here) /\ (e = "modified" => s \in Here)
    BY <1>9
  <2> HIDE DEF here2, devs2
  <2> QED BY <1>3, <1>6, <2>2, <2>3, <2>4, AddedAloud
<1>10. CASE s \notin rgSigs
  <2>1. Added(r, Here, here2, devs2, Watched)
    BY <1>6, <1>8, <1>9, <1>10
  <2> QED BY <1>1, <1>3, <1>5, <1>6, <1>7, <2>1, AddedTold DEF r, h
<1>11. CASE s \in rgSigs
  <2>1. CASE new = <<RgCall(s, "modified")>>
    <3>1. Added(r, Here, here2, devs2, Watched)
      BY <1>6, <1>9, <1>11, <2>1
    <3> QED BY <1>1, <1>3, <1>5, <1>6, <1>7, <3>1, AddedTold DEF r, h
  <2>2. CASE new = << >>
    <3>1. r = Tail(rgTodo)
      BY <1>1, <1>2, <2>2, TailIs
    <3>2. r = << >> \/ Head(r) \in Adds
      BY <1>1, <1>2, <1>3, <3>1, TailAdds
    <3>3. here2 = Here
      BY <1>6, <1>11
    <3> HIDE DEF here2, devs2
    <3>4. Added(r, Here, here2, devs2, Watched)
      BY <1>5, <3>2, <3>3, AddedSilently
    <3> QED BY <1>1, <1>3, <1>5, <1>6, <1>7, <3>4, AddedTold DEF r, h, here2, devs2
  <2> QED BY <1>8, <1>11, <2>1, <2>2
<1> QED BY <1>10, <1>11

LEMMA AddMapTold ==
  ASSUME Inv, Accounts, RgAddMap
  PROVE  Accounts'
<1> DEFINE h == Head(rgTodo)
           m == h.o.map
           S == h.o.src
           isNew == m \notin RgListed
           new == CASE isNew /\ ~RgIsLocal(m) -> <<RgCall(m, "new")>>
                    [] ~isNew /\ ~(S \subseteq rgMaps[m].src) -> <<RgCall(m, "modified")>>
                    [] OTHER -> << >>
           r == rgTodo'
           here2 == Here'
           devs2 == rgDevs'
<1>1. /\ rgTodo # << >> /\ h.do = "addmap" /\ r = new \o Tail(rgTodo)
      /\ rgMaps' = [x \in RgListed \cup {m} |->
                        CASE x # m -> rgMaps[x]
                          [] x = m /\ isNew ->
                               [src |-> S, is |-> IF RgIsLocal(m) THEN "staged" ELSE "active"]
                          [] OTHER -> [rgMaps[m] EXCEPT !.src = @ \cup S]]
      /\ UNCHANGED <<rgDevs, rgSigs, rgCbs, rgTold, rgMine>>
  BY DEF RgAddMap, RgIs, RgThen, RgThis, rgProgram
<1>2. rgTodo \in Seq(Tasks) /\ Mode /\ Types /\ Wanted
  BY DEF Inv, Types
<1>3. h \in Tasks /\ m \in RgMap /\ m \in Objects /\ m \notin RgDev /\ Adding(rgTodo) /\ rgCbs # << >>
  <2>1. h \in Tasks /\ m \in RgMap /\ m \in Objects /\ Adding(rgTodo) /\ rgCbs # << >>
    BY <1>1, <1>2, WhichMode, TaskIs DEF Objects, Wishes
  <2> HIDE DEF h, m
  <2> QED BY <2>1, RgAssumption
<1>4. new = << >> \/ \E o \in Objects, e \in {"new", "modified"} : new = <<RgCall(o, e)>>
  <2> HIDE DEF m, S
  <2> QED BY <1>3
<1>5. /\ isNew /\ ~RgIsLocal(m) => new = <<RgCall(m, "new")>>
      /\ isNew /\ RgIsLocal(m) => new = << >>
      /\ ~isNew => new = <<RgCall(m, "modified")>> \/ new = << >>
  OBVIOUS
<1> HIDE DEF new
<1>6. r \in Seq(Tasks) /\ Adding(r)
  <2> HIDE DEF h, r
  <2> QED BY <1>1, <1>2, <1>3, <1>4, AddedOne
<1>7. RgIsLocal(m) => isNew
  <2>1. h \in Range(rgTodo)
    <3>1. 1 \in DOMAIN rgTodo /\ rgTodo[1] = h
      BY <1>1, <1>2, TailIs
    <3> QED BY <3>1 DEF Range
  <2> QED BY <2>1, <1>1, <1>2 DEF Wanted
<1>8. /\ RgListed' = RgListed \cup {m}
      /\ \A x \in RgListed \ {m} : rgMaps'[x] = rgMaps[x]
      /\ isNew => rgMaps'[m] = [src |-> S, is |-> IF RgIsLocal(m) THEN "staged" ELSE "active"]
      /\ ~isNew => rgMaps'[m] = [rgMaps[m] EXCEPT !.src = @ \cup S]
  <2> DEFINE f(x) == CASE x # m -> rgMaps[x]
                          [] x = m /\ isNew ->
                               [src |-> S, is |-> IF RgIsLocal(m) THEN "staged" ELSE "active"]
                          [] OTHER -> [rgMaps[m] EXCEPT !.src = @ \cup S]
  <2>1. rgMaps' = [x \in RgListed \cup {m} |-> f(x)]
    BY <1>1
  <2> HIDE DEF m, S
  <2>2. /\ \A x : x # m => f(x) = rgMaps[x]
        /\ isNew => f(m) = [src |-> S, is |-> IF RgIsLocal(m) THEN "staged" ELSE "active"]
        /\ ~isNew => f(m) = [rgMaps[m] EXCEPT !.src = @ \cup S]
    OBVIOUS
  <2> HIDE DEF f
  <2> QED BY <2>1, <2>2 DEF RgListed
<1> HIDE DEF S
<1>9. /\ m \notin rgSigs
      /\ ~isNew => /\ rgMaps[m] \in [src : SUBSET RgMapSrc[m], is : {"staged", "ready", "active"}]
                   /\ rgMaps[m].is = "active"
  BY <1>2, <1>3, <1>7, RgAssumption DEF Types
<1>10. Watched' = Watched /\ \A o : o # m => (o \in here2 <=> o \in Here)
  <2>1. ASSUME NEW o, o # m PROVE o \in here2 <=> o \in Here
    <3>1. o \in RgListed' <=> o \in RgListed
      BY <1>8, <2>1
    <3>2. o \in RgListed => rgMaps'[o] = rgMaps[o]
      BY <1>8, <2>1
    <3> HIDE DEF m
    <3> QED BY <1>1, <3>1, <3>2 DEF Here
  <2> QED BY <2>1, <1>1 DEF Watched
<1>11. m \in Here <=> ~isNew
  BY <1>9 DEF Here
<1>12. m \in here2 <=> ~isNew \/ ~RgIsLocal(m)
  <2>1. m \in here2 <=> rgMaps'[m].is = "active"
    BY <1>1, <1>8, <1>9 DEF Here
  <2>2. CASE isNew
    BY <2>1, <2>2, <1>8
  <2>3. CASE ~isNew
    BY <2>1, <2>3, <1>8, <1>9
  <2> QED BY <2>2, <2>3
<1>13. h \in Adds
  BY <1>1, <1>3 DEF Adds, Kind
<1>14. Added(r, Here, here2, devs2, Watched) => Accounts'
  BY <1>1, <1>3, <1>6, <1>10, <1>13, AddedTold
<1> HIDE DEF h, m, isNew, r, here2, devs2
<1>15. ASSUME NEW e \in {"new", "modified"}, new = <<RgCall(m, e)>>, e = "new" <=> m \notin Here, m \in here2
       PROVE  Added(r, Here, here2, devs2, Watched)
  <2>1. RgCall(m, e) \in Tasks
    BY <1>3, CallIs
  <2>2. r # << >> /\ Head(r) = RgCall(m, e)
    BY <1>1, <1>2, <1>15, <2>1, HeadOfOne
  <2>3. (e = "new" => m \notin Here) /\ (e = "modified" => m \in Here)
    BY <1>15
  <2> QED BY <1>3, <1>10, <1>15, <2>2, <2>3, AddedAloud
<1>16. ASSUME new = << >>, m \in here2 <=> m \in Here
       PROVE  Added(r, Here, here2, devs2, Watched)
  <2>1. r = Tail(rgTodo)
    BY <1>1, <1>2, <1>16, TailIs
  <2>2. r = << >> \/ Head(r) \in Adds
    BY <1>1, <1>2, <1>3, <2>1, TailAdds
  <2>3. \A o \in Watched : o \in here2 <=> o \in Here
    BY <1>10, <1>16
  <2> QED BY <1>6, <2>2, <2>3, AddedSilently
<1> QED BY <1>5, <1>7, <1>11, <1>12, <1>14, <1>15, <1>16

(* What is begun between two messages. *)
LEMMA BeginsSilently ==
  ASSUME Inv, Accounts, rgTodo = << >>, rgCbs # << >>, rgTodo' \in Seq(Tasks), Adding(rgTodo'), rgTold' = rgTold,
         Watched' \subseteq Watched, rgDevs \subseteq rgDevs', rgTodo' = << >> \/ Head(rgTodo') \in Adds,
         \A o \in Watched' : o \in Here' <=> o \in Here
  PROVE  Accounts'
<1>1. Adding(rgTodo)
  BY AddingBegins
<1> DEFINE r == rgTodo'
           here2 == Here'
           devs2 == rgDevs'
           watched2 == Watched'
<1>2. /\ r \in Seq(Tasks) /\ (r = << >> \/ Head(r) \in Adds)
      /\ \A o \in watched2 : o \in here2 <=> o \in Here
  OBVIOUS
<1> HIDE DEF r, here2, devs2, watched2
<1>3. Added(r, Here, here2, devs2, watched2)
  BY <1>2, AddedSilently
<1> QED BY <1>1, <1>3, AddedTold DEF r, here2, devs2, watched2

LEMMA BeginsAloud ==
  ASSUME Inv, Accounts, rgTodo = << >>, rgCbs # << >>, rgTold' = rgTold,
         Watched' \subseteq Watched, rgDevs \subseteq rgDevs',
         NEW x \in Objects, NEW e \in {"new", "modified"}, rgTodo' = <<RgCall(x, e)>>,
         \A o \in Watched' : o # x => (o \in Here' <=> o \in Here),
         x \in Watched' => x \in Here' /\ (e = "new" => x \notin Here) /\ (e = "modified" => x \in Here),
         x \in RgDev => x \in rgDevs'
  PROVE  Accounts'
<1> DEFINE c == RgCall(x, e)
           r == rgTodo'
           here2 == Here'
           devs2 == rgDevs'
           watched2 == Watched'
<1>1. Adding(rgTodo)
  BY AddingBegins
<1>2. c \in Tasks /\ c \in Brings
  BY CallIs
<1>3. r = <<c>>
  OBVIOUS
<1> HIDE DEF c
<1>4. r \in Seq(Tasks) /\ Adding(r) /\ r # << >> /\ Head(r) = c
  BY <1>2, <1>3, AddingBegins
<1>5. /\ \A o \in watched2 : o # x => (o \in here2 <=> o \in Here)
      /\ x \in watched2 => x \in here2 /\ (e = "new" => x \notin Here) /\ (e = "modified" => x \in Here)
      /\ x \in RgDev => x \in devs2
  OBVIOUS
<1> HIDE DEF r, here2, devs2, watched2
<1>6. Added(r, Here, here2, devs2, watched2)
  BY <1>4, <1>5, AddedAloud DEF c
<1> QED BY <1>1, <1>4, <1>6, AddedTold DEF r, here2, devs2, watched2

LEMMA ReceiveDeviceTold ==
  ASSUME Inv, Accounts, NEW d \in RgDev, NEW names \in RgLinkedTo, RgReceiveDevice(d, names)
  PROVE  Accounts'
<1> DEFINE e == IF d \in rgDevs THEN "modified" ELSE "new"
<1>1. /\ rgTodo = << >> /\ rgCbs # << >> /\ rgDevs' = rgDevs \cup {d} \cup names
      /\ rgTodo' = <<RgCall(d, e)>>
      /\ UNCHANGED <<rgSigs, rgMaps, rgTold, rgMine>>
  BY DEF RgReceiveDevice, RgIdle, RgDo, rgProgram
<1>2. e \in {"new", "modified"}
  OBVIOUS
<1> HIDE DEF e
<1>3. Here' = Here /\ Watched' = Watched
  BY <1>1 DEF Here, RgListed, Watched
<1>4. d \in Objects /\ d \notin Watched /\ d \in rgDevs'
  BY <1>1, RgAssumption DEF Objects, Watched
<1>5. rgTold' = rgTold /\ Watched' \subseteq Watched /\ rgDevs \subseteq rgDevs'
  BY <1>1, <1>3
<1>6. \A o \in Watched' : o # d => (o \in Here' <=> o \in Here)
  BY <1>3
<1>7. d \notin Watched'
  BY <1>3, <1>4
<1> QED BY <1>1, <1>2, <1>4, <1>5, <1>6, <1>7, BeginsAloud

LEMMA ReceiveSignalTold ==
  ASSUME Inv, Accounts, NEW s \in RgSig, RgReceiveSignal(s)
  PROVE  Accounts'
<1> DEFINE x == RgThing("addsig", s, "changed")
<1>1. /\ rgTodo = << >> /\ rgCbs # << >> /\ rgTodo' = <<x>>
      /\ UNCHANGED <<rgDevs, rgSigs, rgMaps, rgTold, rgMine>>
  BY DEF RgReceiveSignal, RgIdle, RgDo, rgProgram, rgLists
<1>2. x \in Adds /\ x \in Tasks
  BY ThingIs DEF Adds, Kind
<1> HIDE DEF x
<1>3. rgTodo' \in Seq(Tasks) /\ Adding(rgTodo') /\ Head(rgTodo') \in Adds
  BY <1>1, <1>2, AddingBegins
<1>4. Here' = Here /\ Watched' = Watched
  BY <1>1 DEF Here, RgListed, Watched
<1> QED BY <1>1, <1>3, <1>4, BeginsSilently

LEMMA WishBegins ==
  ASSUME NEW m \in RgMap, NEW S, S \subseteq RgMapSrc[m], NEW q, q = Wishing(m, S)
  PROVE  q \in Seq(Tasks) /\ Adding(q) /\ Head(q) \in Adds
<1> DEFINE x == RgThing("addsig", RgMapDst[m], "known")
           b == RgEach("addsig", S, "known")
           w == [map |-> m, src |-> S]
           y == RgThing("addmap", w, "new")
<1>1. Fulfils(q, m, S)
  BY WishIs
<1>2. x \in Tasks /\ x \in Adds
  BY RgAssumption, ThingIs DEF Adds, Kind
<1>3. q = <<x>> \o b \o <<y>>
  BY DEF Wishing
<1>4. y \in Tasks /\ IsFiniteSet(S) /\ \A s \in S : RgThing("addsig", s, "known") \in Tasks
  <2>1. w \in Wishes /\ w.src \subseteq RgMapSrc[w.map]
    BY RgAssumption DEF Wishes
  <2>2. S \subseteq RgSig
    BY RgAssumption
  <2> HIDE DEF w
  <2> QED BY <2>1, <2>2, ThingIs, FiniteSets, FS_Subset
<1>5. b \in Seq(Tasks)
  BY <1>4, RgEachIs
<1> HIDE DEF x, b, y
<1>6. Head(q) = x
  BY <1>2, <1>3, <1>4, <1>5
<1> QED BY <1>1, <1>2, <1>6 DEF Fulfils

LEMMA ReceiveMapTold ==
  ASSUME Inv, Accounts, NEW m \in RgMap, NEW S \in SUBSET RgMapSrc[m], RgReceiveMap(m, S)
  PROVE  Accounts'
<1> DEFINE q == Wishing(m, S)
<1>1. /\ rgTodo = << >> /\ rgCbs # << >> /\ rgTodo' = q
      /\ UNCHANGED <<rgDevs, rgSigs, rgMaps, rgTold, rgMine>>
  BY DEF RgReceiveMap, RgIdle, RgDo, rgProgram, rgLists, Wishing
<1>2. q \in Seq(Tasks) /\ Adding(q) /\ Head(q) \in Adds
  <2>1. S \subseteq RgMapSrc[m]
    OBVIOUS
  <2> QED BY <2>1, WishBegins
<1> HIDE DEF q
<1>3. Here' = Here /\ Watched' = Watched
  BY <1>1 DEF Here, RgListed, Watched
<1> QED BY <1>1, <1>2, <1>3, BeginsSilently

LEMMA ReadyTold ==
  ASSUME Inv, Accounts, NEW m \in RgMap, RgReady(m)
  PROVE  Accounts'
<1>1. /\ rgTodo = << >> /\ rgCbs # << >> /\ rgTodo' = << >> /\ m \in RgListed /\ rgMaps[m].is = "staged"
      /\ rgMaps' = [rgMaps EXCEPT ![m].is = "ready"]
      /\ UNCHANGED <<rgDevs, rgSigs, rgTold, rgMine>>
  BY DEF RgReady, RgIdle, RgDo, rgProgram
<1>2. RgListed' = RgListed
  BY <1>1 DEF RgListed
<1>3. ASSUME NEW y \in RgListed PROVE rgMaps'[y].is = "active" <=> rgMaps[y].is = "active"
  <2>1. /\ rgMaps[y] \in [src : SUBSET RgMapSrc[y], is : {"staged", "ready", "active"}]
        /\ y \in DOMAIN rgMaps
    BY DEF Inv, Types, RgListed
  <2>2. rgMaps'[y] = IF y = m THEN [rgMaps[y] EXCEPT !.is = "ready"] ELSE rgMaps[y]
    BY <1>1, <2>1
  <2> QED BY <2>1, <2>2, <1>1
<1>4. Here' = Here /\ Watched' = Watched
  BY <1>1, <1>2, <1>3 DEF Here, Watched
<1>5. rgTodo' \in Seq(Tasks) /\ Adding(rgTodo')
  BY <1>1, AddingBegins
<1> QED BY <1>1, <1>4, <1>5, BeginsSilently

LEMMA ActivateTold ==
  ASSUME Inv, Accounts, NEW m \in RgMap, RgActivate(m)
  PROVE  Accounts'
<1>1. /\ rgTodo = << >> /\ rgCbs # << >> /\ rgTodo' = <<RgCall(m, "new")>> /\ m \in RgListed
      /\ rgMaps[m].is = "ready" /\ rgMaps' = [rgMaps EXCEPT ![m].is = "active"]
      /\ UNCHANGED <<rgDevs, rgSigs, rgTold, rgMine>>
  BY DEF RgActivate, RgIdle, RgDo, rgProgram
<1>2. RgListed' = RgListed
  BY <1>1 DEF RgListed
<1>3. ASSUME NEW y \in RgListed PROVE rgMaps'[y].is = "active" <=> rgMaps[y].is = "active" \/ y = m
  <2>1. /\ rgMaps[y] \in [src : SUBSET RgMapSrc[y], is : {"staged", "ready", "active"}]
        /\ y \in DOMAIN rgMaps
    BY DEF Inv, Types, RgListed
  <2>2. rgMaps'[y] = IF y = m THEN [rgMaps[y] EXCEPT !.is = "active"] ELSE rgMaps[y]
    BY <1>1, <2>1
  <2> QED BY <2>1, <2>2
<1>4. m \notin rgSigs /\ m \notin RgDev /\ m \in Objects
  BY RgAssumption DEF Inv, Types, Objects
<1>5. Here' = Here \cup {m} /\ Watched' = Watched /\ m \notin Here
  BY <1>1, <1>2, <1>3, <1>4 DEF Here, Watched
<1>6. \A o \in Watched' : o # m => (o \in Here' <=> o \in Here)
  BY <1>5
<1>7. m \in Here' /\ m \notin Here
  BY <1>5
<1>8. rgTold' = rgTold /\ Watched' \subseteq Watched /\ rgDevs \subseteq rgDevs'
  BY <1>1, <1>5
<1> QED BY <1>1, <1>4, <1>6, <1>7, <1>8, BeginsAloud

(* The map is not one that the program keeps account of any more. *)
LEMMA UnmapTold ==
  ASSUME Inv, Accounts, NEW m \in RgMap, NEW mine \in BOOLEAN, RgUnmap(m, mine)
  PROVE  Accounts'
<1>1. /\ rgTodo = << >> /\ rgCbs # << >> /\ rgTodo' = << >> /\ m \in RgListed
      /\ rgMaps' = (IF mine THEN [rgMaps EXCEPT ![m].is = "ready"] ELSE rgMaps)
      /\ rgMine' = (IF mine THEN rgMine \cup {m} ELSE rgMine)
      /\ UNCHANGED <<rgDevs, rgSigs, rgTold>>
  BY DEF RgUnmap, RgIdle, RgDo
<1>2. RgListed' = RgListed
  BY <1>1 DEF RgListed
<1>3. ASSUME NEW y \in RgListed, y # m \/ ~mine PROVE rgMaps'[y] = rgMaps[y]
  <2>1. y \in DOMAIN rgMaps
    BY DEF RgListed
  <2> QED BY <2>1, <1>1, <1>3
<1>4. Watched' \subseteq Watched /\ (mine => m \notin Watched')
  <2>1. m \notin RgSig
    BY RgAssumption
  <2> QED BY <2>1, <1>1 DEF Watched
<1>5. ASSUME NEW o, o # m \/ ~mine PROVE o \in Here' <=> o \in Here
  BY <1>1, <1>2, <1>3, <1>5 DEF Here
<1>6. rgTodo' \in Seq(Tasks) /\ Adding(rgTodo')
  BY <1>1, AddingBegins
<1>7. \A o \in Watched' : o \in Here' <=> o \in Here
  BY <1>4, <1>5
<1> QED BY <1>1, <1>4, <1>6, <1>7, BeginsSilently

LEMMA NothingTold ==
  ASSUME Inv, Accounts, rgTodo = << >>, rgCbs # << >>, rgTodo' = << >>,
         UNCHANGED <<rgDevs, rgSigs, rgMaps, rgTold, rgMine>>
  PROVE  Accounts'
<1>1. rgTodo' \in Seq(Tasks) /\ Adding(rgTodo')
  BY AddingBegins
<1>2. Here' = Here /\ Watched' = Watched
  BY DEF Here, RgListed, Watched
<1> QED BY <1>1, <1>2, BeginsSilently

LEMMA FreeSigTold ==
  ASSUME Inv, Accounts, NEW s \in RgSig, RgFreeSig(s)
  PROVE  Accounts'
<1>1. /\ rgTodo = << >> /\ rgCbs # << >> /\ rgTodo' = << >>
      /\ UNCHANGED <<rgDevs, rgSigs, rgMaps, rgTold, rgMine>>
  BY DEF RgFreeSig, RgIdle, RgDo, rgProgram
<1> QED BY <1>1, NothingTold

LEMMA AddCbTold ==
  ASSUME Inv, Accounts, RgAddCb
  PROVE  Accounts'
<1>1. /\ rgTodo = << >> /\ rgCbs # << >> /\ rgTodo' = << >>
      /\ UNCHANGED <<rgDevs, rgSigs, rgMaps, rgTold, rgMine>>
  BY DEF RgAddCb, RgIdle, RgDo, rgLists
<1> QED BY <1>1, NothingTold

-----------------------------------------------------------------------------
(* A removal begins: what was told is what there is, and stays so until it is taken apart. *)
LEMMA AskKept ==
  ASSUME NEW q, NEW S, Asking(q, S), Ordered(q), NEW listed, S \subseteq listed, NEW told, NEW here, NEW devs,
         NEW watched, \A o \in watched : told[o] = "there" <=> o \in here,
         \A d \in RgDev : told[d] = "there" => d \in devs
  PROVE  Kept(q, told, here, listed, devs, watched)
<1>1. ASSUME NEW o PROVE ~Some(q, Tells(o)) /\ ~Some(q, Leaves(o)) /\ Single(q, Tells(o))
  <2>1. ~Some(q, Tells(o)) /\ ~Some(q, Leaves(o))
    BY DEF Asking
  <2> QED BY <2>1, WithoutSome
<1>2. ASSUME NEW o, NEW X PROVE ~Some(q, Tells(o) \cap X)
  <2>1. (Tells(o) \cap X) \cap Tasks \subseteq Tells(o) /\ q \in Seq(Tasks)
    BY DEF Asking
  <2> QED BY <2>1, <1>1, SomeIn
<1>3. \A o \in watched : Fits(q, told, here, o)
  BY <1>1, <1>2 DEF Fits
<1>4. \A o \in Records : Once(q, listed, o)
  BY DEF Once, Asking
<1>5. ASSUME NEW d \in RgDev PROVE FitsDev(q, told, devs, d)
  <2>1. Followed(q, Leaves(d), Tells(d))
    BY <1>1, WithoutSome
  <2> QED BY <2>1, <1>2 DEF FitsDev
<1> QED BY <1>3, <1>4, <1>5 DEF Kept

LEMMA RemovalTold ==
  ASSUME Inv, Accounts, rgTodo = << >>, rgCbs # << >>, NEW q, rgTodo' = q,
         NEW S, Asking(q, S), Ordered(q), S \subseteq Listed,
         UNCHANGED <<rgDevs, rgSigs, rgMaps, rgTold, rgMine>>
  PROVE  Accounts'
<1>1. Adding(rgTodo) /\ rgTodo \in Seq(Tasks)
  BY AddingBegins DEF Inv, Types
<1>2. Kept(rgTodo, rgTold, Here, Listed, rgDevs, Watched) /\ \A o \in Watched : rgTold[o] # "wrong"
  BY DEF Accounts
<1>3. /\ \A o \in Watched : rgTold[o] = "there" <=> o \in Here
      /\ \A d \in RgDev : rgTold[d] = "there" => d \in rgDevs
  BY <1>1, <1>2, ToldIsHere
<1>4. Kept(q, rgTold, Here, Listed, rgDevs, Watched)
  BY <1>3, AskKept
<1>5. Here' = Here /\ Listed' = Listed /\ Watched' = Watched
  BY DEF Here, Listed, Watched, RgListed
<1> QED BY <1>2, <1>4, <1>5 DEF Accounts

LEMMA OneRemovalTold ==
  ASSUME Inv, Accounts, rgTodo = << >>, rgCbs # << >>, NEW x \in Ends, rgTodo' = <<x>>,
         x.do \in {"link", "dev"} \/ (x.do \in {"map", "sig"} /\ x.o \in Listed), UNCHANGED rgLists, UNCHANGED rgProgram
  PROVE  Accounts'
<1>1. x \in Tasks
  BY DEF Ends
<1> DEFINE q == <<x>>
<1>2. q = <<x>>
  OBVIOUS
<1> HIDE DEF q
<1>3. /\ x.do \in {"map", "sig"} => Asking(q, {x.o})
      /\ x.do \in {"link", "dev"} => Asking(q, {})
      /\ Ordered(q)
  BY <1>1, <1>2, AskOne
<1>4. UNCHANGED <<rgDevs, rgSigs, rgMaps, rgTold, rgMine>>
  BY DEF rgLists, rgProgram
<1>5. rgTodo' = q
  BY <1>2
<1>6. CASE x.do \in {"map", "sig"} /\ x.o \in Listed
  <2>1. Asking(q, {x.o}) /\ {x.o} \subseteq Listed
    BY <1>3, <1>6
  <2> QED BY <1>3, <1>4, <1>5, <2>1, RemovalTold
<1>7. CASE x.do \in {"link", "dev"}
  <2>1. Asking(q, {}) /\ {} \subseteq Listed
    BY <1>3, <1>7
  <2> QED BY <1>3, <1>4, <1>5, <2>1, RemovalTold
<1> QED BY <1>6, <1>7

LEMMA ReceiveUnmappedTold ==
  ASSUME Inv, Accounts, NEW m \in RgMap, RgReceiveUnmapped(m)
  PROVE  Accounts'
<1> DEFINE x == RgThing("map", m, "removed")
<1>1. /\ rgTodo = << >> /\ rgCbs # << >> /\ rgTodo' = <<x>> /\ m \in Listed /\ UNCHANGED rgLists /\ UNCHANGED rgProgram
  BY DEF RgReceiveUnmapped, RgIdle, RgDo, Listed
<1>2. x \in Ends /\ x.do = "map" /\ x.o = m
  BY EndsOne
<1> HIDE DEF x
<1> QED BY <1>1, <1>2, OneRemovalTold

LEMMA ReceiveSignalRemovedTold ==
  ASSUME Inv, Accounts, NEW s \in RgSig, RgReceiveSignalRemoved(s)
  PROVE  Accounts'
<1> DEFINE x == RgThing("sig", s, "removed")
<1>1. /\ rgTodo = << >> /\ rgCbs # << >> /\ rgTodo' = <<x>> /\ s \in Listed /\ UNCHANGED rgLists /\ UNCHANGED rgProgram
  BY DEF RgReceiveSignalRemoved, RgIdle, RgDo, Listed
<1>2. x \in Ends /\ x.do = "sig" /\ x.o = s
  BY EndsOne
<1> HIDE DEF x
<1> QED BY <1>1, <1>2, OneRemovalTold

LEMMA ReceiveLogoutTold ==
  ASSUME Inv, Accounts, NEW d \in RgDev, RgReceiveLogout(d)
  PROVE  Accounts'
<1> DEFINE x == RgThing("dev", d, "removed")
<1>1. /\ rgTodo = << >> /\ rgCbs # << >> /\ rgTodo' = <<x>> /\ UNCHANGED rgLists /\ UNCHANGED rgProgram
  BY DEF RgReceiveLogout, RgIdle, RgDo
<1>2. x \in Ends /\ x.do = "dev"
  BY EndsOne
<1> HIDE DEF x
<1> QED BY <1>1, <1>2, OneRemovalTold

LEMMA LoseLinkTold ==
  ASSUME Inv, Accounts, NEW k \in rgLinks, RgLoseLink(k)
  PROVE  Accounts'
<1> DEFINE x == RgThing("link", k, "expired")
<1>1. /\ rgTodo = << >> /\ rgCbs # << >> /\ rgTodo' = <<x>> /\ UNCHANGED rgLists /\ UNCHANGED rgProgram
  BY DEF RgLoseLink, RgIdle, RgDo
<1>2. x \in Ends /\ x.do = "link"
  BY EndsOne DEF Inv, Types
<1> HIDE DEF x
<1> QED BY <1>1, <1>2, OneRemovalTold

LEMMA FreeDevTold ==
  ASSUME Inv, Accounts, RgFreeDev
  PROVE  Accounts'
<1> DEFINE q == RgEach("link", RgLinksOf(RgLocal), "removed")
<1>1. /\ rgTodo = << >> /\ rgCbs # << >> /\ rgTodo' = q
      /\ UNCHANGED <<rgDevs, rgSigs, rgMaps, rgTold, rgMine>>
  BY DEF RgFreeDev, RgIdle, RgDo, rgProgram
<1>2. RgLinksOf(RgLocal) \in SUBSET Bonds
  BY DEF Inv, Types, RgLinksOf
<1>3. Asking(q, {}) /\ ~Some(q, OfMaps) /\ All(q, Early)
  BY <1>2, AskLinks
<1> HIDE DEF q
<1>4. Ordered(q)
  BY <1>3, WithoutSome DEF Ordered, All, Grouped
<1>5. {} \subseteq Listed
  OBVIOUS
<1> QED BY <1>1, <1>3, <1>4, <1>5, RemovalTold

LEMMA HousekeepingTold ==
  ASSUME Inv, Accounts, NEW silent \in SUBSET RgRemote, RgHousekeeping(silent)
  PROVE  Accounts'
<1> DEFINE a == RgEach("dev", silent, "expired")
           x == RgThing("dev", RgLocal, "removed")
           b == IF RgLocal \in rgMarked THEN <<x>> ELSE << >>
           y == RgThing("sweep", RgLocal, "removed")
           c == <<y>>
           q == (a \o b) \o c
<1>1. silent \in SUBSET RgDev /\ RgLocal \in RgDev
  BY RgAssumption DEF RgRemote
<1>2. x \in Ends /\ x.do = "dev" /\ x \in Tasks
  BY <1>1, EndsOne DEF Ends
<1>3. y \in Tasks /\ y.do = "sweep" /\ y \in Ends
  <2>1. y \in Tasks /\ y.do = "sweep" /\ y.e = "removed"
    BY <1>1, ThingIs DEF Events
  <2> QED BY <2>1 DEF Ends
<1>4. /\ rgTodo = << >> /\ rgCbs # << >> /\ rgTodo' = q
      /\ UNCHANGED <<rgDevs, rgSigs, rgMaps, rgTold, rgMine>>
  <2>1. /\ rgTodo = << >> /\ rgCbs # << >> /\ UNCHANGED rgLists /\ UNCHANGED rgProgram
        /\ rgTodo' = a \o b \o <<y>>
    BY DEF RgHousekeeping, RgIdle, RgDo
  <2> QED BY <2>1 DEF rgLists, rgProgram
<1>5. Asking(a, {}) /\ ~Some(a, OfMaps) /\ ~Some(a, Early)
  BY <1>1, AskDevs
<1>6. b = <<x>> \/ b = << >>
  OBVIOUS
<1>7. c = <<y>>
  OBVIOUS
<1> HIDE DEF a, x, b, y, c
<1>8. x \notin OfMaps /\ x \notin Early /\ y \notin OfMaps /\ y \notin Early
  BY <1>2, <1>3, TellsIs
<1>9. Asking(c, {}) /\ ~Some(c, OfMaps) /\ ~Some(c, Early)
  BY <1>3, <1>7, <1>8, AskOne
<1>10. Asking(b, {}) /\ ~Some(b, OfMaps) /\ ~Some(b, Early)
  <2>1. CASE b = <<x>>
    BY <2>1, <1>2, <1>8, AskOne
  <2>2. CASE b = << >>
    BY <2>2, Nothing, AddingBegins DEF Asking
  <2> QED BY <1>6, <2>1, <2>2
<1> DEFINE ab == a \o b
<1>11. Asking(ab, {} \cup {}) /\ Joins(a, b, ab)
  <2>1. {} \cap {} = {}
    OBVIOUS
  <2>2. Asking(ab, {} \cup {})
    BY <1>5, <1>10, <2>1, AskBoth
  <2>3. a \in Seq(Tasks) /\ b \in Seq(Tasks) /\ ab = a \o b
    BY <1>5, <1>10 DEF Asking
  <2> HIDE DEF ab
  <2> QED BY <2>2, <2>3, JoinedAs
<1>12. q = ab \o c
  OBVIOUS
<1> HIDE DEF ab, q
<1>13. Asking(ab, {}) /\ ~Some(ab, OfMaps) /\ ~Some(ab, Early)
  <2>1. {} \cup {} = {}
    OBVIOUS
  <2> QED BY <2>1, <1>5, <1>10, <1>11 DEF Joins
<1>14. Asking(q, {}) /\ ~Some(q, OfMaps) /\ ~Some(q, Early)
  <2>1. {} \cup {} = {}
    OBVIOUS
  <2>2. Asking(q, {} \cup {})
    BY <1>9, <1>12, <1>13, AskBoth
  <2>3. Joins(ab, c, q)
    BY <1>9, <1>12, <1>13, JoinedAs DEF Asking
  <2> QED BY <2>1, <2>2, <2>3, <1>9, <1>13 DEF Joins
<1>15. Ordered(q)
  BY <1>14, WithoutSome DEF Ordered
<1>16. {} \subseteq Listed
  OBVIOUS
<1> QED BY <1>4, <1>14, <1>15, <1>16, RemovalTold

LEMMA CleanupTold ==
  ASSUME Inv, Accounts, NEW given \in SUBSET RgMap, RgCleanup(given)
  PROVE  Accounts'
<1> DEFINE gone == RgListed \cap rgMarked
           late == {m \in RgListed \ gone : RgIsLocal(m) /\ rgMaps[m].is # "active"} \cap given
           a == RgEach("map", gone, "removed")
           b == RgEach("map", late, "expired")
           q == a \o b
<1>1. /\ rgTodo = << >> /\ rgCbs # << >> /\ rgTodo' = q
      /\ UNCHANGED <<rgDevs, rgSigs, rgMaps, rgTold, rgMine>>
  BY DEF RgCleanup, RgIdle, RgDo, rgLists, rgProgram
<1>2. gone \in SUBSET RgMap /\ late \in SUBSET RgMap /\ gone \cup late \subseteq Listed /\ gone \cap late = {}
  BY DEF Inv, Types, Listed
<1> HIDE DEF gone, late
<1>3. /\ Asking(a, gone) /\ All(a, OfMaps) /\ All(a, Early)
      /\ Asking(b, late) /\ All(b, OfMaps) /\ All(b, Early)
  BY <1>2, AskMaps
<1> HIDE DEF a, b
<1>4. Asking(q, gone \cup late) /\ Joins(a, b, q)
  BY <1>2, <1>3, AskBoth, JoinedAs DEF Asking
<1> HIDE DEF q
<1>5. All(q, OfMaps) /\ All(q, Early)
  BY <1>3, <1>4 DEF Joins
<1>6. Ordered(q)
  BY <1>5 DEF Ordered, All, Grouped
<1> QED BY <1>1, <1>2, <1>4, <1>6, RemovalTold

(* mpr_graph_free forgets the handlers first. *)
LEMMA FreeGraphTold ==
  ASSUME Inv, Accounts, RgFreeGraph
  PROVE  Accounts'
<1>1. rgCbs' = << >> /\ UNCHANGED <<rgTold, rgMine>>
  BY DEF RgFreeGraph
<1>2. Watched' = Watched
  BY <1>1 DEF Watched
<1> QED BY <1>1, <1>2 DEF Accounts

-----------------------------------------------------------------------------
LEMMA InitTold ==
  ASSUME RgInit
  PROVE  Accounts
<1>1. /\ rgDevs = {RgLocal} /\ rgSigs \subseteq RgSig /\ RgListed = {} /\ rgTodo = << >>
      /\ rgTold = [o \in RgDev \cup RgSig \cup RgMap |-> IF o \in rgDevs \cup rgSigs THEN "there" ELSE "none"]
  BY DEF RgInit, RgListed
<1>2. Here = rgSigs /\ Watched \in SUBSET Records /\ Records \cap RgDev = {} /\ RgLocal \in RgDev
  BY <1>1, RgAssumption DEF Here, Watched, Records
<1>3. \A o \in Watched : rgTold[o] # "wrong" /\ (rgTold[o] = "there" <=> o \in Here)
  BY <1>1, <1>2 DEF Records
<1>4. \A d \in RgDev : rgTold[d] = "there" => d \in rgDevs
  <2>1. \A d \in RgDev : d \notin rgSigs
    BY <1>1, <1>2 DEF Records
  <2> QED BY <1>1, <2>1
<1>5. rgTodo \in Seq(Tasks) /\ Adding(rgTodo)
  BY <1>1, AddingBegins
<1>6. Kept(rgTodo, rgTold, Here, Listed, rgDevs, Watched)
  BY <1>1, <1>2, <1>3, <1>4, <1>5, WhileAddingKept
<1> QED BY <1>3, <1>6 DEF Accounts

LEMMA StutterTold ==
  ASSUME Inv, Accounts, UNCHANGED rgVars
  PROVE  Accounts'
<1>1. UNCHANGED <<rgDevs, rgSigs, rgMaps, rgCbs, rgTold, rgMine, rgTodo>>
  BY DEF rgVars
<1>2. Here' = Here /\ Listed' = Listed /\ Watched' = Watched
  BY <1>1 DEF Here, Listed, Watched, RgListed
<1> QED BY <1>1, <1>2 DEF Accounts

LEMMA StepTold ==
  ASSUME Inv, Accounts, RgStep
  PROVE  Accounts'
BY TakeApartTold, UnlistTold, CutTold, FreedTold, UnlinkTold, StartTold, HandlerTold, AddSigTold,
   AddMapTold, SweepTold DEF RgStep

(* Every step keeps account. *)
LEMMA NextTold ==
  ASSUME Inv, Accounts, RgNext
  PROVE  Accounts'
<1>1. CASE RgStep
  BY <1>1, StepTold
<1>2. ASSUME NEW d \in RgDev, NEW names \in RgLinkedTo, RgReceiveDevice(d, names) PROVE Accounts'
  BY <1>2, ReceiveDeviceTold
<1>3. ASSUME NEW s \in RgSig, RgReceiveSignal(s) \/ RgReceiveSignalRemoved(s) \/ RgFreeSig(s) PROVE Accounts'
  BY <1>3, ReceiveSignalTold, ReceiveSignalRemovedTold, FreeSigTold
<1>4. ASSUME NEW m \in RgMap, NEW S \in SUBSET RgMapSrc[m], RgReceiveMap(m, S) PROVE Accounts'
  BY <1>4, ReceiveMapTold
<1>5. ASSUME NEW m \in RgMap, RgReady(m) \/ RgActivate(m) \/ RgReceiveUnmapped(m) PROVE Accounts'
  BY <1>5, ReadyTold, ActivateTold, ReceiveUnmappedTold
<1>6. ASSUME NEW m \in RgMap, NEW mine \in BOOLEAN, RgUnmap(m, mine) PROVE Accounts'
  BY <1>6, UnmapTold
<1>7. ASSUME NEW d \in RgDev, RgReceiveLogout(d) PROVE Accounts'
  BY <1>7, ReceiveLogoutTold
<1>8. ASSUME NEW k \in rgLinks, RgLoseLink(k) PROVE Accounts'
  BY <1>8, LoseLinkTold
<1>9. CASE RgFreeDev \/ RgAddCb \/ RgFreeGraph
  BY <1>9, FreeDevTold, AddCbTold, FreeGraphTold
<1>10. ASSUME NEW silent \in SUBSET RgRemote, RgHousekeeping(silent) PROVE Accounts'
  BY <1>10, HousekeepingTold
<1>11. ASSUME NEW given \in SUBSET RgMap, RgCleanup(given) PROVE Accounts'
  BY <1>11, CleanupTold
<1> QED BY <1>1, <1>2, <1>3, <1>4, <1>5, <1>6, <1>7, <1>8, <1>9, <1>10, <1>11 DEF RgNext

(* Between two messages nothing is left to be told. *)
LEMMA InvIsTold ==
  ASSUME Inv, Accounts
  PROVE  RgTold
<1>1. \A o \in RgSig \cup (RgMap \ rgMine) : rgTold[o] # "wrong"
  BY DEF Accounts, Watched
<1>2. ASSUME rgTodo = << >>, rgCbs # << >>
      PROVE  /\ \A o \in Watched : rgTold[o] = "there" <=> o \in Here
             /\ \A d \in RgDev : rgTold[d] = "there" => d \in rgDevs
  <2>1. Adding(rgTodo) /\ rgTodo \in Seq(Tasks)
    BY <1>2, AddingBegins DEF Inv, Types
  <2>2. Kept(rgTodo, rgTold, Here, Listed, rgDevs, Watched)
    BY <1>2 DEF Accounts
  <2> QED BY <1>2, <2>1, <2>2, ToldIsHere
<1>3. \A s \in RgSig : s \in Watched /\ (s \in Here <=> s \in rgSigs)
  <2>1. RgListed \subseteq RgMap /\ RgSig \cap RgMap = {}
    BY RgAssumption DEF Inv, Types
  <2> QED BY <2>1 DEF Watched, Here
<1>4. \A m \in RgMap \ rgMine : m \in Watched /\ (m \in Here <=> m \in RgListed /\ rgMaps[m].is = "active")
  <2>1. rgSigs \subseteq RgSig /\ RgSig \cap RgMap = {}
    BY RgAssumption DEF Inv, Types
  <2> QED BY <2>1 DEF Watched, Here
<1> QED BY <1>1, <1>2, <1>3, <1>4 DEF RgTold

(* A program that keeps account of what its first handler is told knows what there is, whatever     *)
(* comes, goes and changes, and whatever the handlers do to each other while one of them is called. *)
THEOREM ProgramIsTold == RgSpec => []RgTold
<1>1. RgInit => Inv /\ Accounts
  BY InitSafe, InitTold
<1>2. Inv /\ Accounts /\ [RgNext]_rgVars => Inv' /\ Accounts'
  BY NextSafe, StutterSafe, NextTold, StutterTold
<1>3. Inv /\ Accounts => RgTold
  BY InvIsTold
<1> QED BY <1>1, <1>2, <1>3, PTL DEF RgSpec
=============================================================================
