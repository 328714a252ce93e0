----------------------------- MODULE Instances -----------------------------
(***************************************************************************)
(* Signal instances and their ids (src/src/signal.c, src/src/device.c).    *)
(*                                                                         *)
(* A signal owns a fixed pool of instances.  The program names an instance *)
(* by a local id (LID); peers name it by a global id (GID).  The device    *)
(* keeps the pairs in reference-counted cells (mpr_id_map) that all its    *)
(* signals share: LID_refcount counts signals that use the cell locally,   *)
(* GID_refcount counts upstream users.  Each signal has an array of        *)
(* entries that bind one of its instances to a cell.  A released instance  *)
(* leaves its entry behind until the other side has released it too.       *)
(* Persistent (not ephemeral) signals never give up a cell; a second GID   *)
(* is then redirected to the first by an indirect cell.                    *)
(*                                                                         *)
(* One device and one group of signals.  Handlers of the program run       *)
(* inside the calls: what they answer is chosen by the action.             *)
(***************************************************************************)
EXTENDS Integers, Sequences, FiniteSets, SequencesExt

CONSTANTS
  Sigs,         \* local signals of the group
  Inputs,       \* those with direction MPR_DIR_IN
  NumInst,      \* instances a signal has at first
  MaxInst,      \* bound: instances of a signal after reserving more
  LIDs,         \* local ids the program uses
  GIDs,         \* global ids used by the peer upstream
  MAX_INST,     \* entries of a signal (128 in the code)
  MaxCells,     \* bound: cells of the device
  Setups        \* what signals are used for: see use below

ASSUME SigsAssumption == Inputs \subseteq Sigs /\ NumInst \in 1 .. MaxInst
ASSUME IdsAssumption ==    \* generated ids come before those of peers, no clash
  LIDs \subseteq Nat /\ GIDs \cap (0 .. MaxCells + 1) = {}
ASSUME SetupsAssumption == Setups \subseteq
  [persistent : SUBSET Inputs, mapped : SUBSET Sigs, plain : SUBSET Inputs,
   set : SUBSET Sigs, unscoped : SUBSET Inputs, managed : SUBSET Inputs,
   grown : SUBSET Sigs]

VARIABLES
  use,      \* which signals are persistent (not ephemeral), are mapped from
            \* upstream with or without ids (plain), are set by the program,
            \* may lose the peer's scope (unscoped), are the destination of an
            \* expression that manages instances, and get more instances
  cell,     \* mpr_id_map: the contents of every cell
  active,   \* mpr_local_dev.id_maps.active[group]: list of cells
  inst,     \* mpr_local_sig.inst: [id, on] by instance; on is MPR_STATUS_ACTIVE
  id_maps,  \* mpr_local_sig.id_maps: sequence of [id_map, inst, status]
  map_gid,  \* GID in mpr_local_map.id_map, of the map that manages a signal
  live,     \* (signal, GID) for which a value was accepted and no release came
  refused,  \* those of them whose instance the program released
  last      \* what became of the last message: [sig, gid, fate]

vars == <<use, cell, active, inst, id_maps, map_gid, live, refused, last>>

-----------------------------------------------------------------------------
Cells == 1 .. MaxCells
NoCell == 0    \* a null mpr_id_map
NoInst == 0    \* a null mpr_sig_inst
NoEntry == [id_map |-> NoCell, inst |-> NoInst, status |-> {}]
NoLID == -1
Empty == [LID |-> NoLID, GID |-> 0, LID_refcount |-> 0, GID_refcount |-> 0,
          indirect |-> FALSE, remapped |-> FALSE]
Ephemeral(s) == s \notin use.persistent

(* The part of the state that the functions below pass on to each other. *)
World == [cell |-> cell, active |-> active, inst |-> inst,
          id_maps |-> id_maps, map_gid |-> map_gid, live |-> live, refused |-> refused]

Becomes(w) ==
  /\ cell' = w.cell /\ active' = w.active /\ inst' = w.inst
  /\ id_maps' = w.id_maps /\ map_gid' = w.map_gid /\ live' = w.live /\ refused' = w.refused

(* First index of the sequence with property P, 0 if none. *)
FirstIdx(seq, P(_)) ==
  LET I == {i \in DOMAIN seq : P(seq[i])}
  IN  IF I = {} THEN 0 ELSE CHOOSE i \in I : \A j \in I : i <= j

-----------------------------------------------------------------------------
(* Cells of the device *)

FirstCell(w, P(_)) ==
  LET i == FirstIdx(w.active, P) IN IF i = 0 THEN NoCell ELSE w.active[i]

(* mpr_dev_get_id_map_by_LID: only a cell in local use has a local id. *)
ByLID(w, L) ==
  FirstCell(w, LAMBDA c : w.cell[c].LID = L /\ w.cell[c].LID_refcount > 0)

(* mpr_dev_get_id_map_by_GID *)
ByGID(w, G) == FirstCell(w, LAMBDA c : w.cell[c].GID = G)

(* mpr_dev_generate_unique_id: an id that nothing holds. *)
UniqueId(w) ==
  LET free == (1 .. MaxCells + 1) \ ({w.cell[c].GID : c \in Range(w.active)}
                                      \cup Range(w.map_gid))
  IN  CHOOSE n \in free : \A m \in free : n <= m

(* mpr_dev_add_id_map.  The cell comes from the reserve list or is new: it *)
(* makes no difference which, only that cells that were removed are used   *)
(* again.  A GID of 0 asks for a generated one.                            *)
AddIdMap(w, L, G, indirect) ==
  LET spare == Cells \ Range(w.active)
      c == CHOOSE c \in spare : \A d \in spare : c <= d
  IN  [w EXCEPT !.cell[c] = [LID |-> L, GID |-> IF G = 0 THEN UniqueId(w) ELSE G,
                             LID_refcount |-> 1, GID_refcount |-> 0,
                             indirect |-> indirect, remapped |-> @.remapped],
                !.active = <<c>> \o @]

(* mpr_dev_remove_id_map.  What a removed cell still says is forgotten:    *)
(* only an entry that kept a pointer to it could read that.                *)
RemoveIdMap(w, c) ==
  [w EXCEPT !.active = SelectSeq(@, LAMBDA d : d # c),
            !.cell[c] = [Empty EXCEPT !.remapped = w.cell[c].remapped]]

(* mpr_dev_LID_decref; the caller learns from the lists if it was removed. *)
LIDDecref(w, c) ==
  LET n == IF w.cell[c].LID_refcount > 0 THEN w.cell[c].LID_refcount - 1 ELSE 0
      v == [w EXCEPT !.cell[c].LID_refcount = n]
  IN  IF n = 0 /\ w.cell[c].GID_refcount = 0 THEN RemoveIdMap(v, c) ELSE v

Removed(v, c) == c \notin Range(v.active)

GIDDecrefOnce(w, c) ==
  LET n == IF w.cell[c].GID_refcount > 0 THEN w.cell[c].GID_refcount - 1 ELSE 0
      v == [w EXCEPT !.cell[c].GID_refcount = n]
  IN  IF n = 0 /\ w.cell[c].LID_refcount = 0 THEN RemoveIdMap(v, c) ELSE v

GIDDecrefKeep(w, c) ==      \* mistake: the cell behind an indirect one is forgotten
  LET n == IF w.cell[c].GID_refcount > 0 THEN w.cell[c].GID_refcount - 1 ELSE 0
      v == [w EXCEPT !.cell[c].GID_refcount = n]
  IN  IF n = 0 /\ w.cell[c].LID_refcount <= (IF w.cell[c].indirect THEN 1 ELSE 0)
      THEN RemoveIdMap(v, c) ELSE v

GIDDecrefUsed(w, c) ==      \* mistake: local use is not looked at
  LET n == IF w.cell[c].GID_refcount > 0 THEN w.cell[c].GID_refcount - 1 ELSE 0
      v == [w EXCEPT !.cell[c].GID_refcount = n]
  IN  IF n = 0 THEN RemoveIdMap(v, c) ELSE v

(* mpr_dev_GID_decref: the end of an indirect cell ends its remapping. *)
GIDDecref(w, c) ==
  LET n == IF w.cell[c].GID_refcount > 0 THEN w.cell[c].GID_refcount - 1 ELSE 0
      v == [w EXCEPT !.cell[c].GID_refcount = n]
      t == IF w.cell[c].indirect THEN ByGID(v, w.cell[c].LID) ELSE NoCell
      u == IF t = NoCell THEN v
           ELSE GIDDecrefOnce([v EXCEPT !.cell[t].remapped = FALSE], t)
  IN  IF n = 0 /\ w.cell[c].LID_refcount <= (IF w.cell[c].indirect THEN 1 ELSE 0)
      THEN RemoveIdMap(u, c) ELSE v

-----------------------------------------------------------------------------
(* Instances and entries of a signal *)

(* mpr_local_sig.inst is sorted by id: the first with property P. *)
FirstInst(w, s, P(_)) ==
  LET I == {i \in DOMAIN w.inst[s] : P(i)}
  IN  IF I = {} THEN NoInst
      ELSE CHOOSE i \in I : \A j \in I : w.inst[s][i].id <= w.inst[s][j].id

(* _find_inst_by_id *)
InstById(w, s, L) == FirstInst(w, s, LAMBDA i : w.inst[s][i].id = L)

(* _get_id_map_idx_by_inst_idx *)
EntryOf(w, s, i) == FirstIdx(w.id_maps[s], LAMBDA e : e.inst = i)

(* _init_and_add_id_map: binds instance i to cell c in the first entry     *)
(* without a cell; the array doubles up to MAX_INST.  Result 0 for -1.     *)
InitAndAdd(w, s, i, c) ==
  LET m == w.id_maps[s]
      k == FirstIdx(m, LAMBDA e : e.id_map = NoCell)
      full == k = 0 /\ Len(m) >= MAX_INST
      grown == IF k # 0 THEN m
               ELSE m \o [j \in 1 .. (IF Len(m) = 0 THEN 1 ELSE Len(m)) |-> NoEntry]
      at == IF k # 0 THEN k ELSE Len(m) + 1
      v == [w EXCEPT !.inst[s][i].on = TRUE]
  IN  IF full THEN [w |-> v, k |-> 0]
      ELSE [w |-> [v EXCEPT !.id_maps[s] = [grown EXCEPT ![at] =
                               [id_map |-> c, inst |-> i, status |-> {}]],
                            !.inst[s][i].id = w.cell[c].LID],
            k |-> at]

(* The end of get_inst_by_ids (label done) for a local or a global id. *)
ClaimLID(w, s, i, c, L) ==
  LET v == [w EXCEPT !.inst[s][i].id = L]
      u == IF c = NoCell THEN AddIdMap(v, L, 0, FALSE)
           ELSE [v EXCEPT !.cell[c].LID_refcount = @ + 1]
  IN  InitAndAdd(u, s, i, IF c = NoCell THEN Head(u.active) ELSE c)

ClaimGID(w, s, i, c, r, G) ==
  LET u == IF c = NoCell THEN AddIdMap(w, w.inst[s][i].id, G, FALSE)
           ELSE [w EXCEPT !.cell[c].LID_refcount = @ + 1]
      d == IF c = NoCell THEN Head(u.active) ELSE c
      v == [u EXCEPT !.cell[d].GID_refcount = @ + 1]
      x == IF r = NoCell THEN v ELSE [v EXCEPT !.cell[r].GID_refcount = @ + 1]
  IN  InitAndAdd(x, s, i, d)

(* get_inst_by_ids, with a local id *)
GetInstByLID(w, s, L) ==
  LET found == InstById(w, s, L)
      idle  == FirstInst(w, s, LAMBDA i : ~Ephemeral(s) \/ ~w.inst[s][i].on)
      i == IF found # NoInst THEN found ELSE idle
  IN  IF i = NoInst THEN [w |-> w, k |-> 0] ELSE ClaimLID(w, s, i, ByLID(w, L), L)

(* get_inst_by_ids: an instance of a persistent input whose cell has no    *)
(* upstream user takes the new GID through an indirect cell.               *)
Redirect(w, c, G) ==
  LET v == AddIdMap(w, w.cell[c].GID, G, TRUE)
      d == Head(v.active)
  IN  [v EXCEPT !.cell[c].remapped = TRUE, !.cell[d].GID_refcount = @ + 1]

Unclaimed(w, c) == ~w.cell[c].remapped /\ w.cell[c].GID_refcount = 0

GetInstOfPersistent(w, s, G) ==
  LET k == FirstIdx(w.id_maps[s], LAMBDA e :
             e.inst # NoInst /\ e.id_map # NoCell /\ Unclaimed(w, e.id_map))
      c == w.id_maps[s][k].id_map
      free == FirstCell(w, LAMBDA d :
                Unclaimed(w, d) /\ InstById(w, s, w.cell[d].LID) # NoInst)
  IN  IF k # 0
      THEN [w |-> [Redirect(w, c, G) EXCEPT !.cell[c].GID_refcount = @ + 1], k |-> k]
      ELSE IF free # NoCell
      THEN ClaimGID(Redirect(w, free, G), s, InstById(w, s, w.cell[free].LID), free,
                    NoCell, G)
      ELSE [w |-> w, k |-> 0]

(* get_inst_by_ids, with a global id *)
GetInstByGID(w, s, G) ==
  LET c == ByGID(w, G)
      r == IF c = NoCell THEN NoCell ELSE ByLID(w, G)
      found == IF c = NoCell THEN NoInst ELSE InstById(w, s, w.cell[c].LID)
      idle  == FirstInst(w, s, LAMBDA i : /\ ~Ephemeral(s) \/ ~w.inst[s][i].on
                                          /\ ByLID(w, w.inst[s][i].id) = NoCell)
      Taken(i) ==
        CASE i # NoInst -> ClaimGID(w, s, i, c, r, G)
          [] i = NoInst /\ s \in Inputs /\ ~Ephemeral(s) -> GetInstOfPersistent(w, s, G)
          [] OTHER -> [w |-> w, k |-> 0]
  IN  Taken(IF found # NoInst THEN found ELSE idle)

-----------------------------------------------------------------------------
(* Release by the program *)

(* process_maps, for a released instance: a map that manages it lets go. *)
Unmanage(w, s, c) ==
  IF w.map_gid[s] = w.cell[c].GID THEN GIDDecref([w EXCEPT !.map_gid[s] = 0], c) ELSE w

ReleaseEntryForget(w, s, k) ==      \* mistake: upstream's count is not waited for
  LET e == w.id_maps[s][k]
      v == LIDDecref(Unmanage(w, s, e.id_map), e.id_map)
      G == w.cell[e.id_map].GID
  IN  [v EXCEPT !.id_maps[s][k] = NoEntry,
                !.inst[s][e.inst].on = FALSE,
                !.refused = IF <<s, G>> \in w.live THEN @ \cup {<<s, G>>} ELSE @]

(* mpr_sig_release_inst_internal *)
ReleaseEntry(w, s, k) ==
  LET e == w.id_maps[s][k]
      G == w.cell[e.id_map].GID
      Over(v) == Removed(v, e.id_map) \/ s \notin Inputs \/ "remotely" \in e.status
      Left(v) == [v EXCEPT !.id_maps[s][k] = IF Over(v) THEN [@ EXCEPT !.id_map = NoCell, !.inst = NoInst]
                                             ELSE [@ EXCEPT !.inst = NoInst, !.status = @ \cup {"locally"}],
                           !.inst[s][e.inst].on = FALSE,
                           !.refused = IF <<s, G>> \in w.live THEN @ \cup {<<s, G>>} ELSE @]
  IN  Left(LIDDecref(Unmanage(w, s, e.id_map), e.id_map))

(* mpr_sig_release_inst *)
ReleaseInst(w, s, L) ==
  LET i == InstById(w, s, L)
      k == IF i = NoInst THEN 0 ELSE EntryOf(w, s, i)
  IN  IF ~Ephemeral(s) \/ k = 0 THEN w ELSE ReleaseEntry(w, s, k)

(* mpr_sig_get_id_map_with_LID, the search before the activation *)
EntryWithLID(w, s, L, flags) ==
  LET k == FirstIdx(w.id_maps[s], LAMBDA e :
             e.inst # NoInst /\ e.id_map # NoCell /\ w.cell[e.id_map].LID = L)
  IN  [found |-> k # 0,
       k |-> IF k # 0 /\ w.id_maps[s][k].status \subseteq flags THEN k ELSE 0]

(* mpr_sig_get_id_map_with_LID.  victim is the local id that the handler   *)
(* releases when it is told of an overflow, or of the oldest or newest     *)
(* instance; NoLID if it releases none.                                    *)
GetWithLID(w, s, L, flags, victim) ==
  LET e == EntryWithLID(w, s, L, flags)
      Again(first) == IF first.k # 0 THEN first
                      ELSE GetInstByLID(ReleaseInst(first.w, s, victim), s, L)
  IN  IF e.found THEN [w |-> w, k |-> e.k] ELSE Again(GetInstByLID(w, s, L))

(* mpr_sig_get_id_map_with_GID, the search before the activation *)
EntryWithGID(w, s, G, flags) ==
  LET k == FirstIdx(w.id_maps[s], LAMBDA e : e.id_map # NoCell /\ w.cell[e.id_map].GID = G)
  IN  [found |-> k # 0,
       k |-> IF k # 0 /\ w.id_maps[s][k].status \subseteq flags THEN k ELSE 0]

(* mpr_sig_get_id_map_with_GID *)
GetWithGID(w, s, G, flags, activate, victim) ==
  LET e == EntryWithGID(w, s, G, flags)
      Again(first) == IF first.k # 0 THEN first
                      ELSE GetInstByGID(ReleaseInst(first.w, s, victim), s, G)
  IN  IF e.found \/ ~activate THEN [w |-> w, k |-> e.k] ELSE Again(GetInstByGID(w, s, G))

-----------------------------------------------------------------------------
(* The program: calls it makes, and answers its handlers give              *)

(* mpr_sig_set_value, mpr_sig_activate_inst *)
SetValue(w, s, L, victim) ==
  LET G(v, k) == v.cell[v.id_maps[s][k].id_map].GID
      Wanted(r) == IF r.k = 0 THEN r.w ELSE [r.w EXCEPT !.refused = @ \ {<<s, G(r.w, r.k)>>}]
  IN  Wanted(GetWithLID(w, s, L, {}, victim))

(* A handler called for instance L: it does nothing, releases the          *)
(* instance, or copies the value to the same instance of another signal.   *)
Answers == {"nothing", "release", "copy"}

Handle(w, s, L, answer) ==
  CASE answer = "nothing" -> w
    [] answer = "release" -> ReleaseInst(w, s, L)
    [] answer = "copy" ->
         FoldLeft(LAMBDA v, t : SetValue(v, t, L, NoLID), w,
                  SetToSeq(use.set \ {s}))

-----------------------------------------------------------------------------
(* Messages from upstream: mpr_sig_osc_handler                             *)

Report(s, g, fate) == last' = [sig |-> s, gid |-> g, fate |-> fate]
Quietly == last' = [sig |-> "none", gid |-> 0, fate |-> "none"]

Target(w, g) ==     \* the GID a message is about, after indirection
  LET r == ByGID(w, g)
      indirect == r # NoCell /\ w.cell[r].indirect
  IN  [G |-> IF indirect THEN w.cell[r].LID ELSE g, remote |-> IF indirect THEN r ELSE NoCell]

(* A value for global id g. *)
ReceiveValue(s, g, victim, answer) ==
  /\ s \in use.mapped
  /\ \E r \in {GetWithGID(World, s, Target(World, g).G, {"locally"}, s \in Inputs, victim)} :
       LET e == r.w.id_maps[s][r.k]
           w == [r.w EXCEPT !.live = @ \cup {<<s, g>>}]
       IN  \/ /\ r.k = 0
              /\ Becomes(r.w) /\ Quietly
           \/ /\ r.k # 0 /\ "locally" \in e.status
              /\ Becomes(w) /\ Report(s, g, "ignored")
           \/ /\ r.k # 0 /\ "locally" \notin e.status /\ s \notin Inputs
              /\ Becomes(w) /\ Quietly
           \/ /\ r.k # 0 /\ "locally" \notin e.status /\ s \in Inputs
              /\ Becomes(Handle(w, s, w.cell[e.id_map].LID, answer))
              /\ Report(s, g, "value")
  /\ UNCHANGED use

(* A release of global id g: the entry of an instance that the program     *)
(* released before is done with; otherwise the program is told, and may    *)
(* release the instance in its handler or later.                           *)
ReceiveRelease(s, g, answer) ==
  LET t == Target(World, g)
      k == EntryWithGID(World, s, t.G, {"locally"}).k
      e == id_maps[s][k]
      w == [World EXCEPT !.live = @ \ {<<s, g>>}, !.refused = @ \ {<<s, g>>}]
      marked == IF Ephemeral(s) THEN [w EXCEPT !.id_maps[s][k].status = @ \cup {"remotely"}]
                ELSE w
      counted == GIDDecref(marked, e.id_map)
      both == IF t.remote = NoCell THEN counted ELSE GIDDecref(counted, t.remote)
  IN  /\ s \in use.mapped
      /\ \/ /\ k = 0
            /\ Becomes(w)
         \/ /\ k # 0 /\ "locally" \in e.status
            /\ Becomes([GIDDecref(w, IF t.remote = NoCell THEN e.id_map ELSE t.remote)
                          EXCEPT !.id_maps[s][k] = NoEntry])
         \/ /\ k # 0 /\ "locally" \notin e.status
            /\ Becomes(Handle(both, s, cell[e.id_map].LID, answer))
      /\ Quietly
      /\ UNCHANGED use

(* A message without an id, from a signal without instances: a release     *)
(* concerns the first active instance, a value all of them; if there is    *)
(* none, one is activated in either case.                                  *)
ReceivePlain(s, hasValue, victim, answer) ==
  LET on == FirstInst(World, s, LAMBDA i : inst[s][i].on)
      i == IF on # NoInst THEN on ELSE FirstInst(World, s, LAMBDA j : TRUE)
      ids(w) == {w.inst[s][j].id : j \in {j \in DOMAIN w.inst[s] : w.inst[s][j].on}}
      told(r) == IF hasValue THEN ids(r.w) ELSE {r.w.inst[s][r.w.id_maps[s][r.k].inst].id}
  IN  /\ s \in use.plain
      /\ \E r \in {GetWithLID(World, s, inst[s][i].id, {"remotely"}, victim)} :
           Becomes(IF r.k = 0 THEN r.w
                   ELSE FoldLeft(LAMBDA w, L : Handle(w, s, L, answer), r.w, SetToSeq(told(r))))
      /\ Quietly
      /\ UNCHANGED use

(* mpr_local_sig_release_inst_by_origin: the map was released or the peer  *)
(* left its scope.                                                         *)
ReleaseByOrigin(s, answer) ==
  LET remote(w, e) == /\ e.inst # NoInst /\ e.id_map # NoCell
                      /\ w.inst[s][e.inst].on /\ w.cell[e.id_map].GID \in GIDs
      step(w, k) ==
        LET e == w.id_maps[s][k]
        IN  IF ~remote(w, e) THEN w
            ELSE Handle(GIDDecref(w, e.id_map), s, w.inst[s][e.inst].id, answer)
      told == {cell[id_maps[s][k].id_map].GID :
                 k \in {k \in DOMAIN id_maps[s] : remote(World, id_maps[s][k])}}
      w == FoldLeft(step, [World EXCEPT !.live = @ \ ({s} \X told)],
                    [k \in DOMAIN id_maps[s] |-> k])
  IN  /\ s \in use.unscoped /\ Ephemeral(s)
      /\ \E k \in DOMAIN id_maps[s] : remote(World, id_maps[s][k])
      /\ Becomes(w)
      /\ Quietly
      /\ UNCHANGED use

-----------------------------------------------------------------------------
(* An expression that manages the instances of its destination             *)

(* A map that has no global id claims one. *)
ClaimMapGID(w, s) ==
  [w EXCEPT !.map_gid[s] = IF @ = 0 THEN UniqueId(w) ELSE @]

DropMapGID(w, s, c) == GIDDecref([w EXCEPT !.map_gid[s] = 0], c)

(* mpr_local_sig_set_inst_value: the expression says in status whether the *)
(* instance is released before, updated, and released after.  Its sources  *)
(* have no instances, so that it is always about the one with index 0.     *)
(* If it is not active one is activated with the map's id, and so is one   *)
(* that the handler of the release gave back.  onRelease and onUpdate are  *)
(* the handlers' answers.                                                  *)
Claimed(w, s, flags) ==
  GetWithGID(ClaimMapGID(w, s), s, ClaimMapGID(w, s).map_gid[s], flags, TRUE, NoLID)

(* Its steps, on a record of the state w and the entry e of the instance. *)
EntryAt(s, c) == [w |-> c.w, e |-> c.w.id_maps[s][c.k]]
IsOn(s, r) == r.w.inst[s][r.e.inst].on
Tell(s, r, answer) == [r EXCEPT !.w = Handle(@, s, @.inst[s][r.e.inst].id, answer)]
Drop(s, r) == [r EXCEPT !.w = DropMapGID(@, s, r.e.id_map)]
Renewed(s, r) == IF IsOn(s, r) THEN r ELSE EntryAt(s, Claimed(r.w, s, {"locally"}))
TellIfOn(s, r, answer) == IF IsOn(s, r) THEN Tell(s, r, answer) ELSE r

SetInstValue(s, status, onRelease, onUpdate) ==
  LET k == EntryOf(World, s, 1)
      Before(r) == IF k # 0 /\ "before" \in status THEN Tell(s, Drop(s, r), onRelease) ELSE r
      Update(r) == IF "update" \in status THEN Tell(s, Renewed(s, r), onUpdate) ELSE r
      After(r) == IF "after" \in status THEN TellIfOn(s, Drop(s, r), onRelease) ELSE r
  IN  /\ s \in use.managed
      /\ k # 0 \/ "update" \in status
      /\ \E c \in {IF k # 0 THEN [w |-> World, k |-> k] ELSE Claimed(World, s, {"remotely"})} :
           Becomes(IF c.k = 0 THEN c.w ELSE After(Update(Before(EntryAt(s, c)))).w)
      /\ Quietly
      /\ UNCHANGED use

-----------------------------------------------------------------------------
(* Calls of the program                                                    *)

ProgramSets(s, L, victim) ==
  /\ s \in use.set
  /\ Becomes(SetValue(World, s, L, victim))
  /\ Quietly
  /\ UNCHANGED use

ProgramReleases(s, L) ==
  /\ \E i \in DOMAIN inst[s] : inst[s][i].id = L /\ inst[s][i].on
  /\ Ephemeral(s)
  /\ Becomes(ReleaseInst(World, s, L))
  /\ Quietly
  /\ UNCHANGED use

(* mpr_sig_reserve_inst, _reserve_inst: one more, with the lowest free id. *)
ReserveInst(s) ==
  LET ids == {inst[s][i].id : i \in DOMAIN inst[s]}
      lowest == CHOOSE n \in 0 .. Cardinality(ids) :
                  n \notin ids /\ \A m \in 0 .. n - 1 : m \in ids
  IN  /\ s \in use.grown /\ Len(inst[s]) < MaxInst
      /\ inst' = [inst EXCEPT ![s] = Append(@, [id |-> lowest, on |-> FALSE])]
      /\ Quietly
      /\ UNCHANGED <<use, cell, active, id_maps, map_gid, live, refused>>

-----------------------------------------------------------------------------
(* Bound: a call that may need cells finds them. *)
Roomy == Len(active) + 2 <= MaxCells

Init ==
  /\ use \in Setups
  /\ cell = [c \in Cells |-> Empty]
  /\ active = <<>>
  /\ inst = [s \in Sigs |-> [i \in 1 .. NumInst |-> [id |-> i - 1, on |-> FALSE]]]
  /\ id_maps = [s \in Sigs |-> <<NoEntry>>]
  /\ map_gid = [s \in Sigs |-> 0] /\ live = {} /\ refused = {}
  /\ last = [sig |-> "none", gid |-> 0, fate |-> "none"]

Next ==
  \E s \in Sigs :
    \/ \E g \in GIDs, v \in LIDs \cup {NoLID}, a \in Answers :
          Roomy /\ ReceiveValue(s, g, v, a)
    \/ \E g \in GIDs, a \in Answers : Roomy /\ ReceiveRelease(s, g, a)
    \/ \E b \in BOOLEAN, v \in LIDs \cup {NoLID}, a \in Answers :
          Roomy /\ ReceivePlain(s, b, v, a)
    \/ \E a \in Answers : Roomy /\ ReleaseByOrigin(s, a)
    \/ \E a, b \in Answers, status \in SUBSET {"before", "update", "after"} \ {{}} :
          Roomy /\ SetInstValue(s, status, a, b)
    \/ \E L \in LIDs, v \in LIDs \cup {NoLID} : Roomy /\ ProgramSets(s, L, v)
    \/ \E L \in LIDs : ProgramReleases(s, L)
    \/ ReserveInst(s)

Spec == Init /\ [][Next]_vars
=============================================================================
