--------------------------- MODULE InstancesProps ---------------------------
(***************************************************************************)
(* What the bookkeeping of instances promises the program and its peers.   *)
(***************************************************************************)
EXTENDS Instances

Entries(s) == DOMAIN id_maps[s]
Users(c)   == {p \in UNION {{s} \X Entries(s) : s \in Sigs} :
                 id_maps[p[1]][p[2]].id_map = c /\ id_maps[p[1]][p[2]].inst # NoInst}

(* No signal keeps a pointer to a cell that went back to the reserve list: *)
(* the cell would be reused for another id, and the old entry would answer *)
(* for it.                                                                 *)
NoDanglingCell ==
  \A s \in Sigs : \A k \in Entries(s) :
    id_maps[s][k].id_map # NoCell => id_maps[s][k].id_map \in Range(active)

(* The local count of a cell is the number of signals whose instances use  *)
(* it: no release is counted twice or forgotten.                           *)
CountsMatch ==
  \A c \in Range(active) :
    ~cell[c].indirect => cell[c].LID_refcount = Cardinality(Users(c))

(* A cell that nobody uses any more is not in the active list: cells do    *)
(* not leak, whatever order the two sides release in.                      *)
NoLeak == \A c \in Range(active) : cell[c].LID_refcount + cell[c].GID_refcount > 0

(* Ids are unambiguous: the cells of a device never share a global id.     *)
DistinctGIDs == \A c, d \in Range(active) : cell[c].GID = cell[d].GID => c = d

(* At most one upstream id is redirected to a persistent instance, and the *)
(* mark on its cell says whether one is.                                   *)
OneRedirection ==
  \A c \in Range(active) :
    LET I == {d \in Range(active) : cell[d].indirect /\ cell[d].LID = cell[c].GID}
    IN  ~cell[c].indirect => Cardinality(I) = IF cell[c].remapped THEN 1 ELSE 0

(* The cells are exact: their counts, their marks and their ids.  Two sides *)
(* that release in any order, handlers that release inside the release and  *)
(* messages that come twice leave nothing behind.                           *)
CellsExact == CountsMatch /\ NoLeak /\ DistinctGIDs /\ OneRedirection

(* A value is ignored as belonging to a released instance only if the      *)
(* program did release that instance, and is delivered only if not: an     *)
(* upstream instance stays refused until upstream has released it.  Not so *)
(* after the peer was out of scope: release_inst_by_origin gives up the    *)
(* upstream count, and values that come later do not take it again.        *)
Refusal ==
  [][use.unscoped = {} =>
     /\ last'.fate = "ignored" => <<last'.sig, last'.gid>> \in refused
     /\ last'.fate = "value"   => <<last'.sig, last'.gid>> \notin refused]_vars

=============================================================================
