------------------------------- MODULE Tables -------------------------------
(***************************************************************************)
(* The properties of one signal (src/table.c, src/object.c, and the part of *)
(* src/message.c and src/signal.c that carries them): the table of the     *)
(* process that owns the signal, the records of it that other processes    *)
(* keep, the table in which such a process stages what it wants changed,   *)
(* and the messages between them.                                          *)
(*                                                                         *)
(* A table is a sorted sequence of records that is searched by bisection.  *)
(* Removed records stay in it until the removal was told to everybody.     *)
(* Values are short vectors; the key of a record is a number, ordered as   *)
(* compare_rec orders properties: first those of the library, then those   *)
(* of the program.                                                         *)
(*                                                                         *)
(* Messages to the subscribers and to the owner arrive, in order.  TbMay   *)
(* names what programs do beyond the bounds of a run; each entry leads to a *)
(* divergence which the README describes.                                  *)
(***************************************************************************)
EXTENDS Naturals, Sequences, SequencesExt, FiniteSetsExt

CONSTANTS
  TbStatic,   \* keys of properties the library knows (max)
  TbExtra,    \* keys of properties a program adds
  TbValue,    \* their values, vectors that are not empty
  TbPeer,     \* other processes with a record of the signal
  TbShared,   \* those of them that other processes change
  TbSecret,   \* the value of what is not published
  TbMay,      \* what programs do, of {"rewrite", "again", "hide"}
  TbMaxOps    \* bound on what programs do

ASSUME TbKeysAssumption == \A s \in TbStatic, e \in TbExtra : s < e
ASSUME TbMayAssumption == TbMay \subseteq {"rewrite", "again", "hide"}

VARIABLES
  tbOwn,      \* props.synced of the owner
  tbMirror,   \* per peer, props.synced of its record
  tbStaged,   \* per peer, props.staged
  tbDown,     \* per peer, messages of the owner under way
  tbUp,       \* per peer, messages to the owner under way
  tbUnsent,   \* history: the owner changed something since it last sent
  tbGone,     \* history: the properties that were removed
  tbOps

tbVars == <<tbOwn, tbMirror, tbStaged, tbDown, tbUp, tbUnsent, tbGone, tbOps>>

TbKey == TbStatic \cup TbExtra
TbNone == <<>>    \* no value

-----------------------------------------------------------------------------
(* Tables. *)

(* mpr_tbl_sort *)
TbSort(t) == SortSeq(t, LAMBDA l, r : l.key < r.key)

(* bsearch, of mpr_tbl_get_record: the place of a key, 0 if it is not found *)
TbFind(t, k) ==
  LET half[lo \in 1..(Len(t) + 1), hi \in 0..Len(t)] ==
        IF lo > hi THEN 0
        ELSE LET mid == (lo + hi) \div 2
             IN IF t[mid].key = k THEN mid
                ELSE IF t[mid].key < k THEN half[mid + 1, hi] ELSE half[lo, mid - 1]
  IN half[1, Len(t)]

(* add_record_internal: properties of the program may be changed by anybody *)
TbNew(k, flags) ==
  [key |-> k, val |-> TbNone, removed |-> FALSE,
   flags |-> IF k \in TbExtra THEN flags \cup {"loc", "rem"} ELSE flags]

(* update_elements, for vectors of one type, and the flag that something was set *)
TbUpdate(rec, v) == [rec EXCEPT !.val = v, !.flags = @ \cup {"set"}]

TbMod(rec) == rec.flags \cap {"loc", "rem"}

(* set_internal: the table, and whether it changed *)
TbSet(t, k, v, flags) ==
  LET i == TbFind(t, k)
      r == [TbUpdate(t[i], v) EXCEPT !.removed = FALSE]
  IN IF i = 0 THEN [t |-> TbSort(Append(t, TbUpdate(TbNew(k, flags), v))), updated |-> TRUE]
     ELSE IF TbMod(t[i]) = {} THEN [t |-> t, updated |-> FALSE]
     ELSE [t |-> [t EXCEPT ![i] = IF k \in TbExtra THEN [r EXCEPT !.flags = flags] ELSE r],
           updated |-> t[i].val # v]

(* mpr_tbl_remove_record *)
TbRemove(t, k, flags) ==
  LET i == TbFind(t, k)
  IN IF i = 0 THEN [t |-> t, updated |-> FALSE]
     ELSE IF t[i].val = TbNone \/ TbMod(t[i]) \cap flags = {} THEN [t |-> t, updated |-> FALSE]
     ELSE [t |-> [t EXCEPT ![i].val = TbNone, ![i].removed = TRUE], updated |-> TRUE]

TbFromAtomAnyway(t, a, own) ==            \* mistake: private records are open to messages
  LET i == TbFind(t, a.key)
  IN CASE own /\ a.key \in TbStatic -> [t |-> t, updated |-> FALSE]
       [] a.remove -> TbRemove(t, a.key, {"rem"})
       [] i = 0 -> [t |-> TbSort(Append(t, TbUpdate(TbNew(a.key, {"rem"}), a.val))), updated |-> TRUE]
       [] OTHER -> [t |-> [t EXCEPT ![i] = TbUpdate(t[i], a.val)], updated |-> t[i].val # a.val]

(* mpr_tbl_add_record_from_msg_atom, and the lines of mpr_sig_set_from_msg  *)
(* before it: an owner takes orders for the properties of programs only    *)
TbFromAtom(t, a, own) ==
  LET i == TbFind(t, a.key)
  IN CASE own /\ a.key \in TbStatic -> [t |-> t, updated |-> FALSE]
       [] a.remove -> TbRemove(t, a.key, {"rem"})
       [] i = 0 -> [t |-> TbSort(Append(t, TbUpdate(TbNew(a.key, {"rem"}), a.val))), updated |-> TRUE]
       [] "acc_loc" \in t[i].flags \/ TbMod(t[i]) = {} -> [t |-> t, updated |-> FALSE]
       [] OTHER -> [t |-> [t EXCEPT ![i] = TbUpdate(t[i], a.val)], updated |-> t[i].val # a.val]

(* mpr_tbl_clear_empty_records: what follows a record that is taken out is *)
(* passed over and keeps its mark                                          *)
TbClearEmpty(t) ==
  LET done(i) == t[i].removed /\ t[i].val = TbNone
      from[i \in 1..(Len(t) + 2)] ==
        IF i > Len(t) THEN <<>>
        ELSE IF ~done(i) THEN <<t[i]>> \o from[i + 1]
        ELSE IF t[i].key \in TbStatic THEN <<[t[i] EXCEPT !.removed = FALSE]>> \o from[i + 1]
        ELSE (IF i < Len(t) THEN <<t[i + 1]>> ELSE <<>>) \o from[i + 2]
  IN from[1]

(* mpr_tbl_get_record_by_key: what a program is told, and whether others know *)
TbGet(t, k) == LET i == TbFind(t, k) IN IF i = 0 \/ t[i].removed THEN TbNone ELSE t[i].val
TbPublic(t, k) ==
  LET i == TbFind(t, k) IN IF i = 0 \/ "acc_loc" \in t[i].flags THEN TbNone ELSE TbGet(t, k)

-----------------------------------------------------------------------------
(* Messages: words that are keys, marked when they are removed, or values. *)

(* mpr_record_add_to_msg *)
TbRecordWords(r) ==
  IF "acc_loc" \in r.flags \/ "set" \notin r.flags \/ (r.val = TbNone /\ r.key \in TbStatic)
  THEN <<>>
  ELSE <<[is |-> "key", of |-> r.key, remove |-> r.removed]>>
       \o [i \in 1..Len(r.val) |-> [is |-> "value", of |-> r.val[i], remove |-> FALSE]]

(* mpr_tbl_add_to_msg *)
TbWords(t) == FlattenSeq([i \in 1..Len(t) |-> TbRecordWords(t[i])])

(* mpr_msg_parse_props: a key takes the words up to the next one; without   *)
(* any it counts only if it says what is removed                            *)
TbParse(w) ==
  LET keys == {i \in 1..Len(w) : w[i].is = "key"}
      after(i) == Min({j \in keys : j > i} \cup {Len(w) + 1})
      atom(i) == [key |-> w[i].of, remove |-> w[i].remove,
                  val |-> [j \in 1..(after(i) - i - 1) |-> w[i + j].of]]
  IN SelectSeq([n \in 1..Cardinality(keys) |-> atom(SetToSortSeq(keys, <)[n])],
               LAMBDA a : a.val # TbNone \/ a.remove)

(* mpr_sig_set_from_msg: the table, and whether anything changed *)
TbFromMsg(t, w, own) ==
  FoldLeft(LAMBDA u, a : LET v == TbFromAtom(u.t, a, own)
                         IN [t |-> v.t, updated |-> u.updated \/ v.updated],
           [t |-> t, updated |-> FALSE], TbParse(w))

-----------------------------------------------------------------------------
TbInit ==
  /\ tbOwn = <<>> /\ tbMirror = [p \in TbPeer |-> <<>>] /\ tbStaged = [p \in TbPeer |-> <<>>]
  /\ tbDown = [p \in TbPeer |-> <<>>] /\ tbUp = [p \in TbPeer |-> <<>>]
  /\ tbUnsent = FALSE /\ tbGone = {} /\ tbOps = 0

TbSpend == tbOps < TbMaxOps /\ tbOps' = tbOps + 1

(* Whether the bounds let a program set a property that has a value, set    *)
(* again one that was removed, or set in private what may be public.        *)
TbAllowed(t, k, publish) ==
  /\ (k \in TbExtra /\ TbGet(t, k) # TbNone) => "rewrite" \in TbMay
  /\ k \in tbGone => "again" \in TbMay
  /\ (~publish /\ (TbGet(t, k) # TbNone \/ k \in TbStatic)) => "hide" \in TbMay

(* mpr_obj_set_prop, for a signal of this process *)
TbOwnerSet(k, v, publish) ==
  LET flags == IF publish THEN {"loc"} ELSE {"loc", "acc_loc"}
      s == TbSet(tbOwn, k, IF publish THEN v ELSE TbSecret, flags)
  IN /\ TbSpend /\ TbAllowed(tbOwn, k, publish)
     /\ tbOwn' = s.t /\ tbUnsent' = (tbUnsent \/ s.updated)
     /\ UNCHANGED <<tbMirror, tbStaged, tbDown, tbUp, tbGone>>

(* mpr_obj_remove_prop; peers do not change what is removed *)
TbOwnerRemove(k) ==
  LET r == TbRemove(tbOwn, k, {"loc"})
  IN /\ TbSpend /\ k \in TbExtra \ TbShared /\ r.updated
     /\ tbOwn' = r.t /\ tbUnsent' = TRUE /\ tbGone' = tbGone \cup {k}
     /\ UNCHANGED <<tbMirror, tbStaged, tbDown, tbUp>>

TbTell(t) == tbDown' = [p \in TbPeer |-> Append(tbDown[p], TbWords(t))]

(* mpr_obj_push, for a signal of this process *)
TbOwnerPush ==
  /\ tbUnsent /\ tbUnsent' = FALSE /\ TbTell(tbOwn)
  /\ UNCHANGED <<tbOwn, tbMirror, tbStaged, tbUp, tbGone, tbOps>>

TbOwnerHandleClearFirst(p) ==             \* mistake: what is removed is forgotten before it is told
  LET s == TbFromMsg(tbOwn, Head(tbUp[p]), TRUE)
  IN /\ tbUp[p] # <<>> /\ tbUp' = [tbUp EXCEPT ![p] = Tail(@)]
     /\ IF s.updated
        THEN TbTell(TbClearEmpty(s.t)) /\ tbOwn' = TbClearEmpty(s.t) /\ tbUnsent' = FALSE
        ELSE tbOwn' = s.t /\ UNCHANGED <<tbDown, tbUnsent>>
     /\ UNCHANGED <<tbMirror, tbStaged, tbGone, tbOps>>

(* handler_sig_mod *)
TbOwnerHandle(p) ==
  LET s == TbFromMsg(tbOwn, Head(tbUp[p]), TRUE)
  IN /\ tbUp[p] # <<>> /\ tbUp' = [tbUp EXCEPT ![p] = Tail(@)]
     /\ IF s.updated
        THEN TbTell(s.t) /\ tbOwn' = TbClearEmpty(s.t) /\ tbUnsent' = FALSE
        ELSE tbOwn' = s.t /\ UNCHANGED <<tbDown, tbUnsent>>
     /\ UNCHANGED <<tbMirror, tbStaged, tbGone, tbOps>>

(* mpr_obj_set_prop, for a signal of another process: what is published is  *)
(* staged, if it may be changed                                            *)
TbPeerStage(p, k, v) ==
  LET i == TbFind(tbMirror[p], k)
      s == TbSet(tbStaged[p], k, v, {"rem"})
  IN /\ TbSpend /\ k \in TbStatic \cup TbShared /\ TbAllowed(tbStaged[p], k, TRUE)
     /\ IF k \in TbStatic /\ i # 0 THEN TbMod(tbMirror[p][i]) # {} ELSE TRUE
     /\ tbStaged' = [tbStaged EXCEPT ![p] = s.t]
     /\ UNCHANGED <<tbOwn, tbMirror, tbDown, tbUp, tbUnsent, tbGone>>

(* the same, not to be published, and mpr_obj_remove_prop of such a property *)
TbPeerKeep(p, k) ==
  /\ TbSpend /\ k \in TbExtra /\ TbAllowed(tbMirror[p], k, FALSE)
  /\ tbMirror' = [tbMirror EXCEPT ![p] = TbSet(@, k, TbSecret, {"loc", "acc_loc"}).t]
  /\ UNCHANGED <<tbOwn, tbStaged, tbDown, tbUp, tbUnsent, tbGone>>

TbPeerDrop(p, k) ==
  LET i == TbFind(tbMirror[p], k) IN
  /\ TbSpend /\ i # 0 /\ "acc_loc" \in tbMirror[p][i].flags /\ TbGet(tbMirror[p], k) # TbNone
  /\ tbMirror' = [tbMirror EXCEPT ![p] = TbRemove(@, k, {"loc"}).t]
  /\ UNCHANGED <<tbOwn, tbStaged, tbDown, tbUp, tbUnsent, tbGone>>

(* mpr_obj_push, for a signal of another process *)
TbPeerPush(p) ==
  /\ tbStaged[p] # <<>>
  /\ tbUp' = [tbUp EXCEPT ![p] = Append(@, TbWords(tbStaged[p]))]
  /\ tbStaged' = [tbStaged EXCEPT ![p] = <<>>]
  /\ UNCHANGED <<tbOwn, tbMirror, tbDown, tbUnsent, tbGone, tbOps>>

(* handler_sig, mpr_graph_add_sig *)
TbPeerHandle(p) ==
  /\ tbDown[p] # <<>> /\ tbDown' = [tbDown EXCEPT ![p] = Tail(@)]
  /\ tbMirror' = [tbMirror EXCEPT ![p] = TbFromMsg(@, Head(tbDown[p]), FALSE).t]
  /\ UNCHANGED <<tbOwn, tbStaged, tbUp, tbUnsent, tbGone, tbOps>>

TbNext ==
  \/ \E k \in TbKey, v \in TbValue, publish \in BOOLEAN : TbOwnerSet(k, v, publish)
  \/ \E k \in TbKey : TbOwnerRemove(k)
  \/ TbOwnerPush
  \/ \E p \in TbPeer :
       \/ TbOwnerHandle(p) \/ TbPeerPush(p) \/ TbPeerHandle(p)
       \/ \E k \in TbKey : TbPeerKeep(p, k) \/ TbPeerDrop(p, k)
       \/ \E k \in TbKey, v \in TbValue : TbPeerStage(p, k, v)

-----------------------------------------------------------------------------
(* When everything was sent and has arrived, every process is told of the  *)
(* same public properties as the owner, whoever changed them and in        *)
(* whatever order, but for those it keeps a private note under.            *)
TbAgree ==
  (~tbUnsent /\ \A p \in TbPeer : tbDown[p] = <<>> /\ tbUp[p] = <<>>) =>
    \A p \in TbPeer, k \in TbKey :
      LET i == TbFind(tbMirror[p], k)
      IN \/ i # 0 /\ "acc_loc" \in tbMirror[p][i].flags
         \/ TbPublic(tbMirror[p], k) = TbPublic(tbOwn, k)

(* What a program set without publishing it is never in a message, and a   *)
(* message never changes it.                                               *)
TbPrivate ==
  /\ \A p \in TbPeer : \A w \in Range(FlattenSeq(tbDown[p] \o tbUp[p])) :
       w.is = "value" => w.of \notin Range(TbSecret)
  /\ \A t \in {tbOwn} \cup Range(tbMirror) : \A i \in DOMAIN t :
       "acc_loc" \in t[i].flags => t[i].val \in {TbSecret, TbNone}
=============================================================================
