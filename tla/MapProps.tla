------------------------------ MODULE MapProps ------------------------------
(***************************************************************************)
(* What programs change of an active map: where its expression is evaluated, *)
(* the expression, whether it is muted, and from which devices it passes on *)
(* instances (src/map.c, and handler_map_mod and handler_mapped of         *)
(* src/network.c).                                                         *)
(*                                                                         *)
(* The ends of the map are in two processes, "src" and "dst"; a third one, *)
(* "mon", holds a record of it.  A program of any of them stages changes   *)
(* and sends them to both ends; the end in charge of the expression, by its *)
(* own record and the message, applies them and sends the whole state to   *)
(* the others.  Each message arrives, in order between two processes.      *)
(*                                                                         *)
(* An expression is known by what matters here: "past" reads its output's  *)
(* history and says so in the letters the code looks for, "hidden" reads it *)
(* in other letters, "bad" does not compile.  MpMay names what programs do *)
(* beyond the bounds of a run; the README says what each leads to.         *)
(***************************************************************************)
EXTENDS Naturals, Sequences, SequencesExt

CONSTANTS
  MpOrigin,   \* devices from which instances come
  MpExpr,     \* expressions, of {"plain", "other", "past", "hidden", "bad"}
  MpMay,      \* of {"batch", "idle", "pastsrc", "badmove", "first", "unlist", "hasty"}
  MpMaxOps    \* bound on what programs do and devices that leave

ASSUME MpExprAssumption == MpExpr \subseteq {"plain", "other", "past", "hidden", "bad"}

VARIABLES
  mpRec,      \* per process, its record of the map
  mpStaged,   \* per process, props.staged
  mpQ,        \* messages under way, from one process to another
  mpBye,      \* <<d, p>>: p has still to hear that d left
  mpSaid,     \* history: per process, what its program staged on devices
  mpWish,     \* history: whether instances of a device are to pass
  mpOps

mpVars == <<mpRec, mpStaged, mpQ, mpBye, mpSaid, mpWish, mpOps>>

MpEnd == {"src", "dst"}
MpProc == MpEnd \cup {"mon"}
MpNone == "none"
MpAll == <<"all">>   \* allow_origin[0] or block_origin[0] is NULL
MpNoList == [op |-> MpNone, names |-> <<>>]
MpNothing == [loc |-> MpNone, expr |-> MpNone, muted |-> MpNone, allow |-> MpNoList, block |-> MpNoList]

MpReadsPast(expr) == expr \in {"past", "hidden"}    \* mpr_expr_get_dst_mlen > 1
MpOther(p) == IF p = "allow" THEN "block" ELSE "allow"

-----------------------------------------------------------------------------
(* Scopes. *)

MpHasScopeListed(r, d) == r.allow = MpAll \/ d \in Range(r.allow) \* mistake: nor asks who is blocked

(* mpr_local_map_get_has_scope *)
MpHasScope(r, d) ==
  IF r.allow = MpAll THEN d \notin Range(r.block) ELSE d \in Range(r.allow)

(* mpr_map_remove_scope_internal: the entries after the one that follows    *)
(* move up, not those after the one that is to go                          *)
MpForget(s, d) ==
  LET i == CHOOSE j \in 1..Len(s) : s[j] = d
  IN IF d \notin Range(s) THEN s
     ELSE [k \in 1..(Len(s) - 1) |-> IF k <= i THEN s[k] ELSE s[k + 1]]

(* remove_scope: the record, and whether it changed *)
MpRemoveScope(r, p, d) ==
  CASE r[p] = <<>> -> [r |-> r, updated |-> FALSE]
    [] d = "all" -> [r |-> [r EXCEPT ![p] = <<>>], updated |-> TRUE]
    [] r[p] = MpAll -> [r |-> r, updated |-> FALSE]
    [] OTHER -> [r |-> [r EXCEPT ![p] = SelectSeq(@, LAMBDA e : e # d)], updated |-> d \in Range(r[p])]

(* add_scope: what is done to the other list is not counted as a change *)
MpAddScope(r, p, d) ==
  LET added == [r EXCEPT ![p] = IF d \in Range(@) THEN @ ELSE Append(@, d)]
  IN CASE r[p] = MpAll -> [r |-> IF d = "all" THEN r ELSE MpRemoveScope(r, MpOther(p), d).r, updated |-> FALSE]
       [] d = "all" -> [r |-> [r EXCEPT ![p] = MpAll], updated |-> TRUE]
       [] OTHER -> [r |-> MpRemoveScope(added, MpOther(p), d).r, updated |-> d \notin Range(r[p])]

(* The same operation for each of several devices. *)
MpEach(Op(_, _, _), r, p, ds) ==
  FoldLeft(LAMBDA u, d : LET v == Op(u.r, p, d) IN [r |-> v.r, updated |-> u.updated \/ v.updated],
           [r |-> r, updated |-> FALSE], ds)

(* update_scope: the list becomes what the message lists, unless it was "all" *)
MpUpdateScope(r, p, ds) ==
  LET gone == IF r[p] = MpAll THEN <<>> ELSE SelectSeq(r[p], LAMBDA e : e \notin Range(ds))
      less == MpEach(MpRemoveScope, r, p, gone)
      more == MpEach(MpAddScope, less.r, p, ds)
  IN CASE ds = MpAll -> MpAddScope(r, p, "all")
       [] ds = <<>> -> MpRemoveScope(r, p, "all")
       [] OTHER -> [r |-> more.r, updated |-> less.updated \/ more.updated]

(* The cases ALLOW_ORIGIN and BLOCK_ORIGIN of mpr_map_set_from_msg *)
MpScope(r, p, atom) ==
  CASE atom = MpNoList -> [r |-> r, updated |-> FALSE]
    [] atom.op = "add" -> MpEach(MpAddScope, r, p, atom.names)
    [] atom.op = "remove" -> MpEach(MpRemoveScope, r, p, atom.names)
    [] OTHER -> MpUpdateScope(r, p, atom.names)

(* stage_scope: a record is found by its property, whether it adds or removes *)
MpStageScope(s, p, d, op) ==
  LET kept == CASE op = "remove" -> s[p].op
                [] s[p].op = "remove" -> "set"
                [] OTHER -> s[p].op
  IN IF s[p] = MpNoList THEN [s EXCEPT ![p] = [op |-> op, names |-> <<d>>]]
     ELSE IF d = "all" THEN [s EXCEPT ![p] = [op |-> kept, names |-> <<d>>]]
     ELSE IF s[p].names = MpAll THEN s
     ELSE [s EXCEPT ![p] = [op |-> kept, names |-> Append(s[p].names, d)]]

(* mpr_map_allow_origin, mpr_map_block_origin *)
MpStageOrigin(r, s, p, d) ==
  LET add == MpStageScope(s, p, d, "add")
  IN IF d = "all" \/ d \in Range(r[MpOther(p)]) THEN MpStageScope(add, MpOther(p), d, "remove") ELSE add

-----------------------------------------------------------------------------
(* Expression and place. *)

(* set_expr and replace_expr_str at end e, for the place in the record: the *)
(* record, and whether it counts as changed                                *)
MpSetExpr(e, r, expr) ==
  CASE r.loc # e -> [r |-> [r EXCEPT !.expr = expr, !.compiled = MpNone], updated |-> TRUE]
    [] r.loc = e /\ r.compiled # MpNone /\ r.expr = expr -> [r |-> r, updated |-> TRUE]
    [] r.loc = e /\ expr = "bad" ->
         [r |-> [r EXCEPT !.alive = r.compiled # MpNone], updated |-> FALSE]
    [] r.loc = e /\ e = "src" /\ MpReadsPast(expr) /\ ~(r.compiled # MpNone /\ r.expr = expr) ->
         [r |-> [r EXCEPT !.expr = expr, !.loc = "dst"], updated |-> TRUE]
    [] OTHER -> [r |-> [r EXCEPT !.expr = expr, !.compiled = expr], updated |-> TRUE]

(* mpr_local_map_set_from_msg *)
MpLocalSet(e, r, m) ==
  LET loc == IF m.expr = "past" THEN "dst" ELSE IF m.loc # MpNone THEN m.loc ELSE r.loc
      set == IF m.expr # MpNone \/ loc # r.loc
             THEN MpSetExpr(e, [r EXCEPT !.loc = loc], IF m.expr # MpNone THEN m.expr ELSE r.expr)
             ELSE [r |-> r, updated |-> FALSE]
      updated == set.updated \/ set.r.loc # r.loc
  IN [r |-> IF updated THEN [set.r EXCEPT !.ver = @ + 1] ELSE set.r, updated |-> updated]

(* The properties of a record that is not of an end, which are just taken. *)
MpTake(r, m) ==
  LET taken == [r EXCEPT !.loc = IF m.loc # MpNone THEN m.loc ELSE @,
                         !.expr = IF m.expr # MpNone THEN m.expr ELSE @]
  IN [r |-> taken, updated |-> taken # r]

(* mpr_map_set_from_msg; ver is 0 in a message without a version *)
MpSetFromMsg(p, r, m) ==
  LET local == IF p \in MpEnd THEN MpLocalSet(p, r, m) ELSE MpTake(r, m)
      allow == MpScope(local.r, "allow", m.allow)
      block == MpScope(allow.r, "block", m.block)
      rest == [block.r EXCEPT !.muted = IF m.muted # MpNone THEN m.muted ELSE @,
                              !.ver = IF m.ver # 0 THEN m.ver ELSE @]
  IN IF p \in MpEnd /\ m.ver # 0 /\ m.ver < r.ver THEN [r |-> r, updated |-> FALSE]
     ELSE [r |-> rest, updated |-> local.updated \/ allow.updated \/ block.updated \/ rest # block.r]

MpInChargeNow(e, r, m) == e = r.loc       \* mistake: the message is not asked

(* mpr_local_map_get_process_loc_from_msg, in handler_map_mod *)
MpInCharge(e, r, m) ==
  LET expr == IF m.expr # MpNone THEN m.expr ELSE r.expr
  IN e = IF expr = "past" THEN "dst" ELSE IF m.loc # MpNone THEN m.loc ELSE r.loc

(* handler_mapped: whether the message is from the end in charge *)
MpFromCharge(e, r, m) == e # IF m.expr = "past" THEN "dst" ELSE m.loc

(* mpr_map_send_state, MSG_MAPPED: a list that is empty says so *)
MpState(r) ==
  [is |-> "mapped", loc |-> r.loc, expr |-> r.expr, muted |-> r.muted, ver |-> r.ver,
   allow |-> [op |-> "set", names |-> r.allow], block |-> [op |-> "set", names |-> r.block]]

(* mpr_map_send_state, MSG_MAP_MOD *)
MpModify(p, s, ver) ==
  [is |-> "modify", loc |-> s.loc, expr |-> s.expr, muted |-> s.muted, allow |-> s.allow,
   block |-> s.block, ver |-> IF p \in MpEnd THEN ver ELSE 0]

-----------------------------------------------------------------------------
(* mpr_map_init, and the handshake of MapHandshake *)
MpInit ==
  /\ mpRec = [p \in MpProc |->
       [alive |-> TRUE, ver |-> 1, loc |-> "src", expr |-> "plain", muted |-> "off",
        compiled |-> IF p = "src" THEN "plain" ELSE MpNone, allow |-> MpAll, block |-> <<>>]]
  /\ mpStaged = [p \in MpProc |-> MpNothing]
  /\ mpQ = [pq \in MpProc \X MpProc |-> <<>>] /\ mpBye = {}
  /\ mpSaid = [p \in MpProc |-> <<>>] /\ mpWish = [of |-> [d \in MpOrigin |-> TRUE], rest |-> TRUE]
  /\ mpOps = 0

MpQuiet == mpBye = {} /\ \A pq \in MpProc \X MpProc : mpQ[pq] = <<>>

MpSpend == mpOps < MpMaxOps /\ mpOps' = mpOps + 1 /\ (~MpQuiet => "hasty" \in MpMay)

(* mpr_obj_set_prop, for a property of the map *)
MpStage(p, prop, val) ==
  /\ MpSpend /\ mpStaged' = [mpStaged EXCEPT ![p][prop] = val]
  /\ UNCHANGED <<mpRec, mpQ, mpBye, mpSaid, mpWish>>

(* mpr_map_allow_origin, mpr_map_block_origin *)
MpStageList(p, list, d) ==
  /\ MpSpend
  /\ (mpStaged[p].allow # MpNoList \/ mpStaged[p].block # MpNoList) => "batch" \in MpMay
  /\ mpStaged' = [mpStaged EXCEPT ![p] = MpStageOrigin(mpRec[p], @, list, d)]
  /\ mpSaid' = [mpSaid EXCEPT ![p] = Append(@, [pass |-> list = "allow", d |-> d])]
  /\ UNCHANGED <<mpRec, mpQ, mpBye, mpWish>>

MpWished(w, said) ==
  IF said.d = "all" THEN [of |-> [e \in MpOrigin |-> said.pass], rest |-> said.pass]
  ELSE [w EXCEPT !.of[said.d] = said.pass]

(* What goes wrong if p sends what it staged: its version runs ahead of the *)
(* other end's; an expression that reads the past, or does not compile, is  *)
(* moved; a device is only taken off the other list, which is not counted  *)
(* as a change; other messages are under way.                              *)
MpRisks(p, r, s) ==
  {what \in {"idle", "pastsrc", "badmove", "unlist", "hasty"} :
    CASE what = "idle" -> p \in MpEnd /\ \E e \in MpEnd : r.ver > mpRec[e].ver
      [] what = "pastsrc" -> s.loc = "src" /\ s.expr # "past" /\ MpReadsPast(IF s.expr = MpNone THEN r.expr ELSE s.expr)
      [] what = "badmove" -> s.loc # MpNone /\ s.expr = "bad"
      [] what = "unlist" -> \E list \in {"allow", "block"} :
                               r[list] = MpAll /\ Range(s[list].names) \cap Range(r[MpOther(list)]) # {}
      [] what = "hasty" -> ~MpQuiet}

(* mpr_obj_push: the message goes to the bus, and so to its sender as well *)
MpPush(p) ==
  LET m == MpModify(p, mpStaged[p], mpRec[p].ver + 1) IN
  /\ mpStaged[p] # MpNothing /\ MpRisks(p, mpRec[p], mpStaged[p]) \subseteq MpMay
  /\ mpRec' = [mpRec EXCEPT ![p].ver = @ + 1]
  /\ mpStaged' = [mpStaged EXCEPT ![p] = MpNothing]
  /\ mpQ' = [pq \in DOMAIN mpQ |-> IF pq[1] = p /\ pq[2] \in MpEnd THEN Append(mpQ[pq], m) ELSE mpQ[pq]]
  /\ mpWish' = FoldLeft(MpWished, mpWish, mpSaid[p]) /\ mpSaid' = [mpSaid EXCEPT ![p] = <<>>]
  /\ UNCHANGED <<mpBye, mpOps>>

(* handler_map_mod *)
MpReceiveModify(p, e) ==
  LET m == Head(mpQ[<<p, e>>])
      set == MpSetFromMsg(e, mpRec[e], m)
      took == MpInCharge(e, mpRec[e], m) /\ mpRec[e].alive
      tell(pq) == took /\ set.updated /\ set.r.alive /\ pq[1] = e /\ pq[2] # e
      rest(pq) == IF pq = <<p, e>> THEN Tail(mpQ[pq]) ELSE mpQ[pq]
  IN /\ mpQ[<<p, e>>] # <<>> /\ m.is = "modify"
     /\ mpRec' = IF took THEN [mpRec EXCEPT ![e] = set.r] ELSE mpRec
     /\ mpQ' = [pq \in DOMAIN mpQ |-> IF tell(pq) THEN Append(rest(pq), MpState(set.r)) ELSE rest(pq)]
     /\ UNCHANGED <<mpStaged, mpBye, mpSaid, mpWish, mpOps>>

(* handler_mapped *)
MpReceiveMapped(e, p) ==
  LET m == Head(mpQ[<<e, p>>]) IN
  /\ mpQ[<<e, p>>] # <<>> /\ m.is = "mapped"
  /\ mpRec' = IF p \notin MpEnd \/ MpFromCharge(p, mpRec[p], m)
              THEN [mpRec EXCEPT ![p] = MpSetFromMsg(p, @, m).r] ELSE mpRec
  /\ mpQ' = [mpQ EXCEPT ![<<e, p>>] = Tail(@)]
  /\ UNCHANGED <<mpStaged, mpBye, mpSaid, mpWish, mpOps>>

(* A device leaves; what is known of it afterwards is as of any other one. *)
MpLeave(d) ==
  LET last(s) == d \in Range(s) => Last(s) = d IN
  /\ MpSpend
  /\ "first" \notin MpMay => \A p \in MpProc : last(mpRec[p].allow) /\ last(mpRec[p].block)
  /\ \A p \in MpProc : mpStaged[p] = MpNothing
  /\ mpBye' = mpBye \cup ({d} \X MpProc)
  /\ mpWish' = [mpWish EXCEPT !.of[d] = mpWish.rest]
  /\ UNCHANGED <<mpRec, mpStaged, mpQ, mpSaid>>

(* mpr_graph_remove_dev, for the maps that list the device *)
MpReceiveLogout(d, p) ==
  /\ <<d, p>> \in mpBye /\ mpBye' = mpBye \ {<<d, p>>}
  /\ mpRec' = [mpRec EXCEPT ![p].allow = MpForget(@, d), ![p].block = MpForget(@, d)]
  /\ UNCHANGED <<mpStaged, mpQ, mpSaid, mpWish, mpOps>>

MpNext ==
  \/ \E p \in MpProc :
       \/ \E l \in MpEnd : MpStage(p, "loc", l)
       \/ \E x \in MpExpr : MpStage(p, "expr", x)
       \/ \E b \in {"on", "off"} : MpStage(p, "muted", b)
       \/ \E list \in {"allow", "block"}, d \in MpOrigin \cup {"all"} : MpStageList(p, list, d)
       \/ MpPush(p)
  \/ \E p \in MpProc, e \in MpEnd : MpReceiveModify(p, e) \/ MpReceiveMapped(e, p)
  \/ \E d \in MpOrigin : MpLeave(d) \/ \E p \in MpProc : MpReceiveLogout(d, p)

-----------------------------------------------------------------------------
(* When no message is under way, the ends and the other process have the   *)
(* same idea of the map, and the end that all hold to be in charge has     *)
(* compiled the expression that all believe is evaluated.                  *)
MpAgree ==
  MpQuiet =>
    \A p \in MpProc :
      /\ \A f \in {"loc", "expr", "muted"} : mpRec[p][f] = mpRec["src"][f]
      /\ \A f \in {"allow", "block"} : Range(mpRec[p][f]) = Range(mpRec["src"][f])
      /\ p \in MpEnd => mpRec[p].alive
      /\ mpRec[p].loc = p => mpRec[p].compiled = mpRec[p].expr

(* When all was sent and has arrived, instances of a device pass exactly if *)
(* the last that was said of it, or of all devices, was that they may.     *)
MpLastWord ==
  (MpQuiet /\ \A p \in MpProc : mpStaged[p] = MpNothing) =>
    \A e \in MpEnd, d \in MpOrigin : MpHasScope(mpRec[e], d) = mpWish.of[d]
=============================================================================
