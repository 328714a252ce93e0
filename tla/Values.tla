------------------------------- MODULE Values -------------------------------
(***************************************************************************)
(* Stored values and their history (src/src/value.c).                      *)
(*                                                                         *)
(* An mpr_value keeps, for every instance, a circular buffer of the last   *)
(* mlen samples of a vector.  A position is only taken when the vector is  *)
(* complete: until then the elements of the newest sample become known one *)
(* after the other, in place.  The evaluator takes a position before it    *)
(* knows whether the expression assigns anything, and gives it back.       *)
(*                                                                         *)
(* There are three uses: the value of a signal (mlen is 1), of the slot of *)
(* a source (a change of memory forgets everything), and of the slot of a  *)
(* destination (it does not, and one sample more is kept than expressions  *)
(* may ask for, to have a position to give back).                          *)
(***************************************************************************)
EXTENDS Integers, Sequences, FiniteSets

CONSTANTS
  Elements,     \* elements of the vector
  Numbers,      \* numbers an element may have, with Zero
  Zero,         \* what memory is cleared to
  Times,        \* times of samples, with 0
  MaxMem,       \* bound: the longest history
  MaxInst,      \* bound: number of instances
  MaxSamples,   \* bound: samples of all instances together
  Uses,         \* subset of {"sig", "src", "dst"}
  Careless      \* whether evaluations are undone, and memory is changed, in
                \* states in which the code does not handle it (see Undoable)

ASSUME DataAssumption ==
  /\ Elements # {} /\ IsFiniteSet(Elements) /\ Zero \in Numbers
  /\ Times \subseteq Nat /\ 0 \in Times
ASSUME BoundsAssumption ==
  MaxMem \in Nat \ {0, 1} /\ MaxInst \in Nat \ {0} /\ MaxSamples \in Nat
ASSUME UsesAssumption == Uses \subseteq {"sig", "src", "dst"} /\ Careless \in BOOLEAN

VARIABLES
  use,     \* what the value is used for
  v        \* the mpr_value: mlen, num_active_inst and inst, the buffers

vars == <<use, v>>

-----------------------------------------------------------------------------
Vector == [Elements -> Numbers]
Cleared == [e \in Elements |-> Zero]
Sample == [val : Vector, time : Times]

(* A buffer as it is allocated, or reset at time t. *)
NewBuffer(mlen, t) ==
  [samps |-> [k \in 0 .. mlen - 1 |-> Cleared],
   times |-> [k \in 0 .. mlen - 1 |-> IF k = 0 THEN t ELSE 0],
   known |-> {}, pos |-> -1, full |-> FALSE]

AllKnown(b) == b.known = Elements    \* mpr_bitflags_get_all

(* The place of the sample hist_idx (0 or less) before the newest. *)
Index(b, mlen, hist_idx) == (b.pos + mlen + hist_idx) % mlen

GetValue(b, mlen, hist_idx) == b.samps[Index(b, mlen, hist_idx)]    \* if pos >= 0

(* mpr_value_get_time: that of the reset if there is no value. *)
GetTime(b, mlen, hist_idx) ==
  b.times[IF b.pos >= 0 THEN Index(b, mlen, hist_idx) ELSE 0]

GetNumSamps(b, mlen) == IF b.full THEN mlen ELSE b.pos + 1

GetHasValue(b) == b.pos >= 0 /\ AllKnown(b)

-----------------------------------------------------------------------------
(* Steps on one buffer of mlen samples                                     *)

IncrIdxRound(b, mlen, t) ==       \* mistake: that the buffer is full goes unnoticed
  IF b.pos >= 0 /\ ~AllKnown(b) THEN b
  ELSE [b EXCEPT !.times[0] = IF b.pos < 0 THEN t ELSE @, !.pos = (b.pos + 1) % mlen]

(* mpr_value_incr_idx *)
IncrIdx(b, mlen, t) ==
  IF b.pos >= 0 /\ ~AllKnown(b) THEN b
  ELSE LET first == [b EXCEPT !.times[0] = IF b.pos < 0 THEN t ELSE @]
       IN  IF b.pos + 1 >= mlen THEN [first EXCEPT !.pos = 0, !.full = TRUE]
           ELSE [first EXCEPT !.pos = b.pos + 1]

DecrIdxDown(b, mlen) == [b EXCEPT !.pos = b.pos - 1]    \* mistake: does not wrap around

(* mpr_value_decr_idx *)
DecrIdx(b, mlen) == [b EXCEPT !.pos = IF b.pos - 1 < 0 THEN mlen - 1 ELSE b.pos - 1]

(* mpr_value_set_next: a sample that was not complete is left behind. *)
SetNext(b, mlen, s, t) ==
  LET c == IncrIdx([b EXCEPT !.known = Elements], mlen, t)
  IN  [c EXCEPT !.samps[c.pos] = s, !.times[c.pos] = t]

(* mpr_value_set_next_coerced: one that was not complete is overwritten. *)
SetNextCoerced(b, mlen, s, t) ==
  LET c == IncrIdx(b, mlen, t)
  IN  [c EXCEPT !.samps[c.pos] = s, !.times[c.pos] = t, !.known = Elements]

(* mpr_value_cpy_next *)
CpyNext(b, mlen, t) ==
  CASE b.pos < 0 -> IncrIdx(b, mlen, t)
    [] b.pos >= 0 /\ AllKnown(b) -> SetNext(b, mlen, b.samps[b.pos], t)
    [] OTHER -> b

(* mpr_value_set_element for the elements of new, a function on some of    *)
(* them; also what an assignment of the evaluator does.                    *)
Overwrite(s, new) == [e \in Elements |-> IF e \in DOMAIN new THEN new[e] ELSE s[e]]

SetElements(b, new) ==
  IF b.pos < 0 THEN b
  ELSE [b EXCEPT !.samps[b.pos] = Overwrite(b.samps[b.pos], new),
                 !.known = b.known \cup DOMAIN new]

-----------------------------------------------------------------------------
(* mpr_value_realloc where nothing but the memory changes.                 *)

Grow(b, from, to) ==
  LET len == IF b.full THEN from - b.pos ELSE 0
  IN  IF b.pos < 0 THEN NewBuffer(to, b.times[0])
      ELSE [b EXCEPT
              !.samps = [k \in 0 .. to - 1 |->
                           IF k < len THEN b.samps[b.pos + k]
                           ELSE IF k <= len + b.pos THEN b.samps[k - len] ELSE Cleared],
              !.times = [k \in 0 .. to - 1 |->
                           IF k < len THEN b.times[b.pos + k]
                           ELSE IF k <= len + b.pos THEN b.times[k - len] ELSE 0],
              !.pos = b.pos + len, !.full = FALSE]

Shrink(b, from, to) ==
  LET len == IF from - b.pos < to THEN from - b.pos ELSE to
      old(k) == IF k < len THEN b.pos + k ELSE k - len
  IN  IF b.pos < 0 THEN NewBuffer(to, b.times[0])
      ELSE [b EXCEPT !.samps = [k \in 0 .. to - 1 |-> b.samps[old(k)]],
                     !.times = [k \in 0 .. to - 1 |-> b.times[old(k)]],
                     !.full = b.full \/ b.pos >= to,
                     !.pos = len - 1]

Resized(b, from, to) ==
  IF to = from THEN b ELSE IF to > from THEN Grow(b, from, to) ELSE Shrink(b, from, to)

(* mpr_value_realloc; reset stands for a change of type or length too. *)
Realloc(u, mlen, num_inst, reset) ==
  [mlen |-> mlen, num_active_inst |-> IF reset THEN 0 ELSE u.num_active_inst,
   inst |-> [i \in 1 .. num_inst |->
               IF i > Len(u.inst) \/ reset THEN NewBuffer(mlen, 0)
               ELSE Resized(u.inst[i], u.mlen, mlen)]]

(* mpr_value_remove_inst *)
RemoveInst(u, i) ==
  [u EXCEPT !.inst = [j \in 1 .. Len(u.inst) - 1 |->
                        IF j < i THEN u.inst[j] ELSE u.inst[j + 1]],
            !.num_active_inst = IF u.inst[i].pos >= 0 THEN @ - 1 ELSE @]

(* Instance i gets buffer b; one that gets its first position is active.   *)
Stored(u, i, b) ==
  [u EXCEPT !.inst[i] = b,
            !.num_active_inst = IF u.inst[i].pos < 0 /\ b.pos >= 0 THEN @ + 1 ELSE @]

(* mpr_value_reset_inst *)
ResetInst(u, i, t) ==
  [u EXCEPT !.inst[i] = NewBuffer(u.mlen, t),
            !.num_active_inst = IF u.inst[i].pos >= 0 THEN @ - 1 ELSE @]

-----------------------------------------------------------------------------
(* Uses of a value                                                         *)

Becomes(u) == v' = u /\ UNCHANGED use

(* mpr_sig_set_value, mpr_slot_set_value *)
Set(i, s, t) ==
  /\ use \in {"sig", "src"}
  /\ Becomes(Stored(v, i, SetNext(v.inst[i], v.mlen, s, t)))

(* mpr_sig_set_value, with a value of another type or length. *)
SetCoerced(i, s, t) ==
  /\ use = "sig"
  /\ Becomes(Stored(v, i, SetNextCoerced(v.inst[i], v.mlen, s, t)))

(* mpr_sig_osc_handler: a message with a value for some elements. *)
Receive(i, new, t) ==
  LET b == v.inst[i]
      next == IF GetHasValue(b) THEN CpyNext(b, v.mlen, t) ELSE IncrIdx(b, v.mlen, t)
  IN  /\ use = "sig"
      /\ Becomes(Stored(v, i, SetElements(next, new)))

(* mpr_sig_release_inst_internal, mpr_slot_set_value without a value *)
Reset(i, t) ==
  /\ use \in {"sig", "src"}
  /\ Becomes(ResetInst(v, i, t))

(* mpr_expr_eval, with the elements it assigns; one that fails half way    *)
(* returns without giving the position back.                               *)
Evaluate(i, new, t) ==
  LET b == SetElements(CpyNext(v.inst[i], v.mlen, t), new)
  IN  /\ use = "dst"
      /\ Becomes(Stored(v, i, IF DOMAIN new = {} THEN b
                              ELSE [b EXCEPT !.times[b.pos] = t]))

(* mpr_expr_eval, when nothing was assigned: the position is given back.   *)
(* That is right if one was taken, and there was one before it.            *)
Undoable(i) == GetHasValue(v.inst[i])

Undo(i, t) ==
  /\ use = "dst" /\ (Careless \/ Undoable(i))
  /\ Becomes(Stored(v, i, DecrIdx(CpyNext(v.inst[i], v.mlen, t), v.mlen)))

(* mpr_slot_alloc_values, mpr_sig_reserve_inst.  The memory of a           *)
(* destination is changed right if it grows before it was full.            *)
Resizable(mlen) == mlen = v.mlen \/ (mlen > v.mlen /\ \A i \in DOMAIN v.inst : ~v.inst[i].full)

Alloc(mlen, num_inst) ==
  /\ mlen * num_inst <= MaxSamples
  /\ num_inst >= Len(v.inst) /\ (mlen # v.mlen \/ num_inst # Len(v.inst))
  /\ \/ use = "sig" /\ mlen = v.mlen
     \/ use = "src"
     \/ use = "dst" /\ mlen > 1 /\ (Careless \/ Resizable(mlen))
  /\ Becomes(Realloc(v, mlen, num_inst, use = "src"))

(* mpr_sig_remove_inst, mpr_slot_remove_inst *)
Remove(i) == Becomes(RemoveInst(v, i))

-----------------------------------------------------------------------------
Partial == UNION {[E -> Numbers] : E \in SUBSET Elements}

Init ==
  /\ use \in Uses
  /\ v = [mlen |-> IF use = "dst" THEN 2 ELSE 1, num_active_inst |-> 0, inst |-> <<>>]

Next ==
  \/ \E i \in DOMAIN v.inst, t \in Times :
       \/ \E s \in Vector : Set(i, s, t) \/ SetCoerced(i, s, t)
       \/ \E new \in Partial : Receive(i, new, t) \/ Evaluate(i, new, t)
       \/ Reset(i, t) \/ Undo(i, t)
  \/ \E i \in DOMAIN v.inst : Remove(i)
  \/ \E mlen \in 1 .. MaxMem, n \in 0 .. MaxInst : Alloc(mlen, n)

Spec == Init /\ [][Next]_vars
=============================================================================
