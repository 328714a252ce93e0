---------------------------- MODULE ValuesProps ----------------------------
(***************************************************************************)
(* What stored values promise.                                             *)
(***************************************************************************)
EXTENDS Values

Shorter(m, n) == IF m < n THEN m ELSE n

(* What expressions may ask for: a destination keeps a sample more. *)
room == IF use = "dst" THEN v.mlen - 1 ELSE v.mlen

SampleAt(b, mlen, k) ==
  [val |-> GetValue(b, mlen, 1 - k), time |-> GetTime(b, mlen, 1 - k)]

History(b, mlen, n) ==
  [k \in 1 .. Shorter(GetNumSamps(b, mlen), n) |-> SampleAt(b, mlen, k)]

recent == [i \in DOMAIN v.inst |-> History(v.inst[i], v.mlen, room)]

-----------------------------------------------------------------------------
(* Types: a position is inside of the buffer, and only an instance without *)
(* a position has no sample.                                               *)
Buffer(mlen) ==
  {b \in [samps : [0 .. mlen - 1 -> Vector], times : [0 .. mlen - 1 -> Times],
          known : SUBSET Elements, pos : -1 .. mlen - 1, full : BOOLEAN] :
     b.pos = -1 => b.known = {} /\ ~b.full}

TypeOK ==
  /\ use \in {"sig", "src", "dst"}
  /\ v.mlen \in Nat \ {0} /\ (use = "dst" => v.mlen > 1)
  /\ v \in [mlen : {v.mlen}, num_active_inst : Int, inst : Seq(Buffer(v.mlen))]
  /\ Len(v.inst) <= MaxInst

(* The circular buffers implement the memory of the most recent samples:   *)
(* whatever is set, received, evaluated, given back, reset, removed or     *)
(* reallocated, the samples an expression can ask for (x{-1}, y{-2}) are   *)
(* the last ones there were, in their order.                               *)
Memory == INSTANCE RecentSamples WITH recent <- recent, room <- room
Implements == Memory!Spec

=============================================================================
