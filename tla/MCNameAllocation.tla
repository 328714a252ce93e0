-------------------------- MODULE MCNameAllocation --------------------------
(***************************************************************************)
(* NameAllocation with model values for the devices, for TLC.  The times   *)
(* keep the order of the source: contested names are left (0.25 s) before  *)
(* uncontested ones are locked (1 s), hints live longer than that (2 s),   *)
(* and the probe is repeated last (5 s).                                   *)
(***************************************************************************)
EXTENDS NameAllocationProps

(* Leaves out rivals that drew the same random id and so keep moving       *)
(* together, past any bound on ordinals.                                   *)
NoTies == \A d \in Dev : up[d] => ~Tied(d)
=============================================================================
