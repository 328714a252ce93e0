----------------------------- MODULE MCInstances -----------------------------
(***************************************************************************)
(* Instances of an input and an output of one device, for TLC.             *)
(***************************************************************************)
EXTENDS InstancesProps, TLC

Setup(persistent, mapped, plain, set, unscoped, managed, grown) ==
  [persistent |-> persistent, mapped |-> mapped, plain |-> plain, set |-> set,
   unscoped |-> unscoped, managed |-> managed, grown |-> grown]

(* The input follows upstream, the output is set by the program. *)
Flow    == Setup({}, {"in"}, {}, {"out"}, {}, {}, {"in"})
(* The input alone, used in every way. *)
Alone   == Setup({}, {"in"}, {"in"}, {"in"}, {"in"}, {}, {"in"})
(* A persistent input. *)
Lasting == Setup({"in"}, {"in"}, {}, {}, {}, {}, {"in"})

GIDSymmetry == Permutations(GIDs)

(* An input whose instances an expression manages. *)
Managed == Setup({}, {}, {}, {"in"}, {}, {"in"}, {"in"})

SetupsFlow == {Flow, Alone, Lasting, Managed}
=============================================================================
