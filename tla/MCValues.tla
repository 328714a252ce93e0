------------------------------ MODULE MCValues ------------------------------
(* Small instances of Values for TLC. *)
EXTENDS ValuesProps

Two == {0, 1}
One == {0}
Pair == {"a", "b"}
=============================================================================
