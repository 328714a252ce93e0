----------------------------- MODULE MCUpdates -----------------------------
(* Small instances of Updates for TLC. *)
EXTENDS UpdatesProps

(* Three processes with a device each: a and b are set by p, c by r.  a is *)
(* mapped to x in q, evaluated by p, and from there on to y in p; b and c  *)
(* meet in z at q; the handler of z sets w, which is mapped to v inside of *)
(* q by a map that comes before that to z.                                 *)
FarDev == {"P", "Q", "R"}
FarProcOf == [d \in FarDev |-> CASE d = "P" -> "p" [] d = "Q" -> "q" [] d = "R" -> "r"]
FarSig == {"a", "b", "c", "x", "y", "z", "w", "v"}
FarDevOf == [s \in FarSig |-> CASE s \in {"a", "b", "y"} -> "P" [] s = "c" -> "R"
                                [] OTHER -> "Q"]
FarMap == {"ax", "xy", "bcz", "wv"}
FarSrcs == [m \in FarMap |-> CASE m = "ax" -> <<"a">> [] m = "xy" -> <<"x">>
                               [] m = "bcz" -> <<"b", "c">> [] m = "wv" -> <<"w">>]
FarDst == [m \in FarMap |-> CASE m = "ax" -> "x" [] m = "xy" -> "y"
                              [] m = "bcz" -> "z" [] m = "wv" -> "v"]
FarLoc == [m \in FarMap |-> IF m = "bcz" THEN "dst" ELSE "src"]
FarOrder == <<"ax", "xy", "wv", "bcz">>
FarLinks == <<{"P", "Q"}, {"Q", "R"}, {"Q"}>>
FarSets == [s \in FarSig |-> IF s = "z" THEN <<"w">> ELSE <<>>]
FarUpdates == [s \in FarSig |-> CASE s = "a" -> 3 [] s = "b" -> 1 [] s = "c" -> 1 [] OTHER -> 0]

(* A map with one source in another process and one in its own.            *)
MixedDevOf == [s \in {"b", "c", "z"} |-> IF s = "b" THEN "P" ELSE "Q"]
MixedDev == {"P", "Q"}
MixedProcOf == [d \in MixedDev |-> IF d = "P" THEN "p" ELSE "q"]
MixedSrcs == [m \in {"bcz"} |-> <<"b", "c">>]
MixedDst == [m \in {"bcz"} |-> "z"]
MixedLoc == [m \in {"bcz"} |-> "dst"]
MixedSets == [s \in {"b", "c", "z"} |-> <<>>]
MixedUpdates == [s \in {"b", "c", "z"} |-> IF s = "z" THEN 0 ELSE 1]
LateSets == [s \in FarSig |-> IF s = "z" THEN <<"w">> ELSE <<>>]
LateOrder == <<"ax", "xy", "bcz", "wv">>
MixedOrder == <<"bcz">>
MixedLinks == <<{"P", "Q"}, {"Q"}>>
=============================================================================
