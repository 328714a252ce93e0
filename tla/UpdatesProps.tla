---------------------------- MODULE UpdatesProps ----------------------------
(***************************************************************************)
(* What the way of a value promises.                                       *)
(***************************************************************************)
EXTENDS Updates

(* Nothing is left to do: no call, no update and no message is pending. *)
Rest ==
  /\ Idle
  /\ \A d \in Dev : updated[d] = {} /\ net[d] = <<>>

Fed(m) == \A i \in DOMAIN Srcs[m] : value[Srcs[m][i]] > 0

(* The only map into its destination, which no program sets. *)
Alone(m) ==
  /\ \A n \in Map : Dst[n] = Dst[m] => n = m
  /\ MaxUpdates[Dst[m]] = 0
  /\ \A s \in Sig : ~\E k \in DOMAIN Sets[s] : Sets[s][k] = Dst[m]

Result(m) == Sum([i \in DOMAIN Srcs[m] |-> value[Srcs[m][i]]])

Agrees == \A m \in Map : Fed(m) /\ Alone(m) => value[Dst[m]] = Result(m)

-----------------------------------------------------------------------------
(* Every message in a bundle still has the values that were put into it,   *)
(* until the bundle is sent.                                               *)
NotEmptied ==
  \A l \in DOMAIN bundle, k \in {0, 1} : \A d \in l : \A j \in DOMAIN bundle[l][k][d] :
    LET x == bundle[l][k][d][j] IN msgs[x[1]][x[2]] # <<>>

(* mapper.h:348: a value that is set "will be routed according to external *)
(* requests": when nothing is left to do, the destination of a map has     *)
(* what the expression makes of the present values of the sources, and     *)
(* until then no message on its way loses what was put into it.            *)
Delivered ==
  /\ Rest => Agrees
  /\ NotEmptied

(* Once the program sets nothing more, every destination comes to agree    *)
(* with its sources and stays so: the time of a device goes on with every  *)
(* poll, and with it maps are processed, and what arrives marks others.    *)
EventuallyAgrees == <>[]Agrees
=============================================================================
