--------------------------- MODULE MCMapHandshake ---------------------------
(***************************************************************************)
(* MapHandshake for TLC.  The two ends are fixed; what varies from run to  *)
(* run is whose program calls, what it calls and when, which ends have     *)
(* callbacks and subscriptions, and how many datagrams are lost.           *)
(***************************************************************************)
EXTENDS MapHandshakeProps
=============================================================================
