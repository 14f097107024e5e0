----------------------------- MODULE MCCatchUp -----------------------------
(***************************************************************************)
(* CatchUp for TLC: the leader, the follower that lags, and a third node   *)
(* that is down.                                                           *)
(***************************************************************************)
EXTENDS CatchUp
=============================================================================
