---------------------------- MODULE MCHardState ----------------------------
(***************************************************************************)
(* HardState for TLC: one node, two peers that ask for its vote.           *)
(***************************************************************************)
EXTENDS HardState
=============================================================================
