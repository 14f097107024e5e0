------------------------------- MODULE MCWal -------------------------------
(***************************************************************************)
(* Wal for TLC: two payloads, which are interchangeable.                   *)
(***************************************************************************)
EXTENDS Wal

Symmetry == Permutations(Payload)
=============================================================================
