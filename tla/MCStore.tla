------------------------------ MODULE MCStore ------------------------------
(***************************************************************************)
(* Store for TLC: the tick loop and one request handler, one key, a log of *)
(* three commands and a snapshot after every application.                  *)
(***************************************************************************)
EXTENDS Store
=============================================================================
