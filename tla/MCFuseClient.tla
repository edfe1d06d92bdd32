---------------------------- MODULE MCFuseClient ----------------------------
(* Small instances of FuseClient for TLC. *)
EXTENDS FuseClient, TLC

Workers == Permutations(Worker)
=============================================================================
