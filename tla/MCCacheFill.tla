---------------------------- MODULE MCCacheFill ----------------------------
(* Instances of CacheFill for TLC. *)
EXTENDS CacheFill, TLC

Alike == Permutations(Fetcher) \cup Permutations(Url)
=============================================================================
