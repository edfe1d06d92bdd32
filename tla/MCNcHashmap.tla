---------------------------- MODULE MCNcHashmap ----------------------------
(* Small instances of NcHashmap for TLC. *)
EXTENDS NcHashmap, TLC

CONSTANTS p1, p2, p3, p4, t1, t2, t3, t4

\* One address per text: what a program can do that looks before it puts.
OneEach == (p1 :> t1) @@ (p2 :> t2) @@ (p3 :> t3) @@ (p4 :> t4)

\* Two addresses say the same.
TwoAlike == (p1 :> t1) @@ (p2 :> t1) @@ (p3 :> t2)

TwoOfFourAlike == TwoAlike @@ (p4 :> t3)
=============================================================================
