---------------------------- MODULE MCTreeRaces ----------------------------
(* Small instances of TreeRaces for TLC.                                   *)
EXTENDS TreeRaces

CONSTANTS root, d1, d2, f1, a, b, r1, r2

=============================================================================
