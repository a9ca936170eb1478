----------------------------- MODULE MCImports -----------------------------
(* Small instances of Imports for TLC.                                     *)
EXTENDS Imports

CONSTANTS p1, p2, a1, a2, a3, a4, r1, r2

\* One path is written twice, the others once.
MCVersions == [p \in Paths |-> IF p = p1 THEN 2 ELSE 1]

=============================================================================
