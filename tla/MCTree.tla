------------------------------ MODULE MCTree ------------------------------
(* Small instances of Tree for TLC.                                        *)
EXTENDS Tree, TLC

CONSTANTS root, d1, d2, f1, a, b

\* Ids and names are interchangeable.  (Not used with a liveness property.)
Symmetry ==
    Permutations(Folders \ {Root}) \cup Permutations(Files) \cup Permutations(Names)

\* How long items have been in the trash, and who condemned them, shows in
\* what follows only through these.
View == <<rows, trash, favorites, targets, bytes, deletion, Condemned>>

=============================================================================
