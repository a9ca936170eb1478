---------------------------- MODULE MCUploads ----------------------------
(* Small instances of Uploads for TLC.                                     *)
EXTENDS Uploads, TLC

CONSTANTS s1, s2, r1, r2, r3, n1, n2, i1, i2, i3, k1, k2, unknown

MCSizes == {2}
MCSizesAll == {2, unknown}

\* Ids are interchangeable.  (Not used where a liveness property is checked.)
Symmetry ==
    Permutations(Sessions) \cup Permutations(Requests) \cup Permutations(Names)
        \cup Permutations(Inodes) \cup Permutations(Keys)

\* The content of an inode that nothing refers to is gone for good.
View == <<db, staging, originals,
          [i \in Inodes |-> IF FreeInode(i) THEN {} ELSE data[i]],
          pc, locals, others>>

=============================================================================
