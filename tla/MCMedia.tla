------------------------------ MODULE MCMedia ------------------------------
(* Instances of Media for TLC: one file of which one artifact cannot be made. *)
EXTENDS Media, TLC
CONSTANTS n1, r1, r2, w1, k1, k2, k3, k4

NoPreview == {<<n1, "preview">>}      \* a video, of which only a thumbnail is made
NoThumbnail == {<<n1, "thumbnail">>}  \* a DOCX file

\* Keys are interchangeable.  (Not used where a liveness property is checked.)
Symmetry == Permutations(Keys)
=============================================================================
