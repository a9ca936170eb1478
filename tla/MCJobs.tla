------------------------------ MODULE MCJobs ------------------------------
(* Small instances of Jobs for TLC.                                        *)
EXTENDS Jobs

CONSTANTS j1, j2, n1, w1, w2

\* Permanent deletions at 10, reprocessing at -100.  Of one node no two jobs of
\* a type wait, so that a second priority would change nothing here.
MCPriorities == <<{10}, {-100}>>

=============================================================================
