------------------------------ MODULE MCReading ------------------------------
(* Instances of Reading for TLC.                                             *)
EXTENDS Reading, TLC

MCIds == 1 .. 3
MCNames == 1 .. 4
MCFiles == [i \in MCIds |-> "file"]
MCMixed == [MCFiles EXCEPT ![2] = "folder"]
MCSize == 1 :> 3 @@ 2 :> 0 @@ 3 :> 3

Query(sort, order, filter) == [sort |-> sort, order |-> order, filter |-> filter]
MCAsks ==
    {Default, Query("name", "desc", {}), Query("kind", "asc", {"folder", "image"}),
     Query("size", "asc", {}), Query("size", "desc", {"image"})}
=============================================================================
