---------------------------- MODULE NodeContract ----------------------------
(***************************************************************************)
(* What the namespace promises of each folder and file, without the tree,   *)
(* the entries of the trash, jobs and handlers.  A file is there with all   *)
(* its bytes from the moment it appears, and keeps them until it has been   *)
(* condemned in the trash.  From there nothing comes back: the bytes go     *)
(* first, then the row, and no bytes are without a row.  What is trashed is *)
(* no favorite any more.                                                    *)
(***************************************************************************)
CONSTANTS Nodes, Files, Root

VARIABLES
    life,       \* absent, active or trashed
    condemned,  \* nodes that are to be deleted for good
    favorites,
    bytes       \* files whose content is stored

vars == <<life, condemned, favorites, bytes>>

Init ==
    /\ life = [n \in Nodes |-> IF n = Root THEN "active" ELSE "absent"]
    /\ condemned = {} /\ favorites = {} /\ bytes = {}

Are(S, state) == \A n \in S : life[n] = state
Become(S, state) == life' = [n \in Nodes |-> IF n \in S THEN state ELSE life[n]]

Add(n) ==
    /\ Are({n}, "absent") /\ n \notin bytes
    /\ Become({n}, "active")
    /\ bytes' = bytes \cup ({n} \cap Files)
    /\ UNCHANGED <<condemned, favorites>>

Favor(n) ==
    /\ n # Root /\ Are({n}, "active")
    /\ favorites' = favorites \cup {n}
    /\ UNCHANGED <<life, condemned, bytes>>

Unfavor(n) ==
    /\ favorites' = favorites \ {n}
    /\ UNCHANGED <<life, condemned, bytes>>

Trash(S) ==
    /\ Root \notin S /\ Are(S, "active")
    /\ Become(S, "trashed")
    /\ favorites' = favorites \ S
    /\ UNCHANGED <<condemned, bytes>>

Restore(S) ==
    /\ Are(S, "trashed") /\ S \cap condemned = {}
    /\ Become(S, "active")
    /\ UNCHANGED <<condemned, favorites, bytes>>

Condemn(S) ==
    /\ Are(S, "trashed")
    /\ condemned' = condemned \cup S
    /\ UNCHANGED <<life, favorites, bytes>>

Erase(f) ==
    /\ f \in condemned
    /\ bytes' = bytes \ {f}
    /\ UNCHANGED <<life, condemned, favorites>>

Remove(S) ==
    /\ S \subseteq condemned /\ S \cap bytes = {}
    /\ Become(S, "absent")
    /\ condemned' = condemned \ S
    /\ favorites' = favorites \ S
    /\ UNCHANGED bytes

Next ==
    \/ \E n \in Nodes : Add(n) \/ Favor(n) \/ Unfavor(n)
    \/ \E f \in Files : Erase(f)
    \/ \E S \in SUBSET Nodes : Trash(S) \/ Restore(S) \/ Condemn(S) \/ Remove(S)

Spec == Init /\ [][Next]_vars

=============================================================================
