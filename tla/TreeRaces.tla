----------------------------- MODULE TreeRaces -----------------------------
(***************************************************************************)
(* Tree with concurrent folder updates.  update_folder runs READ COMMITTED  *)
(* and locks nothing before its UPDATE, so what its first statements have   *)
(* checked may be out of date when it writes.  Every other transaction is   *)
(* one step, as in Tree.                                                    *)
(***************************************************************************)
EXTENDS Tree

CONSTANT Requests   \* PATCH requests served at the same time

VARIABLE checked    \* what a request has checked and not yet written

raceVars == <<vars, checked>>

Updates == [folder : Folders \ {Root}, to : Folders, called : Names]

RacesTypeOK == checked \in [Requests -> Updates \cup {None}]

RacesInit == Init /\ checked = [r \in Requests |-> None]

CheckUpdate(r, u) ==
    /\ checked[r] = None
    /\ MayUpdate(u.folder, u.to)
    /\ checked' = [checked EXCEPT ![r] = u]
    /\ UNCHANGED vars

\* The UPDATE looks at the folder's own row again, the foreign key only at the
\* existence of the new parent, the unique index at the new siblings.
ApplyUpdate(r) ==
    LET u == checked[r] IN
    /\ u # None
    /\ life[u.to] # "absent"
    /\ WriteUpdate(u.folder, u.to, u.called)
    /\ checked' = [checked EXCEPT ![r] = None]

\* The UPDATE finds no row or violates a constraint, or its client has gone.
GiveUp(r) ==
    /\ checked[r] # None
    /\ checked' = [checked EXCEPT ![r] = None]
    /\ UNCHANGED vars

RacesNext ==
    \/ \E r \in Requests :
        (\E u \in Updates : CheckUpdate(r, u)) \/ ApplyUpdate(r) \/ GiveUp(r)
    \/ Next /\ UNCHANGED checked

RacesSpec == RacesInit /\ [][RacesNext]_raceVars

\* README: database constraints and transactions enforce "no folder cycles".
NoFolderCycle == NoCycle

=============================================================================
