--------------------------- MODULE ImportsProofs ---------------------------
(***************************************************************************)
(* Proofs about Imports, for any number of paths, nodes, scans, versions    *)
(* and failures: scans fail, are dropped and die, but they do not overlap,  *)
(* and the owner of the inbox leaves alone what is being imported.          *)
(***************************************************************************)
EXTENDS Imports, TLAPS

\* What the theorems on the safety of files suppose of the environment.
Orderly == Faults \cap {"overlap", "late_write", "reuse"} = {}

----------------------------------------------------------------------------
(* The inductive invariant                                                  *)

\* Nothing runs while the process is down; a slot that revisits a finalized
\* entry knows its node; a node that was made was made from some path.
BaseInv ==
    /\ phase = "down" => \A r \in Requests : pc[r] = "idle"
    /\ \A r \in Requests : pc[r] \in {"clean", "mark"} => entry[r].node # None
    /\ \A n \in Nodes : nodes[n].status = "none" <=> nodes[n].path = None

\* At most one scan runs, and a slot that is free holds nothing.
OneScan ==
    /\ \A q, r \in Requests : pc[q] # "idle" /\ pc[r] # "idle" => q = r
    /\ \A r \in Requests : pc[r] \in {"idle", "walk"} => todo[r] = {}

\* The entries a scan holds: those it has listed and the one it imports.
Held(r) == todo[r] \cup ({entry[r]} \ {NoEntry})

\* Files only get newer: a row or an entry knows a file that has been there.
Known(e) == e.seen \in 1 .. last[e.path] /\ row[e.path].state # "none"
VersionsOK ==
    /\ \A p \in Paths : source[p] \in {0, last[p]}
    /\ \A p \in Paths : row[p].state # "none" => row[p].seen \in 1 .. last[p]
EntriesOK == \A r \in Requests : \A e \in Held(r) : Known(e)

\* No two entries of a scan have the same path, nor is one held twice.
Distinct ==
    \A r \in Requests :
        /\ \A d, e \in Held(r) : d.path = e.path => d = e
        /\ entry[r] \notin todo[r]

\* The newest file of p is stored, or its owner has disposed of it.
Stored(p) == p \in disposed \/ originals[p] = last[p]

\* A node the ledger or a scan remembers was made from that path, and is
\* where its newest file is stored; the scan remembers what the ledger does.
Remembers(p, n) == n # None => nodes[n].path = p /\ Stored(p)
Untried == {"stage", "copy", "check", "reset"} \cup (Checked \ {"unlink"})
Remembered ==
    /\ \A p \in Paths : Remembers(p, row[p].node)
    /\ \A r \in Requests : \A e \in Held(r) : Remembers(e.path, e.node)
    /\ \A r \in Requests : \A e \in todo[r] :
        e.node = None => row[e.path].node = None
    /\ \A r \in Requests :
        /\ pc[r] = "look" /\ entry[r].node = None => row[P(r)].node = None
        /\ pc[r] \in Untried => row[P(r)].node = None
        /\ pc[r] \in Untried \cup {"unlink"} => entry[r].node = None

\* Between the copy and the removal of the source, the bytes are those of the
\* file that is still in the inbox.
CarriedBy(r) ==
    /\ pc[r] = "check" => staging[P(r)] \in entry[r].seen .. last[P(r)]
    /\ pc[r] \in Checked => source[P(r)] = entry[r].seen
    /\ pc[r] \in {"stable", "sum", "importing", "move"} =>
        staging[P(r)] = entry[r].seen
    /\ pc[r] \in {"importing", "move", "commit"} => sum[r] = entry[r].seen
    /\ pc[r] \in {"commit", "unlink"} => Stored(P(r))
Carried == \A r \in Requests : CarriedBy(r)

\* A path's only node holds its newest file, of which nobody has disposed.
Alone(n) == \A m \in Nodes \ {n} : nodes[m].path # nodes[n].path
NodesOK ==
    /\ \A n \in Nodes : Exists(n) /\ Alone(n) =>
        nodes[n].path \notin disposed /\ nodes[n].sum = last[nodes[n].path]
    /\ \A p \in disposed : source[p] = 0 \/ \E n \in Nodes : nodes[n].path = p

IInv ==
    /\ TypeOK /\ BaseInv /\ OneScan /\ VersionsOK /\ EntriesOK /\ Distinct
    /\ Remembered /\ Carried /\ NodesOK /\ SizeAgrees /\ NothingLost

----------------------------------------------------------------------------
(* Type correctness                                                         *)

TablesOK ==
    /\ source \in [Paths -> Nat] /\ last \in [Paths -> Nat]
    /\ disposed \subseteq Paths
    /\ row \in [Paths -> Row]
    /\ nodes \in [Nodes -> Node]
    /\ taken \subseteq Paths
    /\ enabled \in BOOLEAN
    /\ staging \in [Paths -> Nat] /\ originals \in [Paths -> Nat]
    /\ budget \in 0 .. MaxFaults

SlotsOK ==
    /\ phase \in {"down", "recovering", "up"}
    /\ pc \in [Requests -> Steps]
    /\ visiting \in [Requests -> SUBSET Paths]
    /\ todo \in [Requests -> SUBSET Entry]
    /\ entry \in [Requests -> Entry \cup {NoEntry}]
    /\ sum \in [Requests -> Nat]
    /\ \A r \in Requests : pc[r] \in Importing <=> entry[r] # NoEntry

\* The two halves of TypeOK.
LEMMA Halves == TypeOK <=> TablesOK /\ SlotsOK
BY DEF TypeOK, TablesOK, SlotsOK

\* No entry is NoEntry, which has no path.
LEMMA EntryReal == NoEntry \notin Entry
BY ConstantsOK DEF NoEntry, Entry

\* A slot that is importing has an entry with a path.
LEMMA Busy ==
    ASSUME SlotsOK, NEW r \in Requests, pc[r] \in Importing
    PROVE  entry[r] \in Entry /\ P(r) \in Paths /\ entry[r].seen \in Nat
           /\ entry[r].node \in Nodes \cup {None}
BY DEF SlotsOK, Entry, P

\* Goes on with the same entry, perhaps with a checksum.
LEMMA StepSlots ==
    ASSUME SlotsOK, NEW r \in Requests, pc[r] \in Importing,
           NEW s \in Importing, Goto(r, s),
           UNCHANGED <<phase, visiting, todo, entry>>,
           sum' \in [Requests -> Nat]
    PROVE  SlotsOK'
<1>1. s \in Steps  BY DEF Steps
<1>. QED  BY <1>1 DEF SlotsOK, Goto

\* Is done with an entry.
LEMMA SettleSlots ==
    ASSUME SlotsOK, NEW r \in Requests, Settle(r)
    PROVE  SlotsOK'
<1>1. "pick" \in Steps \ Importing  BY DEF Steps, Importing, Checked
<1>. QED  BY <1>1 DEF SlotsOK, Settle, Goto

\* Is done with the scan.
LEMMA LeaveSlots ==
    ASSUME SlotsOK, NEW r \in Requests, Leave(r)
    PROVE  SlotsOK'
<1>1. "idle" \in Steps \ Importing  BY DEF Steps, Importing, Checked
<1>. QED  BY <1>1 DEF SlotsOK, Leave, Goto

\* What a change of an entry's state leaves alone.
LEMMA StateChange ==
    ASSUME row \in [Paths -> Row], NEW p \in Paths, NEW s \in States, SetState(p, s)
    PROVE  /\ row' \in [Paths -> Row]
           /\ \A q \in Paths : /\ row'[q].seen = row[q].seen
                               /\ row'[q].node = row[q].node
                               /\ row'[q].state = IF q = p THEN s ELSE row[q].state
BY DEF SetState, Row

\* What an entry is when it is imported as n.
LEMMA ImportedChange ==
    ASSUME row \in [Paths -> Row], NEW p \in Paths, NEW n \in Nodes,
           row' = [row EXCEPT ![p].state = "imported", ![p].node = n]
    PROVE  /\ row' \in [Paths -> Row]
           /\ \A q \in Paths : /\ row'[q].seen = row[q].seen
                               /\ row'[q].node = IF q = p THEN n ELSE row[q].node
                               /\ row'[q].state = IF q = p THEN "imported"
                                                           ELSE row[q].state
BY DEF Row, States

\* What a row is when its path is found again.
LEMMA UpsertedRow ==
    ASSUME row \in [Paths -> Row], source \in [Paths -> Nat], NEW p \in Paths
    PROVE  Upserted(p) \in Row
BY DEF Upserted, Row, States

\* The initial tables, directories and slots are well typed.
LEMMA TypeInit == Init => TypeOK
BY ConstantsOK DEF Init, TypeOK, Row, Entry, Node, NoRow, NoEntry, NoNode, States,
    Steps, Importing, Checked

\* Every step keeps the types of the slots ...
LEMMA SlotsStep ==
    ASSUME TablesOK, SlotsOK, BaseInv, [Next]_vars
    PROVE  SlotsOK'
<1>1. ASSUME NEW r \in Requests, ScanStart(r)
      PROVE  SlotsOK'
  BY <1>1 DEF ScanStart, SlotsOK, Goto, Steps, Importing, Checked
<1>2. ASSUME NEW r \in Requests, NEW p \in Paths, Discover(r, p)
      PROVE  SlotsOK'
  BY <1>2 DEF Discover, SlotsOK
<1>3. ASSUME NEW r \in Requests, NEW p \in Paths, WalkFails(r, p)
      PROVE  SlotsOK'
  BY <1>3, LeaveSlots DEF WalkFails
<1>4. ASSUME NEW r \in Requests, ListPending(r)
      PROVE  SlotsOK'
  <2>1. Listed(Pending) \in SUBSET Entry
    BY DEF Listed, Entry, TablesOK, Row
  <2>. QED  BY <1>4, <2>1 DEF ListPending, SlotsOK, Goto, Steps, Importing, Checked
<1>5. ASSUME NEW r \in Requests, Pick(r)
      PROVE  SlotsOK'
  BY <1>5, EntryReal DEF Pick, SlotsOK, Goto, Steps, Importing, Checked
<1>6. ASSUME NEW r \in Requests, Done(r)
      PROVE  SlotsOK'
  BY <1>6, LeaveSlots DEF Done
<1>7. ASSUME NEW r \in Requests, Look(r)
      PROVE  SlotsOK'
  BY <1>7, StepSlots DEF Look, Proceed, locals, SlotsOK, Importing, Checked
<1>8. ASSUME NEW r \in Requests, Clean(r)
      PROVE  SlotsOK'
  BY <1>8, StepSlots DEF Clean, Proceed, locals, SlotsOK, Importing, Checked
<1>9. ASSUME NEW r \in Requests, MarkImported(r)
      PROVE  SlotsOK'
  BY <1>9, StepSlots, SettleSlots, Busy DEF MarkImported, locals, SlotsOK, Importing, Checked
<1>10. ASSUME NEW r \in Requests, Stage(r)
      PROVE  SlotsOK'
  BY <1>10, StepSlots DEF Stage, Proceed, locals, SlotsOK, Importing, Checked
<1>11. ASSUME NEW r \in Requests, Copy(r)
      PROVE  SlotsOK'
  BY <1>11, StepSlots DEF Copy, Proceed, locals, SlotsOK, Importing, Checked
<1>12. ASSUME NEW r \in Requests, Check(r)
      PROVE  SlotsOK'
  BY <1>12, StepSlots DEF Check, Proceed, locals, SlotsOK, Importing, Checked
<1>13. ASSUME NEW r \in Requests, Reset(r)
      PROVE  SlotsOK'
  BY <1>13, SettleSlots DEF Reset
<1>14. ASSUME NEW r \in Requests, MarkStable(r)
      PROVE  SlotsOK'
  BY <1>14, StepSlots DEF MarkStable, Proceed, locals, SlotsOK, Importing, Checked
<1>15. ASSUME NEW r \in Requests, Checksum(r)
      PROVE  SlotsOK'
  BY <1>15, StepSlots, Busy DEF Checksum, SlotsOK, TablesOK, Importing, Checked
<1>16. ASSUME NEW r \in Requests, MarkImporting(r)
      PROVE  SlotsOK'
  BY <1>16, StepSlots DEF MarkImporting, Proceed, locals, SlotsOK, Importing, Checked
<1>17. ASSUME NEW r \in Requests, Move(r)
      PROVE  SlotsOK'
  BY <1>17, StepSlots DEF Move, Proceed, locals, SlotsOK, Importing, Checked
<1>18. ASSUME NEW r \in Requests, Commit(r)
      PROVE  SlotsOK'
  BY <1>18, StepSlots DEF Commit, Proceed, locals, SlotsOK, Importing, Checked
<1>19. ASSUME NEW r \in Requests, CommitNothing(r)
      PROVE  SlotsOK'
  BY <1>19, StepSlots DEF CommitNothing, Proceed, locals, SlotsOK, Importing, Checked
<1>20. ASSUME NEW r \in Requests, Undo(r)
      PROVE  SlotsOK'
  BY <1>20, StepSlots DEF Undo, Proceed, locals, SlotsOK, Importing, Checked
<1>21. ASSUME NEW r \in Requests, Unlink(r)
      PROVE  SlotsOK'
  BY <1>21, StepSlots, SettleSlots DEF Unlink, locals, SlotsOK, Importing, Checked
<1>22. ASSUME NEW r \in Requests, Fail(r)
      PROVE  SlotsOK'
  BY <1>22, SettleSlots DEF Fail
<1>23. ASSUME NEW r \in Requests, StepFails(r)
      PROVE  SlotsOK'
  BY <1>23, StepSlots, SettleSlots, LeaveSlots DEF StepFails, locals, SlotsOK, Importing, Checked
<1>24. ASSUME NEW r \in Requests, Drop(r)
      PROVE  SlotsOK'
  BY <1>24, LeaveSlots DEF Drop
<1>25. ASSUME NEW r \in Requests, Recover(r)
      PROVE  SlotsOK'
  <2>1. Listed({"importing"}) \in SUBSET Entry
    BY DEF Listed, Entry, TablesOK, Row
  <2>2. pc[r] \notin Importing
    BY <1>25 DEF Recover, BaseInv, Importing, Checked
  <2>. QED  BY <1>25, <2>1, <2>2 DEF Recover, SlotsOK, Goto, Steps, Importing, Checked
<1>26. ASSUME Crash
      PROVE  SlotsOK'
  BY <1>26 DEF Crash, SlotsOK, Steps, Importing, Checked
<1>27. ASSUME RecoverFails
      PROVE  SlotsOK'
  BY <1>27 DEF RecoverFails, SlotsOK, locals
<1>28. ASSUME NEW p \in Paths, Write(p)
      PROVE  SlotsOK'
  BY <1>28 DEF Write, locals, SlotsOK
<1>29. ASSUME NEW p \in Paths, Remove(p)
      PROVE  SlotsOK'
  BY <1>29 DEF Remove, locals, SlotsOK
<1>30. ASSUME NEW b \in BOOLEAN, SetEnabled(b)
      PROVE  SlotsOK'
  BY <1>30 DEF SetEnabled, locals, SlotsOK
<1>31. ASSUME NEW p \in Paths, Retry(p)
      PROVE  SlotsOK'
  BY <1>31 DEF Retry, locals, SlotsOK
<1>32. ASSUME NEW p \in Paths, OtherNodeTakesName(p)
      PROVE  SlotsOK'
  BY <1>32 DEF OtherNodeTakesName, locals, SlotsOK
<1>33. ASSUME NEW p \in Paths, OtherNodeFreesName(p)
      PROVE  SlotsOK'
  BY <1>33 DEF OtherNodeFreesName, locals, SlotsOK
<1>34. ASSUME NEW n \in Nodes, NodeLeaves(n)
      PROVE  SlotsOK'
  BY <1>34 DEF NodeLeaves, locals, SlotsOK
<1>35. ASSUME NEW n \in Nodes, Purge(n)
      PROVE  SlotsOK'
  BY <1>35 DEF Purge, locals, SlotsOK
<1>36. CASE UNCHANGED vars
  BY <1>36 DEF vars, locals, SlotsOK
<1>37. ASSUME NEW r \in Requests, Progress(r)
      PROVE  SlotsOK'
  BY <1>2, <1>3, <1>4, <1>5, <1>6, <1>7, <1>8, <1>9, <1>10, <1>11, <1>12,
    <1>13, <1>14, <1>15, <1>16, <1>17, <1>18, <1>19, <1>20, <1>21, <1>22,
    <1>37
  DEF Progress
<1>. QED
  BY <1>1, <1>23, <1>24, <1>25, <1>26, <1>27, <1>28, <1>29, <1>30, <1>31,
    <1>32, <1>33, <1>34, <1>35, <1>36, <1>37, ConstantsOK
  DEF Next, Owner, Others

\* ... and of the rest.
LEMMA TablesStep ==
    ASSUME TablesOK, SlotsOK, BaseInv, [Next]_vars
    PROVE  TablesOK'
<1>. USE DEF TablesOK, inbox, db, fs
<1>1. ASSUME NEW r \in Requests, ScanStart(r)
      PROVE  TablesOK'
  BY <1>1 DEF ScanStart
<1>2. ASSUME NEW r \in Requests, NEW p \in Paths, Discover(r, p)
      PROVE  TablesOK'
  BY <1>2, UpsertedRow DEF Discover, SlotsOK
<1>3. ASSUME NEW r \in Requests, NEW p \in Paths, WalkFails(r, p)
      PROVE  TablesOK'
  BY <1>3 DEF WalkFails
<1>4. ASSUME NEW r \in Requests, ListPending(r)
      PROVE  TablesOK'
  BY <1>4 DEF ListPending
<1>5. ASSUME NEW r \in Requests, Pick(r)
      PROVE  TablesOK'
  BY <1>5 DEF Pick
<1>6. ASSUME NEW r \in Requests, Done(r)
      PROVE  TablesOK'
  BY <1>6 DEF Done
<1>7. ASSUME NEW r \in Requests, Look(r)
      PROVE  TablesOK'
  BY <1>7 DEF Look, Proceed
<1>8. ASSUME NEW r \in Requests, Clean(r)
      PROVE  TablesOK'
  BY <1>8 DEF Clean
<1>9. ASSUME NEW r \in Requests, MarkImported(r)
      PROVE  TablesOK'
  BY <1>9, Busy, ImportedChange DEF MarkImported, BaseInv, Importing
<1>10. ASSUME NEW r \in Requests, Stage(r)
      PROVE  TablesOK'
  BY <1>10 DEF Stage, Proceed
<1>11. ASSUME NEW r \in Requests, Copy(r)
      PROVE  TablesOK'
  BY <1>11, Busy DEF Copy, Proceed, Importing, Checked
<1>12. ASSUME NEW r \in Requests, Check(r)
      PROVE  TablesOK'
  BY <1>12, Busy DEF Check, Proceed, Importing, Checked
<1>13. ASSUME NEW r \in Requests, Reset(r)
      PROVE  TablesOK'
  BY <1>13, Busy, StateChange DEF Reset, States, Importing, Checked
<1>14. ASSUME NEW r \in Requests, MarkStable(r)
      PROVE  TablesOK'
  BY <1>14, Busy, StateChange DEF MarkStable, States, Importing, Checked
<1>15. ASSUME NEW r \in Requests, Checksum(r)
      PROVE  TablesOK'
  BY <1>15 DEF Checksum
<1>16. ASSUME NEW r \in Requests, MarkImporting(r)
      PROVE  TablesOK'
  BY <1>16, Busy, StateChange DEF MarkImporting, States, Importing, Checked
<1>17. ASSUME NEW r \in Requests, Move(r)
      PROVE  TablesOK'
  BY <1>17, Busy DEF Move, Proceed, Importing, Checked
<1>18. ASSUME NEW r \in Requests, Commit(r)
      PROVE  TablesOK'
  <2>. DEFINE n == CHOOSE m \in Nodes : Fresh(m)
  <2>1. n \in Nodes
    BY <1>18 DEF Commit
  <2>2. entry[r].seen \in Nat /\ sum[r] \in Nat /\ P(r) \in Paths
    BY <1>18, Busy DEF Commit, SlotsOK, Importing, Checked
  <2>. HIDE DEF n
  <2>3. nodes' \in [Nodes -> Node]
    BY <1>18, <2>1, <2>2 DEF Commit, Node, n
  <2>4. row' \in [Paths -> Row]
    BY <1>18, <2>1, <2>2, ImportedChange DEF Commit, n
  <2>. QED  BY <1>18, <2>3, <2>4 DEF Commit
<1>19. ASSUME NEW r \in Requests, CommitNothing(r)
      PROVE  TablesOK'
  BY <1>19 DEF CommitNothing, Proceed
<1>20. ASSUME NEW r \in Requests, Undo(r)
      PROVE  TablesOK'
  BY <1>20, Busy DEF Undo, Proceed, Importing, Checked
<1>21. ASSUME NEW r \in Requests, Unlink(r)
      PROVE  TablesOK'
  BY <1>21 DEF Unlink
<1>22. ASSUME NEW r \in Requests, Fail(r)
      PROVE  TablesOK'
  BY <1>22, Busy, StateChange DEF Fail, States, Importing, Checked
<1>23. ASSUME NEW r \in Requests, StepFails(r)
      PROVE  TablesOK'
  BY <1>23, ConstantsOK DEF StepFails, Inject
<1>24. ASSUME NEW r \in Requests, Drop(r)
      PROVE  TablesOK'
  BY <1>24, ConstantsOK DEF Drop, Inject
<1>25. ASSUME NEW r \in Requests, Recover(r)
      PROVE  TablesOK'
  BY <1>25 DEF Recover
<1>26. ASSUME Crash
      PROVE  TablesOK'
  BY <1>26, ConstantsOK DEF Crash, Inject
<1>27. ASSUME RecoverFails
      PROVE  TablesOK'
  BY <1>27, ConstantsOK DEF RecoverFails, Inject
<1>28. ASSUME NEW p \in Paths, Write(p)
      PROVE  TablesOK'
  BY <1>28 DEF Write
<1>29. ASSUME NEW p \in Paths, Remove(p)
      PROVE  TablesOK'
  BY <1>29 DEF Remove
<1>30. ASSUME NEW b \in BOOLEAN, SetEnabled(b)
      PROVE  TablesOK'
  BY <1>30 DEF SetEnabled
<1>31. ASSUME NEW p \in Paths, Retry(p)
      PROVE  TablesOK'
  BY <1>31, StateChange DEF Retry, States
<1>32. ASSUME NEW p \in Paths, OtherNodeTakesName(p)
      PROVE  TablesOK'
  BY <1>32 DEF OtherNodeTakesName
<1>33. ASSUME NEW p \in Paths, OtherNodeFreesName(p)
      PROVE  TablesOK'
  BY <1>33 DEF OtherNodeFreesName
<1>34. ASSUME NEW n \in Nodes, NodeLeaves(n)
      PROVE  TablesOK'
  BY <1>34 DEF NodeLeaves, Node
<1>35. ASSUME NEW n \in Nodes, Purge(n)
      PROVE  TablesOK'
  <2>1. nodes' \in [Nodes -> Node]
    BY <1>35 DEF Purge, Node
  <2>2. row' \in [Paths -> Row]
    BY <1>35 DEF Purge, Row
  <2>3. nodes[n].path \in Paths
    BY <1>35 DEF Purge, BaseInv, Node
  <2>. QED  BY <1>35, <2>1, <2>2, <2>3 DEF Purge
<1>36. CASE UNCHANGED vars
  BY <1>36 DEF vars
<1>. HIDE DEF TablesOK, inbox, db, fs
<1>37. ASSUME NEW r \in Requests, Progress(r)
      PROVE  TablesOK'
  BY <1>2, <1>3, <1>4, <1>5, <1>6, <1>7, <1>8, <1>9, <1>10, <1>11, <1>12,
    <1>13, <1>14, <1>15, <1>16, <1>17, <1>18, <1>19, <1>20, <1>21, <1>22,
    <1>37
  DEF Progress
<1>. QED
  BY <1>1, <1>23, <1>24, <1>25, <1>26, <1>27, <1>28, <1>29, <1>30, <1>31,
    <1>32, <1>33, <1>34, <1>35, <1>36, <1>37, ConstantsOK
  DEF Next, Owner, Others

\* Every step keeps the base of the invariants.
LEMMA BaseStep ==
    ASSUME TablesOK, SlotsOK, BaseInv, [Next]_vars
    PROVE  BaseInv'
<1>. USE DEF BaseInv, SlotsOK, Goto, Proceed, Settle, Leave, inbox, db, fs, locals
<1>1. ASSUME NEW r \in Requests, ScanStart(r)
      PROVE  BaseInv'
  BY <1>1 DEF ScanStart
<1>2. ASSUME NEW r \in Requests, NEW p \in Paths, Discover(r, p)
      PROVE  BaseInv'
  BY <1>2 DEF Discover
<1>3. ASSUME NEW r \in Requests, NEW p \in Paths, WalkFails(r, p)
      PROVE  BaseInv'
  BY <1>3 DEF WalkFails
<1>4. ASSUME NEW r \in Requests, ListPending(r)
      PROVE  BaseInv'
  BY <1>4 DEF ListPending
<1>5. ASSUME NEW r \in Requests, Pick(r)
      PROVE  BaseInv'
  BY <1>5 DEF Pick
<1>6. ASSUME NEW r \in Requests, Done(r)
      PROVE  BaseInv'
  BY <1>6 DEF Done
<1>7. ASSUME NEW r \in Requests, Look(r)
      PROVE  BaseInv'
  BY <1>7 DEF Look, Importing, Checked
<1>8. ASSUME NEW r \in Requests, Clean(r)
      PROVE  BaseInv'
  BY <1>8 DEF Clean
<1>9. ASSUME NEW r \in Requests, MarkImported(r)
      PROVE  BaseInv'
  BY <1>9 DEF MarkImported
<1>10. ASSUME NEW r \in Requests, Stage(r)
      PROVE  BaseInv'
  BY <1>10 DEF Stage
<1>11. ASSUME NEW r \in Requests, Copy(r)
      PROVE  BaseInv'
  BY <1>11 DEF Copy
<1>12. ASSUME NEW r \in Requests, Check(r)
      PROVE  BaseInv'
  BY <1>12 DEF Check
<1>13. ASSUME NEW r \in Requests, Reset(r)
      PROVE  BaseInv'
  BY <1>13 DEF Reset
<1>14. ASSUME NEW r \in Requests, MarkStable(r)
      PROVE  BaseInv'
  BY <1>14 DEF MarkStable
<1>15. ASSUME NEW r \in Requests, Checksum(r)
      PROVE  BaseInv'
  BY <1>15 DEF Checksum
<1>16. ASSUME NEW r \in Requests, MarkImporting(r)
      PROVE  BaseInv'
  BY <1>16 DEF MarkImporting
<1>17. ASSUME NEW r \in Requests, Move(r)
      PROVE  BaseInv'
  BY <1>17 DEF Move
<1>18. ASSUME NEW r \in Requests, Commit(r)
      PROVE  BaseInv'
  <2>. DEFINE n == CHOOSE m \in Nodes : Fresh(m)
  <2>1. n \in Nodes /\ Fresh(n)
    BY <1>18 DEF Commit
  <2>2. P(r) \in Paths
    BY <1>18, Busy DEF Commit, Importing, Checked
  <2>. HIDE DEF n
  <2>. QED  BY <1>18, <2>1, <2>2, ConstantsOK DEF Commit, TablesOK, n
<1>19. ASSUME NEW r \in Requests, CommitNothing(r)
      PROVE  BaseInv'
  BY <1>19 DEF CommitNothing
<1>20. ASSUME NEW r \in Requests, Undo(r)
      PROVE  BaseInv'
  BY <1>20 DEF Undo
<1>21. ASSUME NEW r \in Requests, Unlink(r)
      PROVE  BaseInv'
  BY <1>21 DEF Unlink
<1>22. ASSUME NEW r \in Requests, Fail(r)
      PROVE  BaseInv'
  BY <1>22 DEF Fail
<1>23. ASSUME NEW r \in Requests, StepFails(r)
      PROVE  BaseInv'
  BY <1>23 DEF StepFails, Importing, Checked
<1>24. ASSUME NEW r \in Requests, Drop(r)
      PROVE  BaseInv'
  BY <1>24 DEF Drop
<1>25. ASSUME NEW r \in Requests, Recover(r)
      PROVE  BaseInv'
  BY <1>25 DEF Recover
<1>26. ASSUME Crash
      PROVE  BaseInv'
  BY <1>26 DEF Crash
<1>27. ASSUME RecoverFails
      PROVE  BaseInv'
  BY <1>27 DEF RecoverFails
<1>28. ASSUME NEW p \in Paths, Write(p)
      PROVE  BaseInv'
  BY <1>28 DEF Write
<1>29. ASSUME NEW p \in Paths, Remove(p)
      PROVE  BaseInv'
  BY <1>29 DEF Remove
<1>30. ASSUME NEW b \in BOOLEAN, SetEnabled(b)
      PROVE  BaseInv'
  BY <1>30 DEF SetEnabled
<1>31. ASSUME NEW p \in Paths, Retry(p)
      PROVE  BaseInv'
  BY <1>31 DEF Retry
<1>32. ASSUME NEW p \in Paths, OtherNodeTakesName(p)
      PROVE  BaseInv'
  BY <1>32 DEF OtherNodeTakesName
<1>33. ASSUME NEW p \in Paths, OtherNodeFreesName(p)
      PROVE  BaseInv'
  BY <1>33 DEF OtherNodeFreesName
<1>34. ASSUME NEW n \in Nodes, NodeLeaves(n)
      PROVE  BaseInv'
  BY <1>34 DEF NodeLeaves, TablesOK
<1>35. ASSUME NEW n \in Nodes, Purge(n)
      PROVE  BaseInv'
  BY <1>35 DEF Purge, TablesOK
<1>36. CASE UNCHANGED vars
  BY <1>36 DEF vars
<1>. HIDE DEF BaseInv, SlotsOK, Goto, Proceed, Settle, Leave, inbox, db, fs, locals
<1>37. ASSUME NEW r \in Requests, Progress(r)
      PROVE  BaseInv'
  BY <1>2, <1>3, <1>4, <1>5, <1>6, <1>7, <1>8, <1>9, <1>10, <1>11, <1>12,
    <1>13, <1>14, <1>15, <1>16, <1>17, <1>18, <1>19, <1>20, <1>21, <1>22,
    <1>37
  DEF Progress
<1>. QED
  BY <1>1, <1>23, <1>24, <1>25, <1>26, <1>27, <1>28, <1>29, <1>30, <1>31,
    <1>32, <1>33, <1>34, <1>35, <1>36, <1>37, ConstantsOK
  DEF Next, Owner, Others

\* Types and base together are inductive.
LEMMA TypeStep == TypeOK /\ BaseInv /\ [Next]_vars => TypeOK' /\ BaseInv'
<1>1. TypeOK' <=> TablesOK' /\ SlotsOK'
  BY DEF TypeOK, TablesOK, SlotsOK
<1>. QED  BY <1>1, Halves, SlotsStep, TablesStep, BaseStep

LEMMA BaseInit == Init => BaseInv
BY DEF Init, BaseInv, NoNode

\* Tables, directories and scans stay well typed; a slot that is importing has
\* an entry, and only such a slot.
THEOREM TypeCorrect == Spec => []TypeOK
<1>1. Init => TypeOK /\ BaseInv
  BY TypeInit, BaseInit
<1>. QED  BY <1>1, TypeStep, PTL DEF Spec

\* Scans do not overlap.
LEMMA OneScanStep ==
    ASSUME Orderly, TablesOK, SlotsOK, BaseInv, OneScan, [Next]_vars
    PROVE  OneScan'
<1>. USE DEF OneScan, SlotsOK, Goto, Proceed, Settle, Leave, inbox, db, fs, locals
<1>1. ASSUME NEW r \in Requests, ScanStart(r)
      PROVE  OneScan'
  BY <1>1 DEF ScanStart, Orderly
<1>2. ASSUME NEW r \in Requests, NEW p \in Paths, Discover(r, p)
      PROVE  OneScan'
  BY <1>2 DEF Discover
<1>3. ASSUME NEW r \in Requests, NEW p \in Paths, WalkFails(r, p)
      PROVE  OneScan'
  BY <1>3 DEF WalkFails
<1>4. ASSUME NEW r \in Requests, ListPending(r)
      PROVE  OneScan'
  BY <1>4 DEF ListPending
<1>5. ASSUME NEW r \in Requests, Pick(r)
      PROVE  OneScan'
  BY <1>5 DEF Pick
<1>6. ASSUME NEW r \in Requests, Done(r)
      PROVE  OneScan'
  BY <1>6 DEF Done
<1>7. ASSUME NEW r \in Requests, Look(r)
      PROVE  OneScan'
  BY <1>7 DEF Look
<1>8. ASSUME NEW r \in Requests, Clean(r)
      PROVE  OneScan'
  BY <1>8 DEF Clean
<1>9. ASSUME NEW r \in Requests, MarkImported(r)
      PROVE  OneScan'
  BY <1>9 DEF MarkImported
<1>10. ASSUME NEW r \in Requests, Stage(r)
      PROVE  OneScan'
  BY <1>10 DEF Stage
<1>11. ASSUME NEW r \in Requests, Copy(r)
      PROVE  OneScan'
  BY <1>11 DEF Copy
<1>12. ASSUME NEW r \in Requests, Check(r)
      PROVE  OneScan'
  BY <1>12 DEF Check
<1>13. ASSUME NEW r \in Requests, Reset(r)
      PROVE  OneScan'
  BY <1>13 DEF Reset
<1>14. ASSUME NEW r \in Requests, MarkStable(r)
      PROVE  OneScan'
  BY <1>14 DEF MarkStable
<1>15. ASSUME NEW r \in Requests, Checksum(r)
      PROVE  OneScan'
  BY <1>15 DEF Checksum
<1>16. ASSUME NEW r \in Requests, MarkImporting(r)
      PROVE  OneScan'
  BY <1>16 DEF MarkImporting
<1>17. ASSUME NEW r \in Requests, Move(r)
      PROVE  OneScan'
  BY <1>17 DEF Move
<1>18. ASSUME NEW r \in Requests, Commit(r)
      PROVE  OneScan'
  BY <1>18 DEF Commit
<1>19. ASSUME NEW r \in Requests, CommitNothing(r)
      PROVE  OneScan'
  BY <1>19 DEF CommitNothing
<1>20. ASSUME NEW r \in Requests, Undo(r)
      PROVE  OneScan'
  BY <1>20 DEF Undo
<1>21. ASSUME NEW r \in Requests, Unlink(r)
      PROVE  OneScan'
  BY <1>21 DEF Unlink
<1>22. ASSUME NEW r \in Requests, Fail(r)
      PROVE  OneScan'
  BY <1>22 DEF Fail
<1>23. ASSUME NEW r \in Requests, StepFails(r)
      PROVE  OneScan'
  BY <1>23 DEF StepFails, Importing, Checked
<1>24. ASSUME NEW r \in Requests, Drop(r)
      PROVE  OneScan'
  BY <1>24 DEF Drop
<1>25. ASSUME NEW r \in Requests, Recover(r)
      PROVE  OneScan'
  BY <1>25 DEF Recover, BaseInv
<1>26. ASSUME Crash
      PROVE  OneScan'
  BY <1>26 DEF Crash
<1>27. ASSUME RecoverFails
      PROVE  OneScan'
  BY <1>27 DEF RecoverFails
<1>28. ASSUME NEW p \in Paths, Write(p)
      PROVE  OneScan'
  BY <1>28 DEF Write
<1>29. ASSUME NEW p \in Paths, Remove(p)
      PROVE  OneScan'
  BY <1>29 DEF Remove
<1>30. ASSUME NEW b \in BOOLEAN, SetEnabled(b)
      PROVE  OneScan'
  BY <1>30 DEF SetEnabled
<1>31. ASSUME NEW p \in Paths, Retry(p)
      PROVE  OneScan'
  BY <1>31 DEF Retry
<1>32. ASSUME NEW p \in Paths, OtherNodeTakesName(p)
      PROVE  OneScan'
  BY <1>32 DEF OtherNodeTakesName
<1>33. ASSUME NEW p \in Paths, OtherNodeFreesName(p)
      PROVE  OneScan'
  BY <1>33 DEF OtherNodeFreesName
<1>34. ASSUME NEW n \in Nodes, NodeLeaves(n)
      PROVE  OneScan'
  BY <1>34 DEF NodeLeaves
<1>35. ASSUME NEW n \in Nodes, Purge(n)
      PROVE  OneScan'
  BY <1>35 DEF Purge
<1>36. CASE UNCHANGED vars
  BY <1>36 DEF vars
<1>. HIDE DEF OneScan, SlotsOK, Goto, Proceed, Settle, Leave, inbox, db, fs, locals
<1>37. ASSUME NEW r \in Requests, Progress(r)
      PROVE  OneScan'
  BY <1>2, <1>3, <1>4, <1>5, <1>6, <1>7, <1>8, <1>9, <1>10, <1>11, <1>12,
    <1>13, <1>14, <1>15, <1>16, <1>17, <1>18, <1>19, <1>20, <1>21, <1>22,
    <1>37
  DEF Progress
<1>. QED
  BY <1>1, <1>23, <1>24, <1>25, <1>26, <1>27, <1>28, <1>29, <1>30, <1>31,
    <1>32, <1>33, <1>34, <1>35, <1>36, <1>37, ConstantsOK
  DEF Next, Owner, Others

\* Rows stay, and nothing newer becomes older.
Grown(q) ==
    /\ last'[q] \in Nat /\ last'[q] >= last[q]
    /\ row[q].state # "none" => row'[q].state # "none"
----------------------------------------------------------------------------
(* What a step may do to the entries that scans hold                        *)

\* An interrupted entry is a pending one.
LEMMA InterruptedPending == Listed({"importing"}) \subseteq Listed(Pending)
BY DEF Listed, Pending

\* What a listed entry is, and that a path is listed once.
LEMMA ListedEntry ==
    ASSUME NEW S, NEW e \in Listed(S)
    PROVE  /\ e.path \in Paths /\ row[e.path].state \in S
           /\ e.seen = row[e.path].seen /\ e.node = row[e.path].node
           /\ e # NoEntry
BY ConstantsOK DEF Listed, NoEntry

LEMMA ListedOnce ==
    ASSUME NEW S, NEW d \in Listed(S), NEW e \in Listed(S), d.path = e.path
    PROVE  d = e
BY DEF Listed

\* The entry that is being imported is held.
LEMMA BusyHeld ==
    ASSUME SlotsOK, NEW r \in Requests, pc[r] \in Importing
    PROVE  entry[r] \in Held(r) /\ P(r) = entry[r].path
BY DEF SlotsOK, Held, P

\* A scan only ever comes to hold what it finds pending.
LEMMA HeldStep ==
    ASSUME SlotsOK, [Next]_vars
    PROVE  \A q \in Requests : Held(q)' \subseteq Held(q) \cup Listed(Pending)
<1>. USE DEF Held, SlotsOK, Goto, Proceed, Settle, Leave, inbox, db, fs, locals
<1>1. ASSUME NEW r \in Requests, ScanStart(r)
      PROVE  \A q \in Requests : Held(q)' \subseteq Held(q) \cup Listed(Pending)
  BY <1>1 DEF ScanStart
<1>2. ASSUME NEW r \in Requests, NEW p \in Paths, Discover(r, p)
      PROVE  \A q \in Requests : Held(q)' \subseteq Held(q) \cup Listed(Pending)
  BY <1>2 DEF Discover
<1>3. ASSUME NEW r \in Requests, NEW p \in Paths, WalkFails(r, p)
      PROVE  \A q \in Requests : Held(q)' \subseteq Held(q) \cup Listed(Pending)
  BY <1>3 DEF WalkFails
<1>4. ASSUME NEW r \in Requests, ListPending(r)
      PROVE  \A q \in Requests : Held(q)' \subseteq Held(q) \cup Listed(Pending)
  BY <1>4 DEF ListPending
<1>5. ASSUME NEW r \in Requests, Pick(r)
      PROVE  \A q \in Requests : Held(q)' \subseteq Held(q) \cup Listed(Pending)
  BY <1>5 DEF Pick
<1>6. ASSUME NEW r \in Requests, Done(r)
      PROVE  \A q \in Requests : Held(q)' \subseteq Held(q) \cup Listed(Pending)
  BY <1>6 DEF Done
<1>7. ASSUME NEW r \in Requests, Look(r)
      PROVE  \A q \in Requests : Held(q)' \subseteq Held(q) \cup Listed(Pending)
  BY <1>7 DEF Look
<1>8. ASSUME NEW r \in Requests, Clean(r)
      PROVE  \A q \in Requests : Held(q)' \subseteq Held(q) \cup Listed(Pending)
  BY <1>8 DEF Clean
<1>9. ASSUME NEW r \in Requests, MarkImported(r)
      PROVE  \A q \in Requests : Held(q)' \subseteq Held(q) \cup Listed(Pending)
  BY <1>9 DEF MarkImported
<1>10. ASSUME NEW r \in Requests, Stage(r)
      PROVE  \A q \in Requests : Held(q)' \subseteq Held(q) \cup Listed(Pending)
  BY <1>10 DEF Stage
<1>11. ASSUME NEW r \in Requests, Copy(r)
      PROVE  \A q \in Requests : Held(q)' \subseteq Held(q) \cup Listed(Pending)
  BY <1>11 DEF Copy
<1>12. ASSUME NEW r \in Requests, Check(r)
      PROVE  \A q \in Requests : Held(q)' \subseteq Held(q) \cup Listed(Pending)
  BY <1>12 DEF Check
<1>13. ASSUME NEW r \in Requests, Reset(r)
      PROVE  \A q \in Requests : Held(q)' \subseteq Held(q) \cup Listed(Pending)
  BY <1>13 DEF Reset
<1>14. ASSUME NEW r \in Requests, MarkStable(r)
      PROVE  \A q \in Requests : Held(q)' \subseteq Held(q) \cup Listed(Pending)
  BY <1>14 DEF MarkStable
<1>15. ASSUME NEW r \in Requests, Checksum(r)
      PROVE  \A q \in Requests : Held(q)' \subseteq Held(q) \cup Listed(Pending)
  BY <1>15 DEF Checksum
<1>16. ASSUME NEW r \in Requests, MarkImporting(r)
      PROVE  \A q \in Requests : Held(q)' \subseteq Held(q) \cup Listed(Pending)
  BY <1>16 DEF MarkImporting
<1>17. ASSUME NEW r \in Requests, Move(r)
      PROVE  \A q \in Requests : Held(q)' \subseteq Held(q) \cup Listed(Pending)
  BY <1>17 DEF Move
<1>18. ASSUME NEW r \in Requests, Commit(r)
      PROVE  \A q \in Requests : Held(q)' \subseteq Held(q) \cup Listed(Pending)
  BY <1>18 DEF Commit
<1>19. ASSUME NEW r \in Requests, CommitNothing(r)
      PROVE  \A q \in Requests : Held(q)' \subseteq Held(q) \cup Listed(Pending)
  BY <1>19 DEF CommitNothing
<1>20. ASSUME NEW r \in Requests, Undo(r)
      PROVE  \A q \in Requests : Held(q)' \subseteq Held(q) \cup Listed(Pending)
  BY <1>20 DEF Undo
<1>21. ASSUME NEW r \in Requests, Unlink(r)
      PROVE  \A q \in Requests : Held(q)' \subseteq Held(q) \cup Listed(Pending)
  BY <1>21 DEF Unlink
<1>22. ASSUME NEW r \in Requests, Fail(r)
      PROVE  \A q \in Requests : Held(q)' \subseteq Held(q) \cup Listed(Pending)
  BY <1>22 DEF Fail
<1>23. ASSUME NEW r \in Requests, StepFails(r)
      PROVE  \A q \in Requests : Held(q)' \subseteq Held(q) \cup Listed(Pending)
  BY <1>23 DEF StepFails
<1>24. ASSUME NEW r \in Requests, Drop(r)
      PROVE  \A q \in Requests : Held(q)' \subseteq Held(q) \cup Listed(Pending)
  BY <1>24 DEF Drop
<1>25. ASSUME NEW r \in Requests, Recover(r)
      PROVE  \A q \in Requests : Held(q)' \subseteq Held(q) \cup Listed(Pending)
  BY <1>25, InterruptedPending DEF Recover
<1>26. ASSUME Crash
      PROVE  \A q \in Requests : Held(q)' \subseteq Held(q) \cup Listed(Pending)
  BY <1>26 DEF Crash
<1>27. ASSUME RecoverFails
      PROVE  \A q \in Requests : Held(q)' \subseteq Held(q) \cup Listed(Pending)
  BY <1>27 DEF RecoverFails
<1>28. ASSUME NEW p \in Paths, Write(p)
      PROVE  \A q \in Requests : Held(q)' \subseteq Held(q) \cup Listed(Pending)
  BY <1>28 DEF Write
<1>29. ASSUME NEW p \in Paths, Remove(p)
      PROVE  \A q \in Requests : Held(q)' \subseteq Held(q) \cup Listed(Pending)
  BY <1>29 DEF Remove
<1>30. ASSUME NEW b \in BOOLEAN, SetEnabled(b)
      PROVE  \A q \in Requests : Held(q)' \subseteq Held(q) \cup Listed(Pending)
  BY <1>30 DEF SetEnabled
<1>31. ASSUME NEW p \in Paths, Retry(p)
      PROVE  \A q \in Requests : Held(q)' \subseteq Held(q) \cup Listed(Pending)
  BY <1>31 DEF Retry
<1>32. ASSUME NEW p \in Paths, OtherNodeTakesName(p)
      PROVE  \A q \in Requests : Held(q)' \subseteq Held(q) \cup Listed(Pending)
  BY <1>32 DEF OtherNodeTakesName
<1>33. ASSUME NEW p \in Paths, OtherNodeFreesName(p)
      PROVE  \A q \in Requests : Held(q)' \subseteq Held(q) \cup Listed(Pending)
  BY <1>33 DEF OtherNodeFreesName
<1>34. ASSUME NEW n \in Nodes, NodeLeaves(n)
      PROVE  \A q \in Requests : Held(q)' \subseteq Held(q) \cup Listed(Pending)
  BY <1>34 DEF NodeLeaves
<1>35. ASSUME NEW n \in Nodes, Purge(n)
      PROVE  \A q \in Requests : Held(q)' \subseteq Held(q) \cup Listed(Pending)
  BY <1>35 DEF Purge
<1>36. CASE UNCHANGED vars
  BY <1>36 DEF vars
<1>. HIDE DEF Held, SlotsOK, Goto, Proceed, Settle, Leave, inbox, db, fs, locals
<1>37. ASSUME NEW r \in Requests, Progress(r)
      PROVE  \A q \in Requests : Held(q)' \subseteq Held(q) \cup Listed(Pending)
  BY <1>2, <1>3, <1>4, <1>5, <1>6, <1>7, <1>8, <1>9, <1>10, <1>11, <1>12,
    <1>13, <1>14, <1>15, <1>16, <1>17, <1>18, <1>19, <1>20, <1>21, <1>22,
    <1>37
  DEF Progress
<1>. QED
  BY <1>1, <1>23, <1>24, <1>25, <1>26, <1>27, <1>28, <1>29, <1>30, <1>31,
    <1>32, <1>33, <1>34, <1>35, <1>36, <1>37, ConstantsOK
  DEF Next, Owner, Others

\* No step makes a path forget its row or its newest file.
LEMMA GrowStep ==
    ASSUME TablesOK, SlotsOK, BaseInv, [Next]_vars
    PROVE  \A q \in Paths : Grown(q)
<1>. USE DEF Grown, TablesOK, inbox, db, fs
<1>1. ASSUME NEW r \in Requests, ScanStart(r)
      PROVE  \A q \in Paths : Grown(q)
  BY <1>1 DEF ScanStart
<1>2. ASSUME NEW r \in Requests, NEW p \in Paths, Discover(r, p)
      PROVE  \A q \in Paths : Grown(q)
  BY <1>2, UpsertedRow DEF Discover, Upserted
<1>3. ASSUME NEW r \in Requests, NEW p \in Paths, WalkFails(r, p)
      PROVE  \A q \in Paths : Grown(q)
  BY <1>3 DEF WalkFails
<1>4. ASSUME NEW r \in Requests, ListPending(r)
      PROVE  \A q \in Paths : Grown(q)
  BY <1>4 DEF ListPending
<1>5. ASSUME NEW r \in Requests, Pick(r)
      PROVE  \A q \in Paths : Grown(q)
  BY <1>5 DEF Pick
<1>6. ASSUME NEW r \in Requests, Done(r)
      PROVE  \A q \in Paths : Grown(q)
  BY <1>6 DEF Done
<1>7. ASSUME NEW r \in Requests, Look(r)
      PROVE  \A q \in Paths : Grown(q)
  BY <1>7 DEF Look, Proceed
<1>8. ASSUME NEW r \in Requests, Clean(r)
      PROVE  \A q \in Paths : Grown(q)
  BY <1>8, Busy DEF Clean, Importing, Checked
<1>9. ASSUME NEW r \in Requests, MarkImported(r)
      PROVE  \A q \in Paths : Grown(q)
  <2>1. entry[r].node \in Nodes /\ P(r) \in Paths
    BY <1>9, Busy DEF MarkImported, BaseInv, Importing
  <2>. QED  BY <1>9, <2>1, ImportedChange DEF MarkImported
<1>10. ASSUME NEW r \in Requests, Stage(r)
      PROVE  \A q \in Paths : Grown(q)
  BY <1>10 DEF Stage, Proceed
<1>11. ASSUME NEW r \in Requests, Copy(r)
      PROVE  \A q \in Paths : Grown(q)
  BY <1>11 DEF Copy, Proceed
<1>12. ASSUME NEW r \in Requests, Check(r)
      PROVE  \A q \in Paths : Grown(q)
  BY <1>12 DEF Check, Proceed
<1>13. ASSUME NEW r \in Requests, Reset(r)
      PROVE  \A q \in Paths : Grown(q)
  BY <1>13, Busy, BusyHeld, StateChange DEF Reset, States, Importing, Checked
<1>14. ASSUME NEW r \in Requests, MarkStable(r)
      PROVE  \A q \in Paths : Grown(q)
  BY <1>14, Busy, BusyHeld, StateChange DEF MarkStable, States, Importing, Checked
<1>15. ASSUME NEW r \in Requests, Checksum(r)
      PROVE  \A q \in Paths : Grown(q)
  BY <1>15 DEF Checksum
<1>16. ASSUME NEW r \in Requests, MarkImporting(r)
      PROVE  \A q \in Paths : Grown(q)
  BY <1>16, Busy, BusyHeld, StateChange DEF MarkImporting, States, Importing, Checked
<1>17. ASSUME NEW r \in Requests, Move(r)
      PROVE  \A q \in Paths : Grown(q)
  BY <1>17 DEF Move, Proceed
<1>18. ASSUME NEW r \in Requests, Commit(r)
      PROVE  \A q \in Paths : Grown(q)
  <2>. DEFINE n == CHOOSE m \in Nodes : Fresh(m)
  <2>1. n \in Nodes
    BY <1>18 DEF Commit
  <2>2. P(r) \in Paths
    BY <1>18, Busy DEF Commit, Importing, Checked
  <2>. HIDE DEF n
  <2>3. /\ row' = [row EXCEPT ![P(r)].state = "imported", ![P(r)].node = n]
        /\ UNCHANGED <<source, last>>
    BY <1>18 DEF Commit, n
  <2>4. row[P(r)].state # "none"
    BY <1>18 DEF Commit, Publishable
  <2>. HIDE <1>18
  <2>5. \A q \in Paths : /\ row'[q].seen = row[q].seen
                          /\ row'[q].state = IF q = P(r) THEN "imported"
                                                         ELSE row[q].state
    BY <2>1, <2>2, <2>3, ImportedChange
  <2>. QED  BY <2>2, <2>3, <2>4, <2>5
<1>19. ASSUME NEW r \in Requests, CommitNothing(r)
      PROVE  \A q \in Paths : Grown(q)
  BY <1>19 DEF CommitNothing, Proceed
<1>20. ASSUME NEW r \in Requests, Undo(r)
      PROVE  \A q \in Paths : Grown(q)
  BY <1>20 DEF Undo, Proceed
<1>21. ASSUME NEW r \in Requests, Unlink(r)
      PROVE  \A q \in Paths : Grown(q)
  BY <1>21, Busy DEF Unlink, Importing, Checked
<1>22. ASSUME NEW r \in Requests, Fail(r)
      PROVE  \A q \in Paths : Grown(q)
  BY <1>22, Busy, BusyHeld, StateChange DEF Fail, States, Importing, Checked
<1>23. ASSUME NEW r \in Requests, StepFails(r)
      PROVE  \A q \in Paths : Grown(q)
  BY <1>23 DEF StepFails
<1>24. ASSUME NEW r \in Requests, Drop(r)
      PROVE  \A q \in Paths : Grown(q)
  BY <1>24 DEF Drop
<1>25. ASSUME NEW r \in Requests, Recover(r)
      PROVE  \A q \in Paths : Grown(q)
  BY <1>25 DEF Recover
<1>26. ASSUME Crash
      PROVE  \A q \in Paths : Grown(q)
  BY <1>26 DEF Crash
<1>27. ASSUME RecoverFails
      PROVE  \A q \in Paths : Grown(q)
  BY <1>27 DEF RecoverFails
<1>28. ASSUME NEW p \in Paths, Write(p)
      PROVE  \A q \in Paths : Grown(q)
  BY <1>28, ConstantsOK DEF Write
<1>29. ASSUME NEW p \in Paths, Remove(p)
      PROVE  \A q \in Paths : Grown(q)
  BY <1>29, ConstantsOK DEF Remove
<1>30. ASSUME NEW b \in BOOLEAN, SetEnabled(b)
      PROVE  \A q \in Paths : Grown(q)
  BY <1>30 DEF SetEnabled
<1>31. ASSUME NEW p \in Paths, Retry(p)
      PROVE  \A q \in Paths : Grown(q)
  BY <1>31, StateChange DEF Retry, States
<1>32. ASSUME NEW p \in Paths, OtherNodeTakesName(p)
      PROVE  \A q \in Paths : Grown(q)
  BY <1>32 DEF OtherNodeTakesName
<1>33. ASSUME NEW p \in Paths, OtherNodeFreesName(p)
      PROVE  \A q \in Paths : Grown(q)
  BY <1>33 DEF OtherNodeFreesName
<1>34. ASSUME NEW n \in Nodes, NodeLeaves(n)
      PROVE  \A q \in Paths : Grown(q)
  BY <1>34 DEF NodeLeaves
<1>35. ASSUME NEW n \in Nodes, Purge(n)
      PROVE  \A q \in Paths : Grown(q)
  BY <1>35 DEF Purge
<1>36. CASE UNCHANGED vars
  BY <1>36 DEF vars
<1>. HIDE DEF Grown, TablesOK, inbox, db, fs
<1>37. ASSUME NEW r \in Requests, Progress(r)
      PROVE  \A q \in Paths : Grown(q)
  BY <1>2, <1>3, <1>4, <1>5, <1>6, <1>7, <1>8, <1>9, <1>10, <1>11, <1>12,
    <1>13, <1>14, <1>15, <1>16, <1>17, <1>18, <1>19, <1>20, <1>21, <1>22,
    <1>37
  DEF Progress
<1>. QED
  BY <1>1, <1>23, <1>24, <1>25, <1>26, <1>27, <1>28, <1>29, <1>30, <1>31,
    <1>32, <1>33, <1>34, <1>35, <1>36, <1>37, ConstantsOK
  DEF Next, Owner, Others

\* Rows know files that have been there.
LEMMA VersionsStep ==
    ASSUME TablesOK, SlotsOK, BaseInv, VersionsOK, EntriesOK, [Next]_vars
    PROVE  VersionsOK'
<1>. USE DEF VersionsOK, TablesOK, inbox, db, fs
<1>1. ASSUME NEW r \in Requests, ScanStart(r)
      PROVE  VersionsOK'
  BY <1>1 DEF ScanStart
<1>2. ASSUME NEW r \in Requests, NEW p \in Paths, Discover(r, p)
      PROVE  VersionsOK'
  BY <1>2, UpsertedRow DEF Discover, Upserted
<1>3. ASSUME NEW r \in Requests, NEW p \in Paths, WalkFails(r, p)
      PROVE  VersionsOK'
  BY <1>3 DEF WalkFails
<1>4. ASSUME NEW r \in Requests, ListPending(r)
      PROVE  VersionsOK'
  BY <1>4 DEF ListPending
<1>5. ASSUME NEW r \in Requests, Pick(r)
      PROVE  VersionsOK'
  BY <1>5 DEF Pick
<1>6. ASSUME NEW r \in Requests, Done(r)
      PROVE  VersionsOK'
  BY <1>6 DEF Done
<1>7. ASSUME NEW r \in Requests, Look(r)
      PROVE  VersionsOK'
  BY <1>7 DEF Look, Proceed
<1>8. ASSUME NEW r \in Requests, Clean(r)
      PROVE  VersionsOK'
  BY <1>8, Busy DEF Clean, Importing, Checked
<1>9. ASSUME NEW r \in Requests, MarkImported(r)
      PROVE  VersionsOK'
  <2>1. entry[r].node \in Nodes /\ P(r) \in Paths
    BY <1>9, Busy DEF MarkImported, BaseInv, Importing
  <2>2. row[P(r)].state # "none"
    BY <1>9, BusyHeld DEF MarkImported, EntriesOK, Known, Importing
  <2>. QED  BY <1>9, <2>1, <2>2, ImportedChange DEF MarkImported
<1>10. ASSUME NEW r \in Requests, Stage(r)
      PROVE  VersionsOK'
  BY <1>10 DEF Stage, Proceed
<1>11. ASSUME NEW r \in Requests, Copy(r)
      PROVE  VersionsOK'
  BY <1>11 DEF Copy, Proceed
<1>12. ASSUME NEW r \in Requests, Check(r)
      PROVE  VersionsOK'
  BY <1>12 DEF Check, Proceed
<1>13. ASSUME NEW r \in Requests, Reset(r)
      PROVE  VersionsOK'
  BY <1>13, Busy, BusyHeld, StateChange DEF Reset, EntriesOK, Known, States, Importing, Checked
<1>14. ASSUME NEW r \in Requests, MarkStable(r)
      PROVE  VersionsOK'
  BY <1>14, Busy, BusyHeld, StateChange DEF MarkStable, EntriesOK, Known, States, Importing, Checked
<1>15. ASSUME NEW r \in Requests, Checksum(r)
      PROVE  VersionsOK'
  BY <1>15 DEF Checksum
<1>16. ASSUME NEW r \in Requests, MarkImporting(r)
      PROVE  VersionsOK'
  BY <1>16, Busy, BusyHeld, StateChange DEF MarkImporting, EntriesOK, Known, States, Importing, Checked
<1>17. ASSUME NEW r \in Requests, Move(r)
      PROVE  VersionsOK'
  BY <1>17 DEF Move, Proceed
<1>18. ASSUME NEW r \in Requests, Commit(r)
      PROVE  VersionsOK'
  <2>. DEFINE n == CHOOSE m \in Nodes : Fresh(m)
  <2>1. n \in Nodes
    BY <1>18 DEF Commit
  <2>2. P(r) \in Paths
    BY <1>18, Busy DEF Commit, Importing, Checked
  <2>. HIDE DEF n
  <2>3. /\ row' = [row EXCEPT ![P(r)].state = "imported", ![P(r)].node = n]
        /\ UNCHANGED <<source, last>>
    BY <1>18 DEF Commit, n
  <2>4. row[P(r)].state # "none"
    BY <1>18 DEF Commit, Publishable
  <2>. HIDE <1>18
  <2>5. \A q \in Paths : /\ row'[q].seen = row[q].seen
                          /\ row'[q].state = IF q = P(r) THEN "imported"
                                                         ELSE row[q].state
    BY <2>1, <2>2, <2>3, ImportedChange
  <2>. QED  BY <2>2, <2>3, <2>4, <2>5
<1>19. ASSUME NEW r \in Requests, CommitNothing(r)
      PROVE  VersionsOK'
  BY <1>19 DEF CommitNothing, Proceed
<1>20. ASSUME NEW r \in Requests, Undo(r)
      PROVE  VersionsOK'
  BY <1>20 DEF Undo, Proceed
<1>21. ASSUME NEW r \in Requests, Unlink(r)
      PROVE  VersionsOK'
  BY <1>21, Busy DEF Unlink, Importing, Checked
<1>22. ASSUME NEW r \in Requests, Fail(r)
      PROVE  VersionsOK'
  BY <1>22, Busy, BusyHeld, StateChange DEF Fail, EntriesOK, Known, States, Importing, Checked
<1>23. ASSUME NEW r \in Requests, StepFails(r)
      PROVE  VersionsOK'
  BY <1>23 DEF StepFails
<1>24. ASSUME NEW r \in Requests, Drop(r)
      PROVE  VersionsOK'
  BY <1>24 DEF Drop
<1>25. ASSUME NEW r \in Requests, Recover(r)
      PROVE  VersionsOK'
  BY <1>25 DEF Recover
<1>26. ASSUME Crash
      PROVE  VersionsOK'
  BY <1>26 DEF Crash
<1>27. ASSUME RecoverFails
      PROVE  VersionsOK'
  BY <1>27 DEF RecoverFails
<1>28. ASSUME NEW p \in Paths, Write(p)
      PROVE  VersionsOK'
  BY <1>28, ConstantsOK DEF Write
<1>29. ASSUME NEW p \in Paths, Remove(p)
      PROVE  VersionsOK'
  BY <1>29, ConstantsOK DEF Remove
<1>30. ASSUME NEW b \in BOOLEAN, SetEnabled(b)
      PROVE  VersionsOK'
  BY <1>30 DEF SetEnabled
<1>31. ASSUME NEW p \in Paths, Retry(p)
      PROVE  VersionsOK'
  BY <1>31, StateChange DEF Retry, EntriesOK, Known, States
<1>32. ASSUME NEW p \in Paths, OtherNodeTakesName(p)
      PROVE  VersionsOK'
  BY <1>32 DEF OtherNodeTakesName
<1>33. ASSUME NEW p \in Paths, OtherNodeFreesName(p)
      PROVE  VersionsOK'
  BY <1>33 DEF OtherNodeFreesName
<1>34. ASSUME NEW n \in Nodes, NodeLeaves(n)
      PROVE  VersionsOK'
  BY <1>34 DEF NodeLeaves
<1>35. ASSUME NEW n \in Nodes, Purge(n)
      PROVE  VersionsOK'
  BY <1>35 DEF Purge
<1>36. CASE UNCHANGED vars
  BY <1>36 DEF vars
<1>. HIDE DEF VersionsOK, TablesOK, inbox, db, fs
<1>37. ASSUME NEW r \in Requests, Progress(r)
      PROVE  VersionsOK'
  BY <1>2, <1>3, <1>4, <1>5, <1>6, <1>7, <1>8, <1>9, <1>10, <1>11, <1>12,
    <1>13, <1>14, <1>15, <1>16, <1>17, <1>18, <1>19, <1>20, <1>21, <1>22,
    <1>37
  DEF Progress
<1>. QED
  BY <1>1, <1>23, <1>24, <1>25, <1>26, <1>27, <1>28, <1>29, <1>30, <1>31,
    <1>32, <1>33, <1>34, <1>35, <1>36, <1>37, ConstantsOK
  DEF Next, Owner, Others

\* What a scan holds stays known.
LEMMA EntriesStep ==
    ASSUME TablesOK, SlotsOK, BaseInv, VersionsOK, EntriesOK, [Next]_vars
    PROVE  EntriesOK'
<1>. SUFFICES ASSUME NEW r \in Requests, NEW e \in Held(r)'
              PROVE  Known(e)'
  BY DEF EntriesOK
<1>1. e \in Held(r) \cup Listed(Pending)
  BY HeldStep
<1>2. e.path \in Paths /\ Known(e)
  <2>1. CASE e \in Held(r)
    BY <2>1 DEF EntriesOK, Held, SlotsOK, Entry
  <2>2. CASE e \in Listed(Pending)
    BY <2>2 DEF Listed, Pending, Known, VersionsOK
  <2>. QED  BY <1>1, <2>1, <2>2
<1>3. last[e.path] \in Nat /\ e.seen \in Nat
  BY <1>2 DEF Known, TablesOK
<1>4. Grown(e.path)
  BY <1>2, GrowStep
<1>. QED  BY <1>2, <1>3, <1>4 DEF Known, Grown

\* A scan holds at most one entry per path, and each of them once.
LEMMA DistinctStep ==
    ASSUME SlotsOK, BaseInv, OneScan, Distinct, [Next]_vars
    PROVE  Distinct'
<1>. USE DEF Distinct, Held, SlotsOK, Goto, Proceed, Settle, Leave, inbox, db, fs, locals
<1>1. ASSUME NEW r \in Requests, ScanStart(r)
      PROVE  Distinct'
  BY <1>1 DEF ScanStart
<1>2. ASSUME NEW r \in Requests, NEW p \in Paths, Discover(r, p)
      PROVE  Distinct'
  BY <1>2 DEF Discover
<1>3. ASSUME NEW r \in Requests, NEW p \in Paths, WalkFails(r, p)
      PROVE  Distinct'
  BY <1>3, EntryReal DEF WalkFails
<1>4. ASSUME NEW r \in Requests, ListPending(r)
      PROVE  Distinct'
  <2>1. entry[r] = NoEntry /\ todo[r] = {}
    BY <1>4 DEF ListPending, OneScan, Importing, Checked
  <2>2. \A d, e \in Listed(Pending) : d.path = e.path => d = e
    BY ListedOnce
  <2>3. NoEntry \notin Listed(Pending)
    BY ListedEntry
  <2>. QED  BY <1>4, <2>1, <2>2, <2>3 DEF ListPending
<1>5. ASSUME NEW r \in Requests, Pick(r)
      PROVE  Distinct'
  BY <1>5, EntryReal DEF Pick, Importing, Checked
<1>6. ASSUME NEW r \in Requests, Done(r)
      PROVE  Distinct'
  BY <1>6, EntryReal DEF Done
<1>7. ASSUME NEW r \in Requests, Look(r)
      PROVE  Distinct'
  BY <1>7 DEF Look
<1>8. ASSUME NEW r \in Requests, Clean(r)
      PROVE  Distinct'
  BY <1>8 DEF Clean
<1>9. ASSUME NEW r \in Requests, MarkImported(r)
      PROVE  Distinct'
  BY <1>9, EntryReal DEF MarkImported
<1>10. ASSUME NEW r \in Requests, Stage(r)
      PROVE  Distinct'
  BY <1>10 DEF Stage
<1>11. ASSUME NEW r \in Requests, Copy(r)
      PROVE  Distinct'
  BY <1>11 DEF Copy
<1>12. ASSUME NEW r \in Requests, Check(r)
      PROVE  Distinct'
  BY <1>12 DEF Check
<1>13. ASSUME NEW r \in Requests, Reset(r)
      PROVE  Distinct'
  BY <1>13, EntryReal DEF Reset
<1>14. ASSUME NEW r \in Requests, MarkStable(r)
      PROVE  Distinct'
  BY <1>14 DEF MarkStable
<1>15. ASSUME NEW r \in Requests, Checksum(r)
      PROVE  Distinct'
  BY <1>15 DEF Checksum
<1>16. ASSUME NEW r \in Requests, MarkImporting(r)
      PROVE  Distinct'
  BY <1>16 DEF MarkImporting
<1>17. ASSUME NEW r \in Requests, Move(r)
      PROVE  Distinct'
  BY <1>17 DEF Move
<1>18. ASSUME NEW r \in Requests, Commit(r)
      PROVE  Distinct'
  BY <1>18 DEF Commit
<1>19. ASSUME NEW r \in Requests, CommitNothing(r)
      PROVE  Distinct'
  BY <1>19 DEF CommitNothing
<1>20. ASSUME NEW r \in Requests, Undo(r)
      PROVE  Distinct'
  BY <1>20 DEF Undo
<1>21. ASSUME NEW r \in Requests, Unlink(r)
      PROVE  Distinct'
  BY <1>21, EntryReal DEF Unlink
<1>22. ASSUME NEW r \in Requests, Fail(r)
      PROVE  Distinct'
  BY <1>22, EntryReal DEF Fail
<1>23. ASSUME NEW r \in Requests, StepFails(r)
      PROVE  Distinct'
  BY <1>23, EntryReal DEF StepFails
<1>24. ASSUME NEW r \in Requests, Drop(r)
      PROVE  Distinct'
  BY <1>24, EntryReal DEF Drop
<1>25. ASSUME NEW r \in Requests, Recover(r)
      PROVE  Distinct'
  <2>1. entry[r] = NoEntry /\ todo[r] = {}
    BY <1>25 DEF Recover, OneScan, BaseInv, Importing, Checked
  <2>2. \A d, e \in Listed({"importing"}) : d.path = e.path => d = e
    BY ListedOnce
  <2>3. NoEntry \notin Listed({"importing"})
    BY ListedEntry
  <2>. QED  BY <1>25, <2>1, <2>2, <2>3 DEF Recover
<1>26. ASSUME Crash
      PROVE  Distinct'
  BY <1>26, EntryReal DEF Crash
<1>27. ASSUME RecoverFails
      PROVE  Distinct'
  BY <1>27 DEF RecoverFails
<1>28. ASSUME NEW p \in Paths, Write(p)
      PROVE  Distinct'
  BY <1>28 DEF Write
<1>29. ASSUME NEW p \in Paths, Remove(p)
      PROVE  Distinct'
  BY <1>29 DEF Remove
<1>30. ASSUME NEW b \in BOOLEAN, SetEnabled(b)
      PROVE  Distinct'
  BY <1>30 DEF SetEnabled
<1>31. ASSUME NEW p \in Paths, Retry(p)
      PROVE  Distinct'
  BY <1>31 DEF Retry
<1>32. ASSUME NEW p \in Paths, OtherNodeTakesName(p)
      PROVE  Distinct'
  BY <1>32 DEF OtherNodeTakesName
<1>33. ASSUME NEW p \in Paths, OtherNodeFreesName(p)
      PROVE  Distinct'
  BY <1>33 DEF OtherNodeFreesName
<1>34. ASSUME NEW n \in Nodes, NodeLeaves(n)
      PROVE  Distinct'
  BY <1>34 DEF NodeLeaves
<1>35. ASSUME NEW n \in Nodes, Purge(n)
      PROVE  Distinct'
  BY <1>35 DEF Purge
<1>36. CASE UNCHANGED vars
  BY <1>36 DEF vars
<1>. HIDE DEF Distinct, Held, SlotsOK, Goto, Proceed, Settle, Leave, inbox, db, fs, locals
<1>37. ASSUME NEW r \in Requests, Progress(r)
      PROVE  Distinct'
  BY <1>2, <1>3, <1>4, <1>5, <1>6, <1>7, <1>8, <1>9, <1>10, <1>11, <1>12,
    <1>13, <1>14, <1>15, <1>16, <1>17, <1>18, <1>19, <1>20, <1>21, <1>22,
    <1>37
  DEF Progress
<1>. QED
  BY <1>1, <1>23, <1>24, <1>25, <1>26, <1>27, <1>28, <1>29, <1>30, <1>31,
    <1>32, <1>33, <1>34, <1>35, <1>36, <1>37, ConstantsOK
  DEF Next, Owner, Others

\* The newest file of a node's path stays stored until a scan moves another
\* copy to its key or deletes it.
Replacing(p) == \E r \in Requests : P(r) = p /\ pc[r] \in {"move", "undo"}

Kept(m, q) ==
    nodes[m].path = q /\ Stored(q) /\ ~Replacing(q)
        => nodes'[m].path = q /\ Stored(q)'

LEMMA KeepStored ==
    ASSUME Orderly, TablesOK, SlotsOK, BaseInv, [Next]_vars
    PROVE  \A m \in Nodes, q \in Paths : Kept(m, q)
<1>. USE DEF Kept, Stored, Replacing, TablesOK, inbox, db, fs, Proceed
<1>1. ASSUME NEW r \in Requests, ScanStart(r)
      PROVE  \A m \in Nodes, q \in Paths : Kept(m, q)
  BY <1>1 DEF ScanStart
<1>2. ASSUME NEW r \in Requests, NEW p \in Paths, Discover(r, p)
      PROVE  \A m \in Nodes, q \in Paths : Kept(m, q)
  BY <1>2 DEF Discover
<1>3. ASSUME NEW r \in Requests, NEW p \in Paths, WalkFails(r, p)
      PROVE  \A m \in Nodes, q \in Paths : Kept(m, q)
  BY <1>3 DEF WalkFails
<1>4. ASSUME NEW r \in Requests, ListPending(r)
      PROVE  \A m \in Nodes, q \in Paths : Kept(m, q)
  BY <1>4 DEF ListPending
<1>5. ASSUME NEW r \in Requests, Pick(r)
      PROVE  \A m \in Nodes, q \in Paths : Kept(m, q)
  BY <1>5 DEF Pick
<1>6. ASSUME NEW r \in Requests, Done(r)
      PROVE  \A m \in Nodes, q \in Paths : Kept(m, q)
  BY <1>6 DEF Done
<1>7. ASSUME NEW r \in Requests, Look(r)
      PROVE  \A m \in Nodes, q \in Paths : Kept(m, q)
  BY <1>7 DEF Look
<1>8. ASSUME NEW r \in Requests, Clean(r)
      PROVE  \A m \in Nodes, q \in Paths : Kept(m, q)
  BY <1>8 DEF Clean
<1>9. ASSUME NEW r \in Requests, MarkImported(r)
      PROVE  \A m \in Nodes, q \in Paths : Kept(m, q)
  BY <1>9 DEF MarkImported
<1>10. ASSUME NEW r \in Requests, Stage(r)
      PROVE  \A m \in Nodes, q \in Paths : Kept(m, q)
  BY <1>10 DEF Stage
<1>11. ASSUME NEW r \in Requests, Copy(r)
      PROVE  \A m \in Nodes, q \in Paths : Kept(m, q)
  BY <1>11 DEF Copy
<1>12. ASSUME NEW r \in Requests, Check(r)
      PROVE  \A m \in Nodes, q \in Paths : Kept(m, q)
  BY <1>12 DEF Check
<1>13. ASSUME NEW r \in Requests, Reset(r)
      PROVE  \A m \in Nodes, q \in Paths : Kept(m, q)
  BY <1>13 DEF Reset
<1>14. ASSUME NEW r \in Requests, MarkStable(r)
      PROVE  \A m \in Nodes, q \in Paths : Kept(m, q)
  BY <1>14 DEF MarkStable
<1>15. ASSUME NEW r \in Requests, Checksum(r)
      PROVE  \A m \in Nodes, q \in Paths : Kept(m, q)
  BY <1>15 DEF Checksum
<1>16. ASSUME NEW r \in Requests, MarkImporting(r)
      PROVE  \A m \in Nodes, q \in Paths : Kept(m, q)
  BY <1>16 DEF MarkImporting
<1>17. ASSUME NEW r \in Requests, Move(r)
      PROVE  \A m \in Nodes, q \in Paths : Kept(m, q)
  BY <1>17 DEF Move
<1>18. ASSUME NEW r \in Requests, Commit(r)
      PROVE  \A m \in Nodes, q \in Paths : Kept(m, q)
  <2>. DEFINE n == CHOOSE m \in Nodes : Fresh(m)
  <2>1. n \in Nodes /\ Fresh(n)
    BY <1>18 DEF Commit
  <2>. HIDE DEF n
  <2>. QED  BY <1>18, <2>1, ConstantsOK DEF Commit, n, Fresh, BaseInv
<1>19. ASSUME NEW r \in Requests, CommitNothing(r)
      PROVE  \A m \in Nodes, q \in Paths : Kept(m, q)
  BY <1>19 DEF CommitNothing
<1>20. ASSUME NEW r \in Requests, Undo(r)
      PROVE  \A m \in Nodes, q \in Paths : Kept(m, q)
  BY <1>20 DEF Undo
<1>21. ASSUME NEW r \in Requests, Unlink(r)
      PROVE  \A m \in Nodes, q \in Paths : Kept(m, q)
  BY <1>21 DEF Unlink
<1>22. ASSUME NEW r \in Requests, Fail(r)
      PROVE  \A m \in Nodes, q \in Paths : Kept(m, q)
  BY <1>22 DEF Fail
<1>23. ASSUME NEW r \in Requests, StepFails(r)
      PROVE  \A m \in Nodes, q \in Paths : Kept(m, q)
  BY <1>23 DEF StepFails
<1>24. ASSUME NEW r \in Requests, Drop(r)
      PROVE  \A m \in Nodes, q \in Paths : Kept(m, q)
  BY <1>24 DEF Drop
<1>25. ASSUME NEW r \in Requests, Recover(r)
      PROVE  \A m \in Nodes, q \in Paths : Kept(m, q)
  BY <1>25 DEF Recover
<1>26. ASSUME Crash
      PROVE  \A m \in Nodes, q \in Paths : Kept(m, q)
  BY <1>26 DEF Crash
<1>27. ASSUME RecoverFails
      PROVE  \A m \in Nodes, q \in Paths : Kept(m, q)
  BY <1>27 DEF RecoverFails
<1>28. ASSUME NEW p \in Paths, Write(p)
      PROVE  \A m \in Nodes, q \in Paths : Kept(m, q)
  BY <1>28 DEF Write, Touchable, Orderly
<1>29. ASSUME NEW p \in Paths, Remove(p)
      PROVE  \A m \in Nodes, q \in Paths : Kept(m, q)
  BY <1>29 DEF Remove
<1>30. ASSUME NEW b \in BOOLEAN, SetEnabled(b)
      PROVE  \A m \in Nodes, q \in Paths : Kept(m, q)
  BY <1>30 DEF SetEnabled
<1>31. ASSUME NEW p \in Paths, Retry(p)
      PROVE  \A m \in Nodes, q \in Paths : Kept(m, q)
  BY <1>31 DEF Retry
<1>32. ASSUME NEW p \in Paths, OtherNodeTakesName(p)
      PROVE  \A m \in Nodes, q \in Paths : Kept(m, q)
  BY <1>32 DEF OtherNodeTakesName
<1>33. ASSUME NEW p \in Paths, OtherNodeFreesName(p)
      PROVE  \A m \in Nodes, q \in Paths : Kept(m, q)
  BY <1>33 DEF OtherNodeFreesName
<1>34. ASSUME NEW n \in Nodes, NodeLeaves(n)
      PROVE  \A m \in Nodes, q \in Paths : Kept(m, q)
  BY <1>34 DEF NodeLeaves
<1>35. ASSUME NEW n \in Nodes, Purge(n)
      PROVE  \A m \in Nodes, q \in Paths : Kept(m, q)
  BY <1>35 DEF Purge, TablesOK, SlotsOK, Node
<1>36. CASE UNCHANGED vars
  BY <1>36 DEF vars
<1>. HIDE DEF Kept, Stored, Replacing, TablesOK, inbox, db, fs, Proceed
<1>37. ASSUME NEW r \in Requests, Progress(r)
      PROVE  \A m \in Nodes, q \in Paths : Kept(m, q)
  BY <1>2, <1>3, <1>4, <1>5, <1>6, <1>7, <1>8, <1>9, <1>10, <1>11, <1>12,
    <1>13, <1>14, <1>15, <1>16, <1>17, <1>18, <1>19, <1>20, <1>21, <1>22,
    <1>37
  DEF Progress
<1>. QED
  BY <1>1, <1>23, <1>24, <1>25, <1>26, <1>27, <1>28, <1>29, <1>30, <1>31,
    <1>32, <1>33, <1>34, <1>35, <1>36, <1>37, ConstantsOK
  DEF Next, Owner, Others

\* An entry comes by a node only when a scan commits it or marks it imported.
Gets(r, q) ==
    /\ P(r) = q /\ UNCHANGED <<originals, last, disposed>>
    /\ pc'[r] \in {"unlink", "pick"}
    /\ \/ pc[r] = "mark" /\ row'[q].node = entry[r].node /\ UNCHANGED nodes
       \/ pc[r] = "commit" /\ nodes'[row'[q].node].path = q
Comes(q) == row'[q].node \in {row[q].node, None} \/ \E r \in Requests : Gets(r, q)

LEMMA NodeComes ==
    ASSUME TablesOK, SlotsOK, BaseInv, [Next]_vars
    PROVE  \A q \in Paths : Comes(q)
<1>. USE DEF Comes, Gets, TablesOK, inbox, db, fs
<1>1. ASSUME NEW r \in Requests, ScanStart(r)
      PROVE  \A q \in Paths : Comes(q)
  BY <1>1 DEF ScanStart
<1>2. ASSUME NEW r \in Requests, NEW p \in Paths, Discover(r, p)
      PROVE  \A q \in Paths : Comes(q)
  BY <1>2, UpsertedRow DEF Discover, Upserted
<1>3. ASSUME NEW r \in Requests, NEW p \in Paths, WalkFails(r, p)
      PROVE  \A q \in Paths : Comes(q)
  BY <1>3 DEF WalkFails
<1>4. ASSUME NEW r \in Requests, ListPending(r)
      PROVE  \A q \in Paths : Comes(q)
  BY <1>4 DEF ListPending
<1>5. ASSUME NEW r \in Requests, Pick(r)
      PROVE  \A q \in Paths : Comes(q)
  BY <1>5 DEF Pick
<1>6. ASSUME NEW r \in Requests, Done(r)
      PROVE  \A q \in Paths : Comes(q)
  BY <1>6 DEF Done
<1>7. ASSUME NEW r \in Requests, Look(r)
      PROVE  \A q \in Paths : Comes(q)
  BY <1>7 DEF Look, Proceed
<1>8. ASSUME NEW r \in Requests, Clean(r)
      PROVE  \A q \in Paths : Comes(q)
  BY <1>8 DEF Clean
<1>9. ASSUME NEW r \in Requests, MarkImported(r)
      PROVE  \A q \in Paths : Comes(q)
  <2>1. entry[r].node \in Nodes /\ P(r) \in Paths
    BY <1>9, Busy DEF MarkImported, BaseInv, Importing
  <2>. QED  BY <1>9, <2>1, ImportedChange DEF MarkImported, Settle, Goto, SlotsOK
<1>10. ASSUME NEW r \in Requests, Stage(r)
      PROVE  \A q \in Paths : Comes(q)
  BY <1>10 DEF Stage, Proceed
<1>11. ASSUME NEW r \in Requests, Copy(r)
      PROVE  \A q \in Paths : Comes(q)
  BY <1>11 DEF Copy, Proceed
<1>12. ASSUME NEW r \in Requests, Check(r)
      PROVE  \A q \in Paths : Comes(q)
  BY <1>12 DEF Check, Proceed
<1>13. ASSUME NEW r \in Requests, Reset(r)
      PROVE  \A q \in Paths : Comes(q)
  BY <1>13, Busy, StateChange DEF Reset, States, Importing, Checked
<1>14. ASSUME NEW r \in Requests, MarkStable(r)
      PROVE  \A q \in Paths : Comes(q)
  BY <1>14, Busy, StateChange DEF MarkStable, States, Importing, Checked
<1>15. ASSUME NEW r \in Requests, Checksum(r)
      PROVE  \A q \in Paths : Comes(q)
  BY <1>15 DEF Checksum
<1>16. ASSUME NEW r \in Requests, MarkImporting(r)
      PROVE  \A q \in Paths : Comes(q)
  BY <1>16, Busy, StateChange DEF MarkImporting, States, Importing, Checked
<1>17. ASSUME NEW r \in Requests, Move(r)
      PROVE  \A q \in Paths : Comes(q)
  BY <1>17 DEF Move, Proceed
<1>18. ASSUME NEW r \in Requests, Commit(r)
      PROVE  \A q \in Paths : Comes(q)
  <2>. DEFINE n == CHOOSE m \in Nodes : Fresh(m)
  <2>1. n \in Nodes
    BY <1>18 DEF Commit
  <2>2. P(r) \in Paths
    BY <1>18, Busy DEF Commit, Importing, Checked
  <2>3. /\ row' = [row EXCEPT ![P(r)].state = "imported", ![P(r)].node = n]
        /\ nodes'[n].path = P(r)
        /\ pc[r] = "commit" /\ pc'[r] = "unlink"
        /\ UNCHANGED <<originals, last, disposed>>
    BY <1>18, <2>1 DEF Commit, Goto, SlotsOK
  <2>. HIDE <1>18 DEF n
  <2>4. /\ row \in [Paths -> Row]
        /\ row' = [row EXCEPT ![P(r)].state = "imported", ![P(r)].node = n]
    BY <2>3
  <2>5. row'[P(r)].node = n
    BY ONLY <2>2, <2>4 DEF Row
  <2>6. \A q \in Paths \ {P(r)} : row'[q].node = row[q].node
    BY ONLY <2>4
  <2>. QED  BY <2>3, <2>5, <2>6
<1>19. ASSUME NEW r \in Requests, CommitNothing(r)
      PROVE  \A q \in Paths : Comes(q)
  BY <1>19 DEF CommitNothing, Proceed
<1>20. ASSUME NEW r \in Requests, Undo(r)
      PROVE  \A q \in Paths : Comes(q)
  BY <1>20 DEF Undo, Proceed
<1>21. ASSUME NEW r \in Requests, Unlink(r)
      PROVE  \A q \in Paths : Comes(q)
  BY <1>21 DEF Unlink
<1>22. ASSUME NEW r \in Requests, Fail(r)
      PROVE  \A q \in Paths : Comes(q)
  BY <1>22, Busy, StateChange DEF Fail, States, Importing, Checked
<1>23. ASSUME NEW r \in Requests, StepFails(r)
      PROVE  \A q \in Paths : Comes(q)
  BY <1>23 DEF StepFails
<1>24. ASSUME NEW r \in Requests, Drop(r)
      PROVE  \A q \in Paths : Comes(q)
  BY <1>24 DEF Drop
<1>25. ASSUME NEW r \in Requests, Recover(r)
      PROVE  \A q \in Paths : Comes(q)
  BY <1>25 DEF Recover
<1>26. ASSUME Crash
      PROVE  \A q \in Paths : Comes(q)
  BY <1>26 DEF Crash
<1>27. ASSUME RecoverFails
      PROVE  \A q \in Paths : Comes(q)
  BY <1>27 DEF RecoverFails
<1>28. ASSUME NEW p \in Paths, Write(p)
      PROVE  \A q \in Paths : Comes(q)
  BY <1>28 DEF Write
<1>29. ASSUME NEW p \in Paths, Remove(p)
      PROVE  \A q \in Paths : Comes(q)
  BY <1>29 DEF Remove
<1>30. ASSUME NEW b \in BOOLEAN, SetEnabled(b)
      PROVE  \A q \in Paths : Comes(q)
  BY <1>30 DEF SetEnabled
<1>31. ASSUME NEW p \in Paths, Retry(p)
      PROVE  \A q \in Paths : Comes(q)
  BY <1>31, StateChange DEF Retry, States
<1>32. ASSUME NEW p \in Paths, OtherNodeTakesName(p)
      PROVE  \A q \in Paths : Comes(q)
  BY <1>32 DEF OtherNodeTakesName
<1>33. ASSUME NEW p \in Paths, OtherNodeFreesName(p)
      PROVE  \A q \in Paths : Comes(q)
  BY <1>33 DEF OtherNodeFreesName
<1>34. ASSUME NEW n \in Nodes, NodeLeaves(n)
      PROVE  \A q \in Paths : Comes(q)
  BY <1>34 DEF NodeLeaves
<1>35. ASSUME NEW n \in Nodes, Purge(n)
      PROVE  \A q \in Paths : Comes(q)
  BY <1>35 DEF Purge
<1>36. CASE UNCHANGED vars
  BY <1>36 DEF vars
<1>. HIDE DEF Comes, Gets, TablesOK, inbox, db, fs
<1>37. ASSUME NEW r \in Requests, Progress(r)
      PROVE  \A q \in Paths : Comes(q)
  BY <1>2, <1>3, <1>4, <1>5, <1>6, <1>7, <1>8, <1>9, <1>10, <1>11, <1>12,
    <1>13, <1>14, <1>15, <1>16, <1>17, <1>18, <1>19, <1>20, <1>21, <1>22,
    <1>37
  DEF Progress
<1>. QED
  BY <1>1, <1>23, <1>24, <1>25, <1>26, <1>27, <1>28, <1>29, <1>30, <1>31,
    <1>32, <1>33, <1>34, <1>35, <1>36, <1>37, ConstantsOK
  DEF Next, Owner, Others

\* Whoever holds an entry runs, and is the only one who does.
LEMMA OneHolder ==
    ASSUME SlotsOK, OneScan, Distinct, NEW r \in Requests, NEW e \in Held(r),
           NEW q \in Requests, pc[q] \in Importing, P(q) = e.path
    PROVE  q = r /\ e = entry[r]
<1>1. pc[r] # "idle" /\ pc[q] # "idle"
  BY DEF OneScan, Held, SlotsOK, Importing, Checked
<1>2. q = r
  BY <1>1 DEF OneScan
<1>. QED  BY <1>2, BusyHeld DEF Distinct

\* The nodes that rows know are those of their newest files ...
LEMMA RowsRemembered ==
    ASSUME Orderly, TablesOK, SlotsOK, BaseInv, Remembered, Carried, [Next]_vars
    PROVE  \A p \in Paths : Remembers(p, row[p].node)'
<1>. SUFFICES ASSUME NEW p \in Paths, row'[p].node # None
              PROVE  nodes'[row'[p].node].path = p /\ Stored(p)'
  BY DEF Remembers
<1>1. CASE row'[p].node = row[p].node
  <2>1. row[p].node \in Nodes
    BY <1>1 DEF TablesOK, Row
  <2>2. nodes[row[p].node].path = p /\ Stored(p)
    BY <1>1 DEF Remembered, Remembers
  <2>3. ~Replacing(p)
    BY <1>1 DEF Replacing, Remembered, Untried, Checked
  <2>. QED  BY <1>1, <2>1, <2>2, <2>3, KeepStored DEF Kept
<1>2. ASSUME NEW r \in Requests, Gets(r, p)
      PROVE  nodes'[row'[p].node].path = p /\ Stored(p)'
  <2>1. pc[r] \in Importing
    BY <1>2 DEF Gets, Importing, Checked
  <2>2. CASE pc[r] = "mark"
    <3>1. Remembers(p, entry[r].node)
      BY <1>2, <2>1, BusyHeld DEF Gets, Remembered
    <3>. QED  BY <1>2, <2>2, <3>1 DEF Gets, Remembers, Stored
  <2>3. CASE pc[r] = "commit"
    BY <1>2, <2>3 DEF Gets, Carried, CarriedBy, Stored
  <2>. QED  BY <1>2, <2>2, <2>3 DEF Gets
<1>. QED  BY <1>1, <1>2, NodeComes DEF Comes

\* ... and so are those that the entries of a scan know.
LEMMA HeldRemembered ==
    ASSUME Orderly, TablesOK, SlotsOK, BaseInv, OneScan, Distinct, Remembered,
           [Next]_vars
    PROVE  \A r \in Requests : \A e \in Held(r)' : Remembers(e.path, e.node)'
<1>. SUFFICES ASSUME NEW r \in Requests, NEW e \in Held(r)', e.node # None
              PROVE  nodes'[e.node].path = e.path /\ Stored(e.path)'
  BY DEF Remembers
<1>1. e \in Held(r) \cup Listed(Pending)
  BY HeldStep
<1>2. CASE e \in Held(r)
  <2>1. e.path \in Paths /\ e.node \in Nodes
    BY <1>2 DEF Held, SlotsOK, Entry
  <2>2. nodes[e.node].path = e.path /\ Stored(e.path)
    BY <1>2 DEF Remembered, Remembers
  <2>3. ~Replacing(e.path)
    <3>. SUFFICES ASSUME NEW q \in Requests, P(q) = e.path, pc[q] \in {"move", "undo"}
                  PROVE  FALSE
      BY DEF Replacing
    <3>1. e = entry[q]
      BY <1>2, OneHolder DEF Importing, Checked
    <3>. QED  BY <3>1 DEF Remembered, Untried, Checked
  <2>. QED  BY <2>1, <2>2, <2>3, KeepStored DEF Kept
<1>3. CASE e \in Listed(Pending)
  <2>1. e.path \in Paths /\ e.node = row[e.path].node
    BY <1>3, ListedEntry
  <2>2. e.node \in Nodes
    BY <2>1 DEF TablesOK, Row
  <2>3. nodes[e.node].path = e.path /\ Stored(e.path)
    BY <2>1 DEF Remembered, Remembers
  <2>4. ~Replacing(e.path)
    BY <2>1 DEF Replacing, Remembered, Untried, Checked
  <2>. QED  BY <2>1, <2>2, <2>3, <2>4, KeepStored DEF Kept
<1>. QED  BY <1>1, <1>2, <1>3

\* What is still to be taken up was in a scan's list, or is listed now.
Left(q) ==
    \/ todo'[q] \subseteq todo[q]
    \/ todo'[q] \subseteq Listed(Pending) /\ UNCHANGED row

LEMMA TodoStep ==
    ASSUME SlotsOK, BaseInv, OneScan, [Next]_vars
    PROVE  \A q \in Requests : Left(q)
<1>. USE DEF Left, SlotsOK, Goto, Proceed, Settle, Leave, inbox, db, fs, locals
<1>1. ASSUME NEW r \in Requests, ScanStart(r)
      PROVE  \A q \in Requests : Left(q)
  BY <1>1 DEF ScanStart
<1>2. ASSUME NEW r \in Requests, NEW p \in Paths, Discover(r, p)
      PROVE  \A q \in Requests : Left(q)
  BY <1>2 DEF Discover
<1>3. ASSUME NEW r \in Requests, NEW p \in Paths, WalkFails(r, p)
      PROVE  \A q \in Requests : Left(q)
  BY <1>3 DEF WalkFails
<1>4. ASSUME NEW r \in Requests, ListPending(r)
      PROVE  \A q \in Requests : Left(q)
  BY <1>4 DEF ListPending, OneScan
<1>5. ASSUME NEW r \in Requests, Pick(r)
      PROVE  \A q \in Requests : Left(q)
  BY <1>5 DEF Pick
<1>6. ASSUME NEW r \in Requests, Done(r)
      PROVE  \A q \in Requests : Left(q)
  BY <1>6 DEF Done
<1>7. ASSUME NEW r \in Requests, Look(r)
      PROVE  \A q \in Requests : Left(q)
  BY <1>7 DEF Look
<1>8. ASSUME NEW r \in Requests, Clean(r)
      PROVE  \A q \in Requests : Left(q)
  BY <1>8 DEF Clean
<1>9. ASSUME NEW r \in Requests, MarkImported(r)
      PROVE  \A q \in Requests : Left(q)
  BY <1>9 DEF MarkImported
<1>10. ASSUME NEW r \in Requests, Stage(r)
      PROVE  \A q \in Requests : Left(q)
  BY <1>10 DEF Stage
<1>11. ASSUME NEW r \in Requests, Copy(r)
      PROVE  \A q \in Requests : Left(q)
  BY <1>11 DEF Copy
<1>12. ASSUME NEW r \in Requests, Check(r)
      PROVE  \A q \in Requests : Left(q)
  BY <1>12 DEF Check
<1>13. ASSUME NEW r \in Requests, Reset(r)
      PROVE  \A q \in Requests : Left(q)
  BY <1>13 DEF Reset
<1>14. ASSUME NEW r \in Requests, MarkStable(r)
      PROVE  \A q \in Requests : Left(q)
  BY <1>14 DEF MarkStable
<1>15. ASSUME NEW r \in Requests, Checksum(r)
      PROVE  \A q \in Requests : Left(q)
  BY <1>15 DEF Checksum
<1>16. ASSUME NEW r \in Requests, MarkImporting(r)
      PROVE  \A q \in Requests : Left(q)
  BY <1>16 DEF MarkImporting
<1>17. ASSUME NEW r \in Requests, Move(r)
      PROVE  \A q \in Requests : Left(q)
  BY <1>17 DEF Move
<1>18. ASSUME NEW r \in Requests, Commit(r)
      PROVE  \A q \in Requests : Left(q)
  BY <1>18 DEF Commit
<1>19. ASSUME NEW r \in Requests, CommitNothing(r)
      PROVE  \A q \in Requests : Left(q)
  BY <1>19 DEF CommitNothing
<1>20. ASSUME NEW r \in Requests, Undo(r)
      PROVE  \A q \in Requests : Left(q)
  BY <1>20 DEF Undo
<1>21. ASSUME NEW r \in Requests, Unlink(r)
      PROVE  \A q \in Requests : Left(q)
  BY <1>21 DEF Unlink
<1>22. ASSUME NEW r \in Requests, Fail(r)
      PROVE  \A q \in Requests : Left(q)
  BY <1>22 DEF Fail
<1>23. ASSUME NEW r \in Requests, StepFails(r)
      PROVE  \A q \in Requests : Left(q)
  BY <1>23 DEF StepFails
<1>24. ASSUME NEW r \in Requests, Drop(r)
      PROVE  \A q \in Requests : Left(q)
  BY <1>24 DEF Drop
<1>25. ASSUME NEW r \in Requests, Recover(r)
      PROVE  \A q \in Requests : Left(q)
  BY <1>25, InterruptedPending DEF Recover, OneScan, BaseInv
<1>26. ASSUME Crash
      PROVE  \A q \in Requests : Left(q)
  BY <1>26 DEF Crash
<1>27. ASSUME RecoverFails
      PROVE  \A q \in Requests : Left(q)
  BY <1>27 DEF RecoverFails
<1>28. ASSUME NEW p \in Paths, Write(p)
      PROVE  \A q \in Requests : Left(q)
  BY <1>28 DEF Write
<1>29. ASSUME NEW p \in Paths, Remove(p)
      PROVE  \A q \in Requests : Left(q)
  BY <1>29 DEF Remove
<1>30. ASSUME NEW b \in BOOLEAN, SetEnabled(b)
      PROVE  \A q \in Requests : Left(q)
  BY <1>30 DEF SetEnabled
<1>31. ASSUME NEW p \in Paths, Retry(p)
      PROVE  \A q \in Requests : Left(q)
  BY <1>31 DEF Retry
<1>32. ASSUME NEW p \in Paths, OtherNodeTakesName(p)
      PROVE  \A q \in Requests : Left(q)
  BY <1>32 DEF OtherNodeTakesName
<1>33. ASSUME NEW p \in Paths, OtherNodeFreesName(p)
      PROVE  \A q \in Requests : Left(q)
  BY <1>33 DEF OtherNodeFreesName
<1>34. ASSUME NEW n \in Nodes, NodeLeaves(n)
      PROVE  \A q \in Requests : Left(q)
  BY <1>34 DEF NodeLeaves
<1>35. ASSUME NEW n \in Nodes, Purge(n)
      PROVE  \A q \in Requests : Left(q)
  BY <1>35 DEF Purge
<1>36. CASE UNCHANGED vars
  BY <1>36 DEF vars
<1>. HIDE DEF Left, SlotsOK, Goto, Proceed, Settle, Leave, inbox, db, fs, locals
<1>37. ASSUME NEW r \in Requests, Progress(r)
      PROVE  \A q \in Requests : Left(q)
  BY <1>2, <1>3, <1>4, <1>5, <1>6, <1>7, <1>8, <1>9, <1>10, <1>11, <1>12,
    <1>13, <1>14, <1>15, <1>16, <1>17, <1>18, <1>19, <1>20, <1>21, <1>22,
    <1>37
  DEF Progress
<1>. QED
  BY <1>1, <1>23, <1>24, <1>25, <1>26, <1>27, <1>28, <1>29, <1>30, <1>31,
    <1>32, <1>33, <1>34, <1>35, <1>36, <1>37, ConstantsOK
  DEF Next, Owner, Others

\* How a slot comes to the steps of an import: an entry is taken up, and what
\* is tried with it depends on whether it has a node.
Stays(q) == pc'[q] = pc[q] /\ entry'[q] = entry[q]
Advances(q) ==
    \/ pc'[q] \notin Untried \cup {"look", "unlink"}
    \/ /\ pc[q] = "pick" /\ pc'[q] = "look"
       /\ entry'[q] \in todo[q] /\ UNCHANGED row
    \/ /\ pc'[q] \in Untried /\ entry'[q] = entry[q]
       /\ \/ pc[q] \in Untried
          \/ pc[q] = "look" /\ entry[q].node = None
    \/ pc'[q] = "unlink" /\ entry'[q] = entry[q] /\ pc[q] = "commit"

LEMMA AdvanceStep ==
    ASSUME pc \in [Requests -> Steps],
           entry \in [Requests -> Entry \cup {NoEntry}], [Next]_vars
    PROVE  \A q \in Requests : Stays(q) \/ Advances(q)
<1>. USE DEF Stays, Goto, Proceed, Settle, Leave, inbox, db, fs, locals
<1>1. ASSUME NEW r \in Requests, ScanStart(r)
      PROVE  \A q \in Requests : Stays(q) \/ Advances(q)
  <2>1. Advances(r)
    BY <1>1 DEF ScanStart, Advances, Untried, Importing, Checked
  <2>2. \A q \in Requests \ {r} : Stays(q)
    BY <1>1 DEF ScanStart
  <2>. QED  BY <2>1, <2>2
<1>2. ASSUME NEW r \in Requests, NEW p \in Paths, Discover(r, p)
      PROVE  \A q \in Requests : Stays(q) \/ Advances(q)
  <2>1. Advances(r)
    BY <1>2 DEF Discover, Advances, Untried, Importing, Checked
  <2>2. \A q \in Requests \ {r} : Stays(q)
    BY <1>2 DEF Discover
  <2>. QED  BY <2>1, <2>2
<1>3. ASSUME NEW r \in Requests, NEW p \in Paths, WalkFails(r, p)
      PROVE  \A q \in Requests : Stays(q) \/ Advances(q)
  <2>1. Advances(r)
    BY <1>3 DEF WalkFails, Advances, Untried, Importing, Checked
  <2>2. \A q \in Requests \ {r} : Stays(q)
    BY <1>3 DEF WalkFails
  <2>. QED  BY <2>1, <2>2
<1>4. ASSUME NEW r \in Requests, ListPending(r)
      PROVE  \A q \in Requests : Stays(q) \/ Advances(q)
  <2>1. Advances(r)
    BY <1>4 DEF ListPending, Advances, Untried, Importing, Checked
  <2>2. \A q \in Requests \ {r} : Stays(q)
    BY <1>4 DEF ListPending
  <2>. QED  BY <2>1, <2>2
<1>5. ASSUME NEW r \in Requests, Pick(r)
      PROVE  \A q \in Requests : Stays(q) \/ Advances(q)
  <2>1. Advances(r)
    BY <1>5 DEF Pick, Advances, Untried, Importing, Checked
  <2>2. \A q \in Requests \ {r} : Stays(q)
    BY <1>5 DEF Pick
  <2>. QED  BY <2>1, <2>2
<1>6. ASSUME NEW r \in Requests, Done(r)
      PROVE  \A q \in Requests : Stays(q) \/ Advances(q)
  <2>1. Advances(r)
    BY <1>6 DEF Done, Advances, Untried, Importing, Checked
  <2>2. \A q \in Requests \ {r} : Stays(q)
    BY <1>6 DEF Done
  <2>. QED  BY <2>1, <2>2
<1>7. ASSUME NEW r \in Requests, Look(r)
      PROVE  \A q \in Requests : Stays(q) \/ Advances(q)
  <2>1. Advances(r)
    BY <1>7 DEF Look, Advances, Untried, Importing, Checked
  <2>2. \A q \in Requests \ {r} : Stays(q)
    BY <1>7 DEF Look
  <2>. QED  BY <2>1, <2>2
<1>8. ASSUME NEW r \in Requests, Clean(r)
      PROVE  \A q \in Requests : Stays(q) \/ Advances(q)
  <2>1. Advances(r)
    BY <1>8 DEF Clean, Advances, Untried, Importing, Checked
  <2>2. \A q \in Requests \ {r} : Stays(q)
    BY <1>8 DEF Clean
  <2>. QED  BY <2>1, <2>2
<1>9. ASSUME NEW r \in Requests, MarkImported(r)
      PROVE  \A q \in Requests : Stays(q) \/ Advances(q)
  <2>1. Advances(r)
    BY <1>9 DEF MarkImported, Advances, Untried, Importing, Checked
  <2>2. \A q \in Requests \ {r} : Stays(q)
    BY <1>9 DEF MarkImported
  <2>. QED  BY <2>1, <2>2
<1>10. ASSUME NEW r \in Requests, Stage(r)
      PROVE  \A q \in Requests : Stays(q) \/ Advances(q)
  <2>1. Advances(r)
    BY <1>10 DEF Stage, Advances, Untried, Importing, Checked
  <2>2. \A q \in Requests \ {r} : Stays(q)
    BY <1>10 DEF Stage
  <2>. QED  BY <2>1, <2>2
<1>11. ASSUME NEW r \in Requests, Copy(r)
      PROVE  \A q \in Requests : Stays(q) \/ Advances(q)
  <2>1. Advances(r)
    BY <1>11 DEF Copy, Advances, Untried, Importing, Checked
  <2>2. \A q \in Requests \ {r} : Stays(q)
    BY <1>11 DEF Copy
  <2>. QED  BY <2>1, <2>2
<1>12. ASSUME NEW r \in Requests, Check(r)
      PROVE  \A q \in Requests : Stays(q) \/ Advances(q)
  <2>1. Advances(r)
    BY <1>12 DEF Check, Advances, Untried, Importing, Checked
  <2>2. \A q \in Requests \ {r} : Stays(q)
    BY <1>12 DEF Check
  <2>. QED  BY <2>1, <2>2
<1>13. ASSUME NEW r \in Requests, Reset(r)
      PROVE  \A q \in Requests : Stays(q) \/ Advances(q)
  <2>1. Advances(r)
    BY <1>13 DEF Reset, Advances, Untried, Importing, Checked
  <2>2. \A q \in Requests \ {r} : Stays(q)
    BY <1>13 DEF Reset
  <2>. QED  BY <2>1, <2>2
<1>14. ASSUME NEW r \in Requests, MarkStable(r)
      PROVE  \A q \in Requests : Stays(q) \/ Advances(q)
  <2>1. Advances(r)
    BY <1>14 DEF MarkStable, Advances, Untried, Importing, Checked
  <2>2. \A q \in Requests \ {r} : Stays(q)
    BY <1>14 DEF MarkStable
  <2>. QED  BY <2>1, <2>2
<1>15. ASSUME NEW r \in Requests, Checksum(r)
      PROVE  \A q \in Requests : Stays(q) \/ Advances(q)
  <2>1. Advances(r)
    BY <1>15 DEF Checksum, Advances, Untried, Importing, Checked
  <2>2. \A q \in Requests \ {r} : Stays(q)
    BY <1>15 DEF Checksum
  <2>. QED  BY <2>1, <2>2
<1>16. ASSUME NEW r \in Requests, MarkImporting(r)
      PROVE  \A q \in Requests : Stays(q) \/ Advances(q)
  <2>1. Advances(r)
    BY <1>16 DEF MarkImporting, Advances, Untried, Importing, Checked
  <2>2. \A q \in Requests \ {r} : Stays(q)
    BY <1>16 DEF MarkImporting
  <2>. QED  BY <2>1, <2>2
<1>17. ASSUME NEW r \in Requests, Move(r)
      PROVE  \A q \in Requests : Stays(q) \/ Advances(q)
  <2>1. Advances(r)
    BY <1>17 DEF Move, Advances, Untried, Importing, Checked
  <2>2. \A q \in Requests \ {r} : Stays(q)
    BY <1>17 DEF Move
  <2>. QED  BY <2>1, <2>2
<1>18. ASSUME NEW r \in Requests, Commit(r)
      PROVE  \A q \in Requests : Stays(q) \/ Advances(q)
  <2>1. Advances(r)
    BY <1>18 DEF Commit, Advances, Untried, Importing, Checked
  <2>2. \A q \in Requests \ {r} : Stays(q)
    BY <1>18 DEF Commit
  <2>. QED  BY <2>1, <2>2
<1>19. ASSUME NEW r \in Requests, CommitNothing(r)
      PROVE  \A q \in Requests : Stays(q) \/ Advances(q)
  <2>1. Advances(r)
    BY <1>19 DEF CommitNothing, Advances, Untried, Importing, Checked
  <2>2. \A q \in Requests \ {r} : Stays(q)
    BY <1>19 DEF CommitNothing
  <2>. QED  BY <2>1, <2>2
<1>20. ASSUME NEW r \in Requests, Undo(r)
      PROVE  \A q \in Requests : Stays(q) \/ Advances(q)
  <2>1. Advances(r)
    BY <1>20 DEF Undo, Advances, Untried, Importing, Checked
  <2>2. \A q \in Requests \ {r} : Stays(q)
    BY <1>20 DEF Undo
  <2>. QED  BY <2>1, <2>2
<1>21. ASSUME NEW r \in Requests, Unlink(r)
      PROVE  \A q \in Requests : Stays(q) \/ Advances(q)
  <2>1. Advances(r)
    BY <1>21 DEF Unlink, Advances, Untried, Importing, Checked
  <2>2. \A q \in Requests \ {r} : Stays(q)
    BY <1>21 DEF Unlink
  <2>. QED  BY <2>1, <2>2
<1>22. ASSUME NEW r \in Requests, Fail(r)
      PROVE  \A q \in Requests : Stays(q) \/ Advances(q)
  <2>1. Advances(r)
    BY <1>22 DEF Fail, Advances, Untried, Importing, Checked
  <2>2. \A q \in Requests \ {r} : Stays(q)
    BY <1>22 DEF Fail
  <2>. QED  BY <2>1, <2>2
<1>23. ASSUME NEW r \in Requests, StepFails(r)
      PROVE  \A q \in Requests : Stays(q) \/ Advances(q)
  <2>1. Advances(r)
    BY <1>23 DEF StepFails, Advances, Untried, Importing, Checked
  <2>2. \A q \in Requests \ {r} : Stays(q)
    BY <1>23 DEF StepFails
  <2>. QED  BY <2>1, <2>2
<1>24. ASSUME NEW r \in Requests, Drop(r)
      PROVE  \A q \in Requests : Stays(q) \/ Advances(q)
  <2>1. Advances(r)
    BY <1>24 DEF Drop, Advances, Untried, Importing, Checked
  <2>2. \A q \in Requests \ {r} : Stays(q)
    BY <1>24 DEF Drop
  <2>. QED  BY <2>1, <2>2
<1>25. ASSUME NEW r \in Requests, Recover(r)
      PROVE  \A q \in Requests : Stays(q) \/ Advances(q)
  <2>1. Advances(r)
    BY <1>25 DEF Recover, Advances, Untried, Importing, Checked
  <2>2. \A q \in Requests \ {r} : Stays(q)
    BY <1>25 DEF Recover
  <2>. QED  BY <2>1, <2>2
<1>26. ASSUME Crash
      PROVE  \A q \in Requests : Stays(q) \/ Advances(q)
  BY <1>26 DEF Crash, Advances, Untried, Importing, Checked
<1>27. ASSUME RecoverFails
      PROVE  \A q \in Requests : Stays(q) \/ Advances(q)
  BY <1>27 DEF RecoverFails
<1>28. ASSUME NEW p \in Paths, Write(p)
      PROVE  \A q \in Requests : Stays(q) \/ Advances(q)
  BY <1>28 DEF Write
<1>29. ASSUME NEW p \in Paths, Remove(p)
      PROVE  \A q \in Requests : Stays(q) \/ Advances(q)
  BY <1>29 DEF Remove
<1>30. ASSUME NEW b \in BOOLEAN, SetEnabled(b)
      PROVE  \A q \in Requests : Stays(q) \/ Advances(q)
  BY <1>30 DEF SetEnabled
<1>31. ASSUME NEW p \in Paths, Retry(p)
      PROVE  \A q \in Requests : Stays(q) \/ Advances(q)
  BY <1>31 DEF Retry
<1>32. ASSUME NEW p \in Paths, OtherNodeTakesName(p)
      PROVE  \A q \in Requests : Stays(q) \/ Advances(q)
  BY <1>32 DEF OtherNodeTakesName
<1>33. ASSUME NEW p \in Paths, OtherNodeFreesName(p)
      PROVE  \A q \in Requests : Stays(q) \/ Advances(q)
  BY <1>33 DEF OtherNodeFreesName
<1>34. ASSUME NEW n \in Nodes, NodeLeaves(n)
      PROVE  \A q \in Requests : Stays(q) \/ Advances(q)
  BY <1>34 DEF NodeLeaves
<1>35. ASSUME NEW n \in Nodes, Purge(n)
      PROVE  \A q \in Requests : Stays(q) \/ Advances(q)
  BY <1>35 DEF Purge
<1>36. CASE UNCHANGED vars
  BY <1>36 DEF vars
<1>. HIDE DEF Stays, Goto, Proceed, Settle, Leave, inbox, db, fs, locals
<1>37. ASSUME NEW r \in Requests, Progress(r)
      PROVE  \A q \in Requests : Stays(q) \/ Advances(q)
  BY <1>2, <1>3, <1>4, <1>5, <1>6, <1>7, <1>8, <1>9, <1>10, <1>11, <1>12,
    <1>13, <1>14, <1>15, <1>16, <1>17, <1>18, <1>19, <1>20, <1>21, <1>22,
    <1>37
  DEF Progress
<1>. QED
  BY <1>1, <1>23, <1>24, <1>25, <1>26, <1>27, <1>28, <1>29, <1>30, <1>31,
    <1>32, <1>33, <1>34, <1>35, <1>36, <1>37, ConstantsOK
  DEF Next, Owner, Others

\* What it was before it is there.
Takes(q) ==
    /\ pc'[q] = "look" =>
        \/ pc[q] = "look" /\ entry'[q] = entry[q]
        \/ pc[q] = "pick" /\ entry'[q] \in todo[q] /\ UNCHANGED row
    /\ pc'[q] \in Untried \cup {"unlink"} => entry'[q] = entry[q]
    /\ pc'[q] \in Untried =>
        \/ pc[q] \in Untried
        \/ pc[q] = "look" /\ entry[q].node = None
    /\ pc'[q] = "unlink" => pc[q] \in {"unlink", "commit"}

LEMMA PhaseStep ==
    ASSUME SlotsOK, [Next]_vars
    PROVE  \A q \in Requests : Takes(q)
<1>1. \A q \in Requests : Stays(q) \/ Advances(q)
  BY AdvanceStep DEF SlotsOK
<1>2. "look" \notin Untried /\ "unlink" \notin Untried
  BY DEF Untried, Checked
<1>. QED  BY <1>1, <1>2 DEF Stays, Advances, Takes

\* The memories of rows and scans agree.
LEMMA RememberedStep ==
    ASSUME Orderly, TablesOK, SlotsOK, BaseInv, OneScan, Distinct, Remembered,
           Carried, SlotsOK', [Next]_vars
    PROVE  Remembered'
<1>1. \A p \in Paths : Remembers(p, row[p].node)'
  BY RowsRemembered
<1>2. \A r \in Requests : \A e \in Held(r)' : Remembers(e.path, e.node)'
  BY HeldRemembered
<1>3. \A r \in Requests : \A e \in todo'[r] :
        e.node = None => row'[e.path].node = None
  <2>. SUFFICES ASSUME NEW r \in Requests, NEW e \in todo'[r], e.node = None
                PROVE  row'[e.path].node = None
    OBVIOUS
  <2>1. CASE e \in todo[r]
    <3>1. row[e.path].node = None /\ e \in Held(r) /\ e.path \in Paths
      BY <2>1 DEF Remembered, Held, SlotsOK, Entry
    <3>2. ASSUME NEW q \in Requests, Gets(q, e.path)
          PROVE  FALSE
      <4>1. pc[q] \in Importing /\ P(q) = e.path
        BY <3>2 DEF Gets, Importing, Checked
      <4>. QED  BY <2>1, <3>1, <4>1, OneHolder DEF Distinct
    <3>. QED  BY <3>1, <3>2, NodeComes DEF Comes
  <2>2. CASE e \in Listed(Pending) /\ UNCHANGED row
    BY <2>2, ListedEntry
  <2>. QED  BY <2>1, <2>2, TodoStep DEF Left
<1>4. ASSUME NEW r \in Requests
      PROVE  /\ pc'[r] = "look" /\ entry'[r].node = None => row'[P(r)'].node = None
             /\ pc'[r] \in Untried => row'[P(r)'].node = None
             /\ pc'[r] \in Untried \cup {"unlink"} => entry'[r].node = None
  <2>1. Takes(r)
    BY PhaseStep
  <2>2. ASSUME pc[r] \in Importing, pc'[r] \in Untried \cup {"look"},
               row[P(r)].node = None
        PROVE  row'[P(r)].node = None
    <3>1. P(r) \in Paths
      BY <2>2, Busy
    <3>2. ASSUME NEW q \in Requests, Gets(q, P(r))
          PROVE  FALSE
      <4>1. q = r
        BY <2>2, <3>2 DEF Gets, OneScan, Importing, Checked
      <4>. QED  BY <2>2, <3>2, <4>1 DEF Gets, Untried, Checked
    <3>. QED  BY <2>2, <3>1, <3>2, NodeComes DEF Comes
  <2>3. pc'[r] = "look" /\ entry'[r].node = None => row'[P(r)'].node = None
    <3>1. CASE pc[r] = "look" /\ pc'[r] = "look" /\ entry'[r] = entry[r]
      BY <2>2, <3>1 DEF Remembered, P, Importing
    <3>2. CASE pc[r] = "pick" /\ entry'[r] \in todo[r] /\ UNCHANGED row
      BY <3>2 DEF Remembered, P
    <3>. QED  BY <2>1, <3>1, <3>2 DEF Takes
  <2>4. pc'[r] \in Untried => row'[P(r)'].node = None
    <3>. SUFFICES ASSUME pc'[r] \in Untried
                  PROVE  row'[P(r)'].node = None
      OBVIOUS
    <3>1. P(r)' = P(r)
      BY <2>1 DEF Takes, P
    <3>2. pc[r] \in Importing /\ row[P(r)].node = None
      BY <2>1 DEF Takes, Remembered, Untried, Importing
    <3>. QED  BY <2>2, <3>1, <3>2
  <2>5. pc'[r] \in Untried \cup {"unlink"} => entry'[r].node = None
    BY <2>1 DEF Takes, Remembered, Untried, Checked
  <2>. QED  BY <2>3, <2>4, <2>5
<1>. QED  BY <1>1, <1>2, <1>3, <1>4 DEF Remembered

----------------------------------------------------------------------------
(* Bytes                                                                    *)

\* Nothing newer than the entry is lost sight of ...
LEMMA Older ==
    ASSUME TablesOK, SlotsOK, EntriesOK, NEW r \in Requests, pc[r] \in Importing
    PROVE  /\ P(r) \in Paths /\ last[P(r)] \in Nat /\ entry[r].seen \in Nat
           /\ entry[r].seen >= 1 /\ entry[r].seen <= last[P(r)]
<1>1. P(r) \in Paths /\ entry[r].seen \in Nat
  BY Busy
<1>2. last[P(r)] \in Nat
  BY <1>1 DEF TablesOK
<1>3. Known(entry[r]) /\ P(r) = entry[r].path
  BY BusyHeld DEF EntriesOK
<1>. QED  BY <1>1, <1>2, <1>3 DEF Known

\* ... and once it has been checked nothing newer is there.
LEMMA Newest ==
    ASSUME TablesOK, SlotsOK, VersionsOK, EntriesOK, Carried,
           NEW r \in Requests, pc[r] \in Checked
    PROVE  /\ P(r) \in Paths /\ last[P(r)] \in Nat /\ last[P(r)] >= 1
           /\ entry[r].seen = last[P(r)] /\ source[P(r)] = last[P(r)]
<1>1. pc[r] \in Importing
  BY DEF Importing
<1>2. source[P(r)] = entry[r].seen
  BY DEF Carried, CarriedBy
<1>. QED  BY <1>1, <1>2, Older DEF VersionsOK

LEMMA EarlyCarried ==
    ASSUME NEW r, pc'[r] \notin Checked \cup {"check"}
    PROVE  CarriedBy(r)'
BY DEF CarriedBy, Checked

\* The bytes of the entry being imported are where its step expects them.
LEMMA CarriedStep ==
    ASSUME Orderly, TablesOK, SlotsOK, BaseInv, OneScan,
           VersionsOK, EntriesOK, Carried, [Next]_vars
    PROVE  Carried'
<1>. USE DEF SlotsOK, TablesOK, P, Goto, Proceed, Settle, Leave, inbox, db, fs, locals
<1>1. ASSUME NEW r \in Requests, ScanStart(r)
      PROVE  Carried'
  <2>1. CarriedBy(r)'
    BY <1>1, EarlyCarried DEF ScanStart, Importing, Checked
  <2>2. \A q \in Requests \ {r} : pc'[q] = "idle"
    BY <1>1 DEF ScanStart, Orderly
  <2>. QED  BY <2>1, <2>2, EarlyCarried DEF Carried, Checked
<1>2. ASSUME NEW r \in Requests, NEW p \in Paths, Discover(r, p)
      PROVE  Carried'
  <2>1. CarriedBy(r)'
    BY <1>2, EarlyCarried DEF Discover, Importing, Checked
  <2>2. \A q \in Requests \ {r} : pc'[q] = "idle"
    BY <1>2 DEF Discover, OneScan, Importing, Checked
  <2>. QED  BY <2>1, <2>2, EarlyCarried DEF Carried, Checked
<1>3. ASSUME NEW r \in Requests, NEW p \in Paths, WalkFails(r, p)
      PROVE  Carried'
  <2>1. CarriedBy(r)'
    BY <1>3, EarlyCarried DEF WalkFails, Importing, Checked
  <2>2. \A q \in Requests \ {r} : pc'[q] = "idle"
    BY <1>3 DEF WalkFails, OneScan, Importing, Checked
  <2>. QED  BY <2>1, <2>2, EarlyCarried DEF Carried, Checked
<1>4. ASSUME NEW r \in Requests, ListPending(r)
      PROVE  Carried'
  <2>1. CarriedBy(r)'
    BY <1>4, EarlyCarried DEF ListPending, Importing, Checked
  <2>2. \A q \in Requests \ {r} : pc'[q] = "idle"
    BY <1>4 DEF ListPending, OneScan, Importing, Checked
  <2>. QED  BY <2>1, <2>2, EarlyCarried DEF Carried, Checked
<1>5. ASSUME NEW r \in Requests, Pick(r)
      PROVE  Carried'
  <2>1. CarriedBy(r)'
    BY <1>5, EarlyCarried DEF Pick, Importing, Checked
  <2>2. \A q \in Requests \ {r} : pc'[q] = "idle"
    BY <1>5 DEF Pick, OneScan, Importing, Checked
  <2>. QED  BY <2>1, <2>2, EarlyCarried DEF Carried, Checked
<1>6. ASSUME NEW r \in Requests, Done(r)
      PROVE  Carried'
  <2>1. CarriedBy(r)'
    BY <1>6, EarlyCarried DEF Done, Importing, Checked
  <2>2. \A q \in Requests \ {r} : pc'[q] = "idle"
    BY <1>6 DEF Done, OneScan, Importing, Checked
  <2>. QED  BY <2>1, <2>2, EarlyCarried DEF Carried, Checked
<1>7. ASSUME NEW r \in Requests, Look(r)
      PROVE  Carried'
  <2>1. CarriedBy(r)'
    BY <1>7, EarlyCarried DEF Look, Importing, Checked
  <2>2. \A q \in Requests \ {r} : pc'[q] = "idle"
    BY <1>7 DEF Look, OneScan, Importing, Checked
  <2>. QED  BY <2>1, <2>2, EarlyCarried DEF Carried, Checked
<1>8. ASSUME NEW r \in Requests, Clean(r)
      PROVE  Carried'
  <2>1. CarriedBy(r)'
    BY <1>8, EarlyCarried DEF Clean, Importing, Checked
  <2>2. \A q \in Requests \ {r} : pc'[q] = "idle"
    BY <1>8 DEF Clean, OneScan, Importing, Checked
  <2>. QED  BY <2>1, <2>2, EarlyCarried DEF Carried, Checked
<1>9. ASSUME NEW r \in Requests, MarkImported(r)
      PROVE  Carried'
  <2>1. CarriedBy(r)'
    BY <1>9, EarlyCarried DEF MarkImported, Importing, Checked
  <2>2. \A q \in Requests \ {r} : pc'[q] = "idle"
    BY <1>9 DEF MarkImported, OneScan, Importing, Checked
  <2>. QED  BY <2>1, <2>2, EarlyCarried DEF Carried, Checked
<1>10. ASSUME NEW r \in Requests, Stage(r)
      PROVE  Carried'
  <2>1. CarriedBy(r)'
    BY <1>10, EarlyCarried DEF Stage, Importing, Checked
  <2>2. \A q \in Requests \ {r} : pc'[q] = "idle"
    BY <1>10 DEF Stage, OneScan, Importing, Checked
  <2>. QED  BY <2>1, <2>2, EarlyCarried DEF Carried, Checked
<1>11. ASSUME NEW r \in Requests, Copy(r)
      PROVE  Carried'
  <2>1. CarriedBy(r)'
    BY <1>11, Older DEF Copy, CarriedBy, Importing, Checked, VersionsOK
  <2>2. \A q \in Requests \ {r} : pc'[q] = "idle"
    BY <1>11 DEF Copy, OneScan, Importing, Checked
  <2>. QED  BY <2>1, <2>2, EarlyCarried DEF Carried, Checked
<1>12. ASSUME NEW r \in Requests, Check(r)
      PROVE  Carried'
  <2>1. CarriedBy(r)'
    BY <1>12, Older DEF Check, Carried, CarriedBy, Importing, Checked, VersionsOK
  <2>2. \A q \in Requests \ {r} : pc'[q] = "idle"
    BY <1>12 DEF Check, OneScan, Importing, Checked
  <2>. QED  BY <2>1, <2>2, EarlyCarried DEF Carried, Checked
<1>13. ASSUME NEW r \in Requests, Reset(r)
      PROVE  Carried'
  <2>1. CarriedBy(r)'
    BY <1>13, EarlyCarried DEF Reset, Importing, Checked
  <2>2. \A q \in Requests \ {r} : pc'[q] = "idle"
    BY <1>13 DEF Reset, OneScan, Importing, Checked
  <2>. QED  BY <2>1, <2>2, EarlyCarried DEF Carried, Checked
<1>14. ASSUME NEW r \in Requests, MarkStable(r)
      PROVE  Carried'
  <2>1. CarriedBy(r)'
    BY <1>14, Newest DEF MarkStable, Carried, CarriedBy, Stored, Checked
  <2>2. \A q \in Requests \ {r} : pc'[q] = "idle"
    BY <1>14 DEF MarkStable, OneScan, Importing, Checked
  <2>. QED  BY <2>1, <2>2, EarlyCarried DEF Carried, Checked
<1>15. ASSUME NEW r \in Requests, Checksum(r)
      PROVE  Carried'
  <2>1. CarriedBy(r)'
    BY <1>15, Newest DEF Checksum, Carried, CarriedBy, Checked
  <2>2. \A q \in Requests \ {r} : pc'[q] = "idle"
    BY <1>15 DEF Checksum, OneScan, Importing, Checked
  <2>. QED  BY <2>1, <2>2, EarlyCarried DEF Carried, Checked
<1>16. ASSUME NEW r \in Requests, MarkImporting(r)
      PROVE  Carried'
  <2>1. CarriedBy(r)'
    BY <1>16, Newest DEF MarkImporting, Carried, CarriedBy, Stored, Checked
  <2>2. \A q \in Requests \ {r} : pc'[q] = "idle"
    BY <1>16 DEF MarkImporting, OneScan, Importing, Checked
  <2>. QED  BY <2>1, <2>2, EarlyCarried DEF Carried, Checked
<1>17. ASSUME NEW r \in Requests, Move(r)
      PROVE  Carried'
  <2>1. CarriedBy(r)'
    BY <1>17, Newest DEF Move, Carried, CarriedBy, Stored, Checked
  <2>2. \A q \in Requests \ {r} : pc'[q] = "idle"
    BY <1>17 DEF Move, OneScan, Importing, Checked
  <2>. QED  BY <2>1, <2>2, EarlyCarried DEF Carried, Checked
<1>18. ASSUME NEW r \in Requests, Commit(r)
      PROVE  Carried'
  <2>1. CarriedBy(r)'
    BY <1>18, Newest DEF Commit, Carried, CarriedBy, Stored, Checked
  <2>2. \A q \in Requests \ {r} : pc'[q] = "idle"
    BY <1>18 DEF Commit, OneScan, Importing, Checked
  <2>. QED  BY <2>1, <2>2, EarlyCarried DEF Carried, Checked
<1>19. ASSUME NEW r \in Requests, CommitNothing(r)
      PROVE  Carried'
  <2>1. CarriedBy(r)'
    BY <1>19, Newest DEF CommitNothing, Carried, CarriedBy, Stored, Checked
  <2>2. \A q \in Requests \ {r} : pc'[q] = "idle"
    BY <1>19 DEF CommitNothing, OneScan, Importing, Checked
  <2>. QED  BY <2>1, <2>2, EarlyCarried DEF Carried, Checked
<1>20. ASSUME NEW r \in Requests, Undo(r)
      PROVE  Carried'
  <2>1. CarriedBy(r)'
    BY <1>20, EarlyCarried DEF Undo, Importing, Checked
  <2>2. \A q \in Requests \ {r} : pc'[q] = "idle"
    BY <1>20 DEF Undo, OneScan, Importing, Checked
  <2>. QED  BY <2>1, <2>2, EarlyCarried DEF Carried, Checked
<1>21. ASSUME NEW r \in Requests, Unlink(r)
      PROVE  Carried'
  <2>1. CarriedBy(r)'
    BY <1>21, EarlyCarried DEF Unlink, Importing, Checked
  <2>2. \A q \in Requests \ {r} : pc'[q] = "idle"
    BY <1>21 DEF Unlink, OneScan, Importing, Checked
  <2>. QED  BY <2>1, <2>2, EarlyCarried DEF Carried, Checked
<1>22. ASSUME NEW r \in Requests, Fail(r)
      PROVE  Carried'
  <2>1. CarriedBy(r)'
    BY <1>22, EarlyCarried DEF Fail, Importing, Checked
  <2>2. \A q \in Requests \ {r} : pc'[q] = "idle"
    BY <1>22 DEF Fail, OneScan, Importing, Checked
  <2>. QED  BY <2>1, <2>2, EarlyCarried DEF Carried, Checked
<1>23. ASSUME NEW r \in Requests, StepFails(r)
      PROVE  Carried'
  <2>1. CarriedBy(r)'
    <3>1. CASE pc[r] # "commit"
      BY <1>23, <3>1, EarlyCarried DEF StepFails, Importing, Checked
    <3>2. CASE pc[r] = "commit"
      BY <1>23, <3>2 DEF StepFails, Carried, CarriedBy, Importing, Checked
    <3>. QED  BY <3>1, <3>2
  <2>2. \A q \in Requests \ {r} : pc'[q] = "idle"
    BY <1>23 DEF StepFails, OneScan, Importing, Checked
  <2>. QED  BY <2>1, <2>2, EarlyCarried DEF Carried, Checked
<1>24. ASSUME NEW r \in Requests, Drop(r)
      PROVE  Carried'
  <2>1. CarriedBy(r)'
    BY <1>24, EarlyCarried DEF Drop, Importing, Checked
  <2>2. \A q \in Requests \ {r} : pc'[q] = "idle"
    BY <1>24 DEF Drop, OneScan, Importing, Checked
  <2>. QED  BY <2>1, <2>2, EarlyCarried DEF Carried, Checked
<1>25. ASSUME NEW r \in Requests, Recover(r)
      PROVE  Carried'
  <2>1. CarriedBy(r)'
    BY <1>25, EarlyCarried DEF Recover, Importing, Checked
  <2>2. \A q \in Requests \ {r} : pc'[q] = "idle"
    BY <1>25 DEF Recover, BaseInv
  <2>. QED  BY <2>1, <2>2, EarlyCarried DEF Carried, Checked
<1>26. ASSUME Crash
      PROVE  Carried'
  BY <1>26, EarlyCarried DEF Crash, Carried, Checked
<1>27. ASSUME RecoverFails
      PROVE  Carried'
  BY <1>27 DEF RecoverFails, Carried, CarriedBy, Stored
<1>28. ASSUME NEW p \in Paths, Write(p)
      PROVE  Carried'
  <2>. SUFFICES ASSUME NEW r \in Requests  PROVE  CarriedBy(r)'
    BY DEF Carried
  <2>1. CASE pc[r] \in Checked
    BY <1>28, <2>1 DEF Write, Touchable, Orderly, Carried, CarriedBy, Stored, Checked
  <2>2. CASE pc[r] = "check"
    BY <1>28, <2>2, Older DEF Write, Carried, CarriedBy, Importing, Checked
  <2>. QED  BY <1>28, <2>1, <2>2, EarlyCarried DEF Write
<1>29. ASSUME NEW p \in Paths, Remove(p)
      PROVE  Carried'
  <2>. SUFFICES ASSUME NEW r \in Requests  PROVE  CarriedBy(r)'
    BY DEF Carried
  <2>1. CASE pc[r] \in Checked
    BY <1>29, <2>1 DEF Remove, Touchable, Orderly, Carried, CarriedBy, Stored, Checked
  <2>2. CASE pc[r] = "check"
    BY <1>29, <2>2, Older DEF Remove, Carried, CarriedBy, Importing, Checked
  <2>. QED  BY <1>29, <2>1, <2>2, EarlyCarried DEF Remove
<1>30. ASSUME NEW b \in BOOLEAN, SetEnabled(b)
      PROVE  Carried'
  BY <1>30 DEF SetEnabled, Carried, CarriedBy, Stored
<1>31. ASSUME NEW p \in Paths, Retry(p)
      PROVE  Carried'
  BY <1>31 DEF Retry, Carried, CarriedBy, Stored
<1>32. ASSUME NEW p \in Paths, OtherNodeTakesName(p)
      PROVE  Carried'
  BY <1>32 DEF OtherNodeTakesName, Carried, CarriedBy, Stored
<1>33. ASSUME NEW p \in Paths, OtherNodeFreesName(p)
      PROVE  Carried'
  BY <1>33 DEF OtherNodeFreesName, Carried, CarriedBy, Stored
<1>34. ASSUME NEW n \in Nodes, NodeLeaves(n)
      PROVE  Carried'
  BY <1>34 DEF NodeLeaves, Carried, CarriedBy, Stored
<1>35. ASSUME NEW n \in Nodes, Purge(n)
      PROVE  Carried'
  <2>. SUFFICES ASSUME NEW r \in Requests  PROVE  CarriedBy(r)'
    BY DEF Carried
  <2>1. Stored(P(r)) => Stored(P(r))'
    BY <1>35 DEF Purge, Stored, SlotsOK, Node, BaseInv
  <2>. QED  BY <1>35, <2>1 DEF Purge, Carried, CarriedBy
<1>36. CASE UNCHANGED vars
  BY <1>36 DEF vars, Carried, CarriedBy, Stored
<1>. HIDE DEF SlotsOK, TablesOK, P, Goto, Proceed, Settle, Leave, inbox, db, fs, locals
<1>37. ASSUME NEW r \in Requests, Progress(r)
      PROVE  Carried'
  BY <1>2, <1>3, <1>4, <1>5, <1>6, <1>7, <1>8, <1>9, <1>10, <1>11, <1>12,
    <1>13, <1>14, <1>15, <1>16, <1>17, <1>18, <1>19, <1>20, <1>21, <1>22,
    <1>37
  DEF Progress
<1>. QED
  BY <1>1, <1>23, <1>24, <1>25, <1>26, <1>27, <1>28, <1>29, <1>30, <1>31,
    <1>32, <1>33, <1>34, <1>35, <1>36, <1>37, ConstantsOK
  DEF Next, Owner, Others

\* A path's only node holds its newest file, whole.
LEMMA NodesStep ==
    ASSUME Orderly, TablesOK, SlotsOK, BaseInv,
           VersionsOK, EntriesOK, Carried, NodesOK, SizeAgrees, [Next]_vars
    PROVE  NodesOK' /\ SizeAgrees'
<1>. USE DEF NodesOK, SizeAgrees, TablesOK, BaseInv, Exists, Alone, inbox, db, fs, Proceed
<1>1. ASSUME NEW r \in Requests, ScanStart(r)
      PROVE  NodesOK' /\ SizeAgrees'
  BY <1>1 DEF ScanStart
<1>2. ASSUME NEW r \in Requests, NEW p \in Paths, Discover(r, p)
      PROVE  NodesOK' /\ SizeAgrees'
  BY <1>2 DEF Discover
<1>3. ASSUME NEW r \in Requests, NEW p \in Paths, WalkFails(r, p)
      PROVE  NodesOK' /\ SizeAgrees'
  BY <1>3 DEF WalkFails
<1>4. ASSUME NEW r \in Requests, ListPending(r)
      PROVE  NodesOK' /\ SizeAgrees'
  BY <1>4 DEF ListPending
<1>5. ASSUME NEW r \in Requests, Pick(r)
      PROVE  NodesOK' /\ SizeAgrees'
  BY <1>5 DEF Pick
<1>6. ASSUME NEW r \in Requests, Done(r)
      PROVE  NodesOK' /\ SizeAgrees'
  BY <1>6 DEF Done
<1>7. ASSUME NEW r \in Requests, Look(r)
      PROVE  NodesOK' /\ SizeAgrees'
  BY <1>7 DEF Look
<1>8. ASSUME NEW r \in Requests, Clean(r)
      PROVE  NodesOK' /\ SizeAgrees'
  BY <1>8 DEF Clean
<1>9. ASSUME NEW r \in Requests, MarkImported(r)
      PROVE  NodesOK' /\ SizeAgrees'
  BY <1>9 DEF MarkImported
<1>10. ASSUME NEW r \in Requests, Stage(r)
      PROVE  NodesOK' /\ SizeAgrees'
  BY <1>10 DEF Stage
<1>11. ASSUME NEW r \in Requests, Copy(r)
      PROVE  NodesOK' /\ SizeAgrees'
  BY <1>11 DEF Copy
<1>12. ASSUME NEW r \in Requests, Check(r)
      PROVE  NodesOK' /\ SizeAgrees'
  BY <1>12 DEF Check
<1>13. ASSUME NEW r \in Requests, Reset(r)
      PROVE  NodesOK' /\ SizeAgrees'
  BY <1>13 DEF Reset
<1>14. ASSUME NEW r \in Requests, MarkStable(r)
      PROVE  NodesOK' /\ SizeAgrees'
  BY <1>14 DEF MarkStable
<1>15. ASSUME NEW r \in Requests, Checksum(r)
      PROVE  NodesOK' /\ SizeAgrees'
  BY <1>15 DEF Checksum
<1>16. ASSUME NEW r \in Requests, MarkImporting(r)
      PROVE  NodesOK' /\ SizeAgrees'
  BY <1>16 DEF MarkImporting
<1>17. ASSUME NEW r \in Requests, Move(r)
      PROVE  NodesOK' /\ SizeAgrees'
  BY <1>17 DEF Move
<1>18. ASSUME NEW r \in Requests, Commit(r)
      PROVE  NodesOK' /\ SizeAgrees'
  <2>. DEFINE n == CHOOSE m \in Nodes : Fresh(m)
  <2>1. n \in Nodes /\ Fresh(n) /\ pc[r] = "commit"
    BY <1>18 DEF Commit
  <2>2. /\ P(r) \in Paths /\ source[P(r)] # 0
        /\ entry[r].seen = last[P(r)] /\ sum[r] = last[P(r)]
    BY <2>1, Newest DEF Carried, CarriedBy, Checked
  <2>3. /\ nodes' = [nodes EXCEPT ![n] = [status |-> "here", path |-> P(r),
                                          sum |-> sum[r], size |-> entry[r].seen]]
        /\ UNCHANGED <<source, last, disposed>>
    BY <1>18 DEF Commit
  <2>. HIDE <1>18 DEF n
  <2>4. nodes[n].path = None /\ None \notin Paths
    BY <2>1, ConstantsOK DEF Fresh
  <2>5. \A m \in Nodes : nodes'[m] = IF m = n THEN [status |-> "here", path |-> P(r),
                                   sum |-> sum[r], size |-> entry[r].seen] ELSE nodes[m]
    BY <2>1, <2>3
  <2>6. SizeAgrees'
    BY <2>2, <2>5
  <2>7. \A p \in disposed' : source'[p] = 0 \/ \E m \in Nodes : nodes'[m].path = p
    BY <2>1, <2>3, <2>4, <2>5
  <2>8. ASSUME NEW m \in Nodes, Exists(m)', Alone(m)'
        PROVE  nodes'[m].path \notin disposed' /\ nodes'[m].sum = last'[nodes'[m].path]
    <3>1. CASE m = n
      <4>1. \A k \in Nodes : nodes[k].path # P(r)
        BY <2>1, <2>2, <2>4, <2>5, <2>8, <3>1
      <4>. QED  BY <2>2, <2>3, <2>5, <3>1, <4>1
    <3>2. CASE m # n
      <4>1. Exists(m) /\ nodes'[m] = nodes[m] /\ Alone(m)
        BY <2>1, <2>4, <2>5, <2>8, <3>2 DEF Exists
      <4>. QED  BY <2>3, <4>1
    <3>. QED  BY <3>1, <3>2
  <2>. QED  BY <2>6, <2>7, <2>8
<1>19. ASSUME NEW r \in Requests, CommitNothing(r)
      PROVE  NodesOK' /\ SizeAgrees'
  BY <1>19 DEF CommitNothing
<1>20. ASSUME NEW r \in Requests, Undo(r)
      PROVE  NodesOK' /\ SizeAgrees'
  BY <1>20 DEF Undo
<1>21. ASSUME NEW r \in Requests, Unlink(r)
      PROVE  NodesOK' /\ SizeAgrees'
  BY <1>21 DEF Unlink
<1>22. ASSUME NEW r \in Requests, Fail(r)
      PROVE  NodesOK' /\ SizeAgrees'
  BY <1>22 DEF Fail
<1>23. ASSUME NEW r \in Requests, StepFails(r)
      PROVE  NodesOK' /\ SizeAgrees'
  BY <1>23 DEF StepFails
<1>24. ASSUME NEW r \in Requests, Drop(r)
      PROVE  NodesOK' /\ SizeAgrees'
  BY <1>24 DEF Drop
<1>25. ASSUME NEW r \in Requests, Recover(r)
      PROVE  NodesOK' /\ SizeAgrees'
  BY <1>25 DEF Recover
<1>26. ASSUME Crash
      PROVE  NodesOK' /\ SizeAgrees'
  BY <1>26 DEF Crash
<1>27. ASSUME RecoverFails
      PROVE  NodesOK' /\ SizeAgrees'
  BY <1>27 DEF RecoverFails
<1>28. ASSUME NEW p \in Paths, Write(p)
      PROVE  NodesOK' /\ SizeAgrees'
  BY <1>28 DEF Write, Touchable, Orderly
<1>29. ASSUME NEW p \in Paths, Remove(p)
      PROVE  NodesOK' /\ SizeAgrees'
  BY <1>29 DEF Remove, Touchable, Orderly
<1>30. ASSUME NEW b \in BOOLEAN, SetEnabled(b)
      PROVE  NodesOK' /\ SizeAgrees'
  BY <1>30 DEF SetEnabled
<1>31. ASSUME NEW p \in Paths, Retry(p)
      PROVE  NodesOK' /\ SizeAgrees'
  BY <1>31 DEF Retry
<1>32. ASSUME NEW p \in Paths, OtherNodeTakesName(p)
      PROVE  NodesOK' /\ SizeAgrees'
  BY <1>32 DEF OtherNodeTakesName
<1>33. ASSUME NEW p \in Paths, OtherNodeFreesName(p)
      PROVE  NodesOK' /\ SizeAgrees'
  BY <1>33 DEF OtherNodeFreesName
<1>34. ASSUME NEW n \in Nodes, NodeLeaves(n)
      PROVE  NodesOK' /\ SizeAgrees'
  BY <1>34 DEF NodeLeaves, Node
<1>35. ASSUME NEW n \in Nodes, Purge(n)
      PROVE  NodesOK' /\ SizeAgrees'
  <2>1. nodes[n].path \in Paths
    BY <1>35 DEF Purge, Node
  <2>2. \A m \in Nodes : /\ nodes'[m].path = nodes[m].path
                         /\ nodes'[m].sum = nodes[m].sum
                         /\ nodes'[m].size = nodes[m].size
                         /\ nodes'[m].status = IF m = n THEN "purged" ELSE nodes[m].status
    BY <1>35 DEF Purge, Node
  <2>3. UNCHANGED <<source, last>> /\ disposed' = disposed \cup {nodes[n].path}
    BY <1>35 DEF Purge
  <2>. HIDE <1>35
  <2>. QED  BY <2>1, <2>2, <2>3
<1>36. CASE UNCHANGED vars
  BY <1>36 DEF vars
<1>. HIDE DEF NodesOK, SizeAgrees, TablesOK, BaseInv, Exists, Alone, inbox, db, fs, Proceed
<1>37. ASSUME NEW r \in Requests, Progress(r)
      PROVE  NodesOK' /\ SizeAgrees'
  BY <1>2, <1>3, <1>4, <1>5, <1>6, <1>7, <1>8, <1>9, <1>10, <1>11, <1>12,
    <1>13, <1>14, <1>15, <1>16, <1>17, <1>18, <1>19, <1>20, <1>21, <1>22,
    <1>37
  DEF Progress
<1>. QED
  BY <1>1, <1>23, <1>24, <1>25, <1>26, <1>27, <1>28, <1>29, <1>30, <1>31,
    <1>32, <1>33, <1>34, <1>35, <1>36, <1>37, ConstantsOK
  DEF Next, Owner, Others

\* Whatever overwrites or deletes bytes leaves the newest ones somewhere.
LEMMA LostStep ==
    ASSUME TablesOK, SlotsOK, BaseInv, VersionsOK, EntriesOK,
           Remembered, Carried, NothingLost, [Next]_vars
    PROVE  NothingLost'
<1>. USE DEF NothingLost, TablesOK, inbox, db, fs, Proceed
<1>1. ASSUME NEW r \in Requests, ScanStart(r)
      PROVE  NothingLost'
  BY <1>1 DEF ScanStart
<1>2. ASSUME NEW r \in Requests, NEW p \in Paths, Discover(r, p)
      PROVE  NothingLost'
  BY <1>2 DEF Discover
<1>3. ASSUME NEW r \in Requests, NEW p \in Paths, WalkFails(r, p)
      PROVE  NothingLost'
  BY <1>3 DEF WalkFails
<1>4. ASSUME NEW r \in Requests, ListPending(r)
      PROVE  NothingLost'
  BY <1>4 DEF ListPending
<1>5. ASSUME NEW r \in Requests, Pick(r)
      PROVE  NothingLost'
  BY <1>5 DEF Pick
<1>6. ASSUME NEW r \in Requests, Done(r)
      PROVE  NothingLost'
  BY <1>6 DEF Done
<1>7. ASSUME NEW r \in Requests, Look(r)
      PROVE  NothingLost'
  BY <1>7 DEF Look
<1>8. ASSUME NEW r \in Requests, Clean(r)
      PROVE  NothingLost'
  <2>1. Stored(P(r))
    BY <1>8, BusyHeld DEF Clean, BaseInv, Remembered, Remembers, Importing
  <2>. QED  BY <1>8, <2>1 DEF Clean, Stored
<1>9. ASSUME NEW r \in Requests, MarkImported(r)
      PROVE  NothingLost'
  BY <1>9 DEF MarkImported
<1>10. ASSUME NEW r \in Requests, Stage(r)
      PROVE  NothingLost'
  BY <1>10 DEF Stage
<1>11. ASSUME NEW r \in Requests, Copy(r)
      PROVE  NothingLost'
  BY <1>11 DEF Copy
<1>12. ASSUME NEW r \in Requests, Check(r)
      PROVE  NothingLost'
  BY <1>12 DEF Check
<1>13. ASSUME NEW r \in Requests, Reset(r)
      PROVE  NothingLost'
  BY <1>13 DEF Reset
<1>14. ASSUME NEW r \in Requests, MarkStable(r)
      PROVE  NothingLost'
  BY <1>14 DEF MarkStable
<1>15. ASSUME NEW r \in Requests, Checksum(r)
      PROVE  NothingLost'
  BY <1>15 DEF Checksum
<1>16. ASSUME NEW r \in Requests, MarkImporting(r)
      PROVE  NothingLost'
  BY <1>16 DEF MarkImporting
<1>17. ASSUME NEW r \in Requests, Move(r)
      PROVE  NothingLost'
  <2>1. staging[P(r)] = last[P(r)]
    BY <1>17, Newest DEF Move, Carried, CarriedBy, Checked
  <2>. QED  BY <1>17, <2>1 DEF Move
<1>18. ASSUME NEW r \in Requests, Commit(r)
      PROVE  NothingLost'
  BY <1>18 DEF Commit
<1>19. ASSUME NEW r \in Requests, CommitNothing(r)
      PROVE  NothingLost'
  BY <1>19 DEF CommitNothing
<1>20. ASSUME NEW r \in Requests, Undo(r)
      PROVE  NothingLost'
  <2>1. source[P(r)] = last[P(r)]
    BY <1>20, Newest DEF Undo, Checked
  <2>. QED  BY <1>20, <2>1 DEF Undo
<1>21. ASSUME NEW r \in Requests, Unlink(r)
      PROVE  NothingLost'
  <2>1. Stored(P(r))
    BY <1>21 DEF Unlink, Carried, CarriedBy
  <2>. QED  BY <1>21, <2>1 DEF Unlink, Stored
<1>22. ASSUME NEW r \in Requests, Fail(r)
      PROVE  NothingLost'
  BY <1>22 DEF Fail
<1>23. ASSUME NEW r \in Requests, StepFails(r)
      PROVE  NothingLost'
  BY <1>23 DEF StepFails
<1>24. ASSUME NEW r \in Requests, Drop(r)
      PROVE  NothingLost'
  BY <1>24 DEF Drop
<1>25. ASSUME NEW r \in Requests, Recover(r)
      PROVE  NothingLost'
  BY <1>25 DEF Recover
<1>26. ASSUME Crash
      PROVE  NothingLost'
  BY <1>26 DEF Crash
<1>27. ASSUME RecoverFails
      PROVE  NothingLost'
  BY <1>27 DEF RecoverFails
<1>28. ASSUME NEW p \in Paths, Write(p)
      PROVE  NothingLost'
  BY <1>28 DEF Write
<1>29. ASSUME NEW p \in Paths, Remove(p)
      PROVE  NothingLost'
  BY <1>29 DEF Remove
<1>30. ASSUME NEW b \in BOOLEAN, SetEnabled(b)
      PROVE  NothingLost'
  BY <1>30 DEF SetEnabled
<1>31. ASSUME NEW p \in Paths, Retry(p)
      PROVE  NothingLost'
  BY <1>31 DEF Retry
<1>32. ASSUME NEW p \in Paths, OtherNodeTakesName(p)
      PROVE  NothingLost'
  BY <1>32 DEF OtherNodeTakesName
<1>33. ASSUME NEW p \in Paths, OtherNodeFreesName(p)
      PROVE  NothingLost'
  BY <1>33 DEF OtherNodeFreesName
<1>34. ASSUME NEW n \in Nodes, NodeLeaves(n)
      PROVE  NothingLost'
  BY <1>34 DEF NodeLeaves
<1>35. ASSUME NEW n \in Nodes, Purge(n)
      PROVE  NothingLost'
  BY <1>35 DEF Purge
<1>36. CASE UNCHANGED vars
  BY <1>36 DEF vars
<1>. HIDE DEF NothingLost, TablesOK, inbox, db, fs, Proceed
<1>37. ASSUME NEW r \in Requests, Progress(r)
      PROVE  NothingLost'
  BY <1>2, <1>3, <1>4, <1>5, <1>6, <1>7, <1>8, <1>9, <1>10, <1>11, <1>12,
    <1>13, <1>14, <1>15, <1>16, <1>17, <1>18, <1>19, <1>20, <1>21, <1>22,
    <1>37
  DEF Progress
<1>. QED
  BY <1>1, <1>23, <1>24, <1>25, <1>26, <1>27, <1>28, <1>29, <1>30, <1>31,
    <1>32, <1>33, <1>34, <1>35, <1>36, <1>37, ConstantsOK
  DEF Next, Owner, Others

----------------------------------------------------------------------------
(* The theorems                                                             *)

LEMMA InvInit == Init => IInv
<1>. SUFFICES ASSUME Init  PROVE  IInv
  OBVIOUS
<1>1. TypeOK /\ BaseInv
  BY TypeInit, BaseInit
<1>2. \A r \in Requests : Held(r) = {} /\ pc[r] = "idle"
  BY DEF Init, Held
<1>3. /\ \A p \in Paths : last[p] = 0 /\ source[p] = 0 /\ row[p] = NoRow
      /\ \A n \in Nodes : nodes[n] = NoNode
      /\ disposed = {} /\ \A r \in Requests : todo[r] = {} /\ entry[r] = NoEntry
  BY DEF Init
<1>4. OneScan /\ Distinct
  BY <1>2, <1>3, EntryReal DEF OneScan, Distinct, Init
<1>5. VersionsOK /\ EntriesOK
  BY <1>2, <1>3 DEF VersionsOK, EntriesOK, NoRow
<1>6. Remembered
  BY <1>2, <1>3 DEF Remembered, Remembers, NoRow, Untried, Checked
<1>7. Carried
  BY <1>2 DEF Carried, CarriedBy, Checked
<1>8. NodesOK /\ SizeAgrees /\ NothingLost
  BY <1>3 DEF NodesOK, SizeAgrees, NothingLost, NoNode, Exists
<1>. QED  BY <1>1, <1>4, <1>5, <1>6, <1>7, <1>8 DEF IInv

LEMMA InvStep == Orderly /\ IInv /\ [Next]_vars => IInv'
<1>. SUFFICES ASSUME Orderly, IInv, [Next]_vars  PROVE  IInv'
  OBVIOUS
<1>1. TablesOK /\ SlotsOK
  BY Halves DEF IInv
<1>2. TypeOK' /\ BaseInv' /\ SlotsOK'
  BY <1>1, TypeStep, SlotsStep DEF IInv
<1>3. OneScan' /\ VersionsOK' /\ EntriesOK' /\ Distinct'
  BY <1>1, OneScanStep, VersionsStep, EntriesStep, DistinctStep DEF IInv
<1>4. Remembered'
  BY <1>1, <1>2, RememberedStep DEF IInv
<1>5. Carried' /\ NodesOK' /\ SizeAgrees' /\ NothingLost'
  BY <1>1, CarriedStep, NodesStep, LostStep DEF IInv
<1>. QED  BY <1>2, <1>3, <1>4, <1>5 DEF IInv

LEMMA Inductive == Orderly => (Spec => []IInv)
<1>1. ASSUME Orderly  PROVE  Spec => []IInv
  <2>1. Init => IInv
    BY InvInit
  <2>2. IInv /\ [Next]_vars => IInv'
    BY <1>1, InvStep
  <2>. QED  BY <2>1, <2>2, PTL DEF Spec
<1>. QED  BY <1>1

\* The newest file of a path is never lost, whatever a scan fails at and
\* wherever it is dropped or dies, as long as scans do not overlap and the
\* owner leaves alone what is being imported: import_entry_inner deletes its
\* source last, and move_object and the compensation only replace a copy.
THEOREM FilesKept == Orderly => (Spec => []NothingLost)
<1>1. IInv => NothingLost
  BY DEF IInv
<1>. QED  BY <1>1, Inductive, PTL

\* What is published was whole, under the same conditions: stream_if_stable_to
\* looks at size and time before the copy and after it.
THEOREM PublishedWhole == Orderly => (Spec => []SizeAgrees)
<1>1. IInv => SizeAgrees
  BY DEF IInv
<1>. QED  BY <1>1, Inductive, PTL

\* A node that its entry knows keeps its bytes under the same conditions: no
\* later scan, retry or recovery comes to import its path again.
THEOREM ImportedIntact == Orderly => (Spec => []NodesIntact)
<1>1. IInv => NodesIntact
  <2>. SUFFICES ASSUME IInv, NEW n \in Nodes, Exists(n),
                       row[nodes[n].path].node = n, Alone(n)
                PROVE  originals[nodes[n].path] = nodes[n].sum
    BY DEF NodesIntact, Alone
  <2>1. nodes[n].path \in Paths /\ n # None
    BY ConstantsOK DEF IInv, BaseInv, TypeOK, Node, Exists
  <2>2. Stored(nodes[n].path)
    BY <2>1 DEF IInv, Remembered, Remembers
  <2>. QED  BY <2>1, <2>2 DEF IInv, NodesOK, Stored
<1>. QED  BY <1>1, Inductive, PTL

=============================================================================
