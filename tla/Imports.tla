------------------------------ MODULE Imports ------------------------------
(***************************************************************************)
(* The watched-folder importer: the scan and recovery of crates/importer,   *)
(* the import_entries statements and the publishing transaction of          *)
(* crates/db, the handlers of crates/api/src/imports.rs that request scans, *)
(* and the inbox that its owner keeps changing meanwhile.                   *)
(*                                                                          *)
(* A scan is a sequence of steps, one per `.await`.  An import entry is     *)
(* named by its path: the row is unique per path and never deleted, and its *)
(* id is both the staging/ and the originals/ key of everything imported    *)
(* from that path.  The files that appear at a path are numbered; the       *)
(* number stands for content, size and modification time.                   *)
(***************************************************************************)
EXTENDS Integers, FiniteSets

CONSTANTS
    Paths,       \* paths below the watch root, in one directory of it
    Nodes,       \* node ids (fresh UUIDs)
    Requests,    \* slots for scans in flight
    None,
    Contested,   \* paths whose names in the destination others want too
    MaxVersion,  \* a bound on the files that appear at each path
    MaxFaults,   \* a bound on injected failures
    Faults       \* which of AllFaults may happen

(* "error": one call to the database, the storage or the inbox fails, or    *)
(*    the disk guard refuses.                                               *)
(* "disconnect": the client hangs up and its scan is dropped at an await.   *)
(* "crash": the API process dies and is started again.                      *)
(* "overlap": a scan is requested while another one runs.                   *)
(* "late_write": a file is touched after its stability has been checked.    *)
(* "reuse": a path is used again after a node was made from it.             *)
AllFaults == {"error", "disconnect", "crash", "overlap", "late_write", "reuse"}

ASSUME ConstantsOK ==
    /\ None \notin Paths \cup Nodes
    /\ Contested \subseteq Paths
    /\ MaxVersion \in [Paths -> Nat] /\ MaxFaults \in Nat
    /\ Faults \subseteq AllFaults

VARIABLES
    \* the inbox
    source,     \* the file at each path, 0 if there is none
    last,       \* history: the newest file its owner put there
    disposed,   \* history: paths whose newest file its owner deleted
    \* PostgreSQL
    row,        \* import_entries
    nodes,      \* the nodes and file_objects rows that imports inserted
    taken,      \* paths whose name in the destination another node has
    enabled,    \* import_sources.enabled
    \* STORAGE_ROOT
    staging,    \* staging/<entry id>, 0 if there is no such file
    originals,  \* originals/<entry id>
    \* the API process
    phase,      \* "down", "recovering" or "up"
    pc,         \* what each scan is about to do
    visiting,   \* walk: paths listed and not yet recorded
    todo,       \* entries as list_pending_entries returned them
    entry,      \* the one being imported
    sum,        \* its checksum
    budget      \* failures that may still be injected

inbox == <<source, last, disposed>>
db == <<row, nodes, taken, enabled>>
fs == <<staging, originals>>
locals == <<visiting, todo, entry, sum>>
vars == <<inbox, db, fs, phase, pc, locals, budget>>

----------------------------------------------------------------------------
(* Types                                                                    *)

States == {"none", "discovered", "stable", "importing", "imported", "failed"}
Row == [state : States, seen : Nat, node : Nodes \cup {None}]
Entry == [path : Paths, seen : Nat, node : Nodes \cup {None}]
Node == [status : {"none", "here", "away", "purged"},
         path : Paths \cup {None}, sum : Nat, size : Nat]

NoRow == [state |-> "none", seen |-> 0, node |-> None]
NoEntry == [path |-> None, seen |-> 0, node |-> None]
NoNode == [status |-> "none", path |-> None, sum |-> 0, size |-> 0]

\* The steps of import_entry, and those of them that come after the file's
\* stability was checked and before the entry is settled.
Checked == {"stable", "sum", "importing", "move", "commit", "undo", "unlink"}
Importing == {"look", "clean", "mark", "stage", "copy", "check", "reset", "fail"}
                \cup Checked
Steps == {"idle", "walk", "pick"} \cup Importing

TypeOK ==
    /\ source \in [Paths -> Nat] /\ last \in [Paths -> Nat]
    /\ disposed \subseteq Paths
    /\ row \in [Paths -> Row]
    /\ nodes \in [Nodes -> Node]
    /\ taken \subseteq Paths
    /\ enabled \in BOOLEAN
    /\ staging \in [Paths -> Nat] /\ originals \in [Paths -> Nat]
    /\ phase \in {"down", "recovering", "up"}
    /\ pc \in [Requests -> Steps]
    /\ visiting \in [Requests -> SUBSET Paths]
    /\ todo \in [Requests -> SUBSET Entry]
    /\ entry \in [Requests -> Entry \cup {NoEntry}]
    /\ sum \in [Requests -> Nat]
    /\ budget \in 0 .. MaxFaults
    /\ \A r \in Requests : pc[r] \in Importing <=> entry[r] # NoEntry

Init ==
    /\ source = [p \in Paths |-> 0] /\ last = [p \in Paths |-> 0]
    /\ disposed = {}
    /\ row = [p \in Paths |-> NoRow]
    /\ nodes = [n \in Nodes |-> NoNode]
    /\ taken = {}
    /\ enabled = TRUE
    /\ staging = [p \in Paths |-> 0] /\ originals = [p \in Paths |-> 0]
    /\ phase = "up"
    /\ pc = [r \in Requests |-> "idle"]
    /\ visiting = [r \in Requests |-> {}]
    /\ todo = [r \in Requests |-> {}]
    /\ entry = [r \in Requests |-> NoEntry]
    /\ sum = [r \in Requests |-> 0]
    /\ budget = MaxFaults

----------------------------------------------------------------------------
(* Helpers                                                                  *)

Exists(n) == nodes[n].status \in {"here", "away"}

\* The unique index on the names of active siblings.
NameFree(p) ==
    /\ p \notin taken
    /\ \A n \in Nodes : ~(nodes[n].status = "here" /\ nodes[n].path = p)

\* Rows in one of these states, as a SELECT returns them.
Listed(states) ==
    {[path |-> p, seen |-> row[p].seen, node |-> row[p].node] :
        p \in {q \in Paths : row[q].state \in states}}

SetState(p, s) == row' = [row EXCEPT ![p].state = s]

Inject(fault) ==
    /\ fault \in Faults
    /\ budget > 0 /\ budget' = budget - 1

Goto(r, step) == pc' = [pc EXCEPT ![r] = step]

\* import_entry has returned; the loop takes the next entry.
Settle(r) ==
    /\ Goto(r, "pick")
    /\ entry' = [entry EXCEPT ![r] = NoEntry]
    /\ sum' = [sum EXCEPT ![r] = 0]
    /\ UNCHANGED <<visiting, todo, phase>>

\* The scan, or the recovery, has returned.
Leave(r) ==
    /\ Goto(r, "idle")
    /\ visiting' = [visiting EXCEPT ![r] = {}]
    /\ todo' = [todo EXCEPT ![r] = {}]
    /\ entry' = [entry EXCEPT ![r] = NoEntry]
    /\ sum' = [sum EXCEPT ![r] = 0]
    /\ phase' = "up"

P(r) == entry[r].path
Pending == {"discovered", "stable", "importing"}

\* The handler goes on to another step of the same entry.
Proceed(r, step) ==
    /\ Goto(r, step)
    /\ UNCHANGED <<inbox, db, phase, locals, budget>>

----------------------------------------------------------------------------
(* Plausible bugs, one slip each; none belongs to Next.                     *)

ListPending_Fresh(r) ==
    /\ pc[r] = "walk" /\ visiting[r] = {}
    /\ todo' = [todo EXCEPT ![r] = Listed({"discovered", "stable"})]
    /\ Goto(r, "pick")
    /\ UNCHANGED <<inbox, db, fs, phase, visiting, entry, sum, budget>>

Look_IgnoresNode(r) ==
    /\ pc[r] = "look"
    /\ Proceed(r, "stage")
    /\ UNCHANGED fs

Check_Skipped(r) ==
    /\ pc[r] = "check"
    /\ Proceed(r, "stable")
    /\ UNCHANGED fs

Move_TakesSource(r) ==
    /\ pc[r] = "move"
    /\ source' = [source EXCEPT ![P(r)] = 0]
    /\ originals' = [originals EXCEPT ![P(r)] = staging[P(r)]]
    /\ staging' = [staging EXCEPT ![P(r)] = 0]
    /\ Goto(r, "commit")
    /\ UNCHANGED <<last, disposed, db, phase, locals, budget>>

Fail_KeepsEntry(r) ==
    /\ pc[r] = "fail"
    /\ SetState(P(r), "failed")
    /\ Goto(r, "pick")
    /\ UNCHANGED <<inbox, nodes, taken, enabled, fs, phase, locals, budget>>

----------------------------------------------------------------------------
(* POST /api/imports/sources/:id/scan                                       *)

\* The source is enabled; the directory is listed.
ScanStart(r) ==
    /\ phase = "up" /\ enabled
    /\ pc[r] = "idle"
    /\ "overlap" \in Faults \/ \A q \in Requests : pc[q] = "idle"
    /\ Goto(r, "walk")
    /\ visiting' = [visiting EXCEPT ![r] = {p \in Paths : source[p] # 0}]
    /\ UNCHANGED <<inbox, db, fs, phase, todo, entry, sum, budget>>

\* upsert_import_entry: a path that was imported starts afresh, any other
\* entry keeps its state and node and takes the new size and time.
Upserted(p) ==
    [state |-> IF row[p].state \in {"none", "imported"} THEN "discovered"
                                                        ELSE row[p].state,
     seen |-> source[p],
     node |-> IF row[p].state = "imported" THEN None ELSE row[p].node]

Discover(r, p) ==
    /\ pc[r] = "walk" /\ p \in visiting[r]
    /\ source[p] # 0
    /\ row' = [row EXCEPT ![p] = Upserted(p)]
    /\ visiting' = [visiting EXCEPT ![r] = @ \ {p}]
    /\ UNCHANGED <<inbox, nodes, taken, enabled, fs, phase, pc, todo, entry, sum,
                   budget>>

\* A listed file has gone before it could be inspected: the scan is a 400.
WalkFails(r, p) ==
    /\ pc[r] = "walk" /\ p \in visiting[r]
    /\ source[p] = 0
    /\ Leave(r)
    /\ UNCHANGED <<inbox, db, fs, budget>>

ListPending(r) ==
    /\ pc[r] = "walk" /\ visiting[r] = {}
    /\ todo' = [todo EXCEPT ![r] = Listed(Pending)]
    /\ Goto(r, "pick")
    /\ UNCHANGED <<inbox, db, fs, phase, visiting, entry, sum, budget>>

\* The next entry, as it was when it was listed.
Pick(r) ==
    /\ pc[r] = "pick"
    /\ \E e \in todo[r] :
        /\ todo' = [todo EXCEPT ![r] = @ \ {e}]
        /\ entry' = [entry EXCEPT ![r] = e]
    /\ Goto(r, "look")
    /\ UNCHANGED <<inbox, db, fs, phase, visiting, sum, budget>>

Done(r) ==
    /\ pc[r] = "pick" /\ todo[r] = {}
    /\ Leave(r)
    /\ UNCHANGED <<inbox, db, fs, budget>>

----------------------------------------------------------------------------
(* import_entry, for the entry at path P(r).  A step whose call finds what *)
(* it cannot work with goes on to "fail".                                   *)

\* An entry that was finalized before only has its source removed; any other
\* one is checked against the disk guard.
Look(r) ==
    /\ pc[r] = "look"
    /\ Proceed(r, IF entry[r].node = None THEN "stage"
                  ELSE IF Exists(entry[r].node) THEN "clean" ELSE "fail")
    /\ UNCHANGED fs

\* remove_file, for which a missing file is as good as a removed one.
Clean(r) ==
    /\ pc[r] = "clean"
    /\ source' = [source EXCEPT ![P(r)] = 0]
    /\ Goto(r, "mark")
    /\ UNCHANGED <<last, disposed, db, fs, phase, locals, budget>>

\* mark_imported; the foreign key refuses a node that has been purged.
MarkImported(r) ==
    /\ pc[r] = "mark"
    /\ IF Exists(entry[r].node)
       THEN /\ row' = [row EXCEPT ![P(r)].state = "imported",
                                  ![P(r)].node = entry[r].node]
            /\ Settle(r)
       ELSE Goto(r, "fail") /\ UNCHANGED <<row, locals, phase>>
    /\ UNCHANGED <<inbox, nodes, taken, enabled, fs, budget>>

\* stream_if_stable: size and time must be those of the entry ...
Stage(r) ==
    /\ pc[r] = "stage"
    /\ Proceed(r, IF source[P(r)] = 0 THEN "fail"
                  ELSE IF source[P(r)] # entry[r].seen THEN "reset" ELSE "copy")
    /\ UNCHANGED fs

\* ... before put_stream copies the file ...
Copy(r) ==
    /\ pc[r] = "copy"
    /\ IF source[P(r)] = 0
       THEN Proceed(r, "fail") /\ UNCHANGED staging
       ELSE /\ staging' = [staging EXCEPT ![P(r)] = source[P(r)]]
            /\ Proceed(r, "check")
    /\ UNCHANGED originals

\* ... and after it, or the copy is deleted.
Check(r) ==
    /\ pc[r] = "check"
    /\ IF source[P(r)] = entry[r].seen
       THEN Proceed(r, "stable") /\ UNCHANGED staging
       ELSE /\ staging' = [staging EXCEPT ![P(r)] = 0]
            /\ Proceed(r, "reset")
    /\ UNCHANGED originals

\* reset_import_discovered, whatever state the row is in.
Reset(r) ==
    /\ pc[r] = "reset"
    /\ SetState(P(r), "discovered")
    /\ Settle(r)
    /\ UNCHANGED <<inbox, nodes, taken, enabled, fs, budget>>

\* mark_import_stable, likewise.
MarkStable(r) ==
    /\ pc[r] = "stable"
    /\ SetState(P(r), "stable")
    /\ Goto(r, "sum")
    /\ UNCHANGED <<inbox, nodes, taken, enabled, fs, phase, locals, budget>>

\* checksum_object and detect_mime read the staged copy.
Checksum(r) ==
    /\ pc[r] = "sum"
    /\ sum' = [sum EXCEPT ![r] = staging[P(r)]]
    /\ Goto(r, IF staging[P(r)] = 0 THEN "fail" ELSE "importing")
    /\ UNCHANGED <<inbox, db, fs, phase, visiting, todo, entry, budget>>

\* mark_importing: WHERE state IN ('stable', 'importing')
MarkImporting(r) ==
    /\ pc[r] = "importing"
    /\ IF row[P(r)].state \in {"stable", "importing"}
       THEN SetState(P(r), "importing") /\ Goto(r, "move")
       ELSE Goto(r, "fail") /\ UNCHANGED row
    /\ UNCHANGED <<inbox, nodes, taken, enabled, fs, phase, locals, budget>>

\* rename(staging, original): it replaces whatever has that key.
Move(r) ==
    /\ pc[r] = "move"
    /\ IF staging[P(r)] = 0
       THEN Proceed(r, "fail") /\ UNCHANGED fs
       ELSE /\ originals' = [originals EXCEPT ![P(r)] = staging[P(r)]]
            /\ staging' = [staging EXCEPT ![P(r)] = 0]
            /\ Proceed(r, "commit")

\* finalize_import: node, file object, metadata job and the imported entry in
\* one transaction, under the entry's row lock.
Publishable(p) == row[p].state \in {"stable", "importing"} /\ NameFree(p)
Fresh(n) == nodes[n].status = "none"

Commit(r) ==
    LET n == CHOOSE m \in Nodes : Fresh(m) IN
    /\ pc[r] = "commit"
    /\ Publishable(P(r))
    /\ \E m \in Nodes : Fresh(m)
    /\ nodes' = [nodes EXCEPT ![n] = [status |-> "here", path |-> P(r),
                                      sum |-> sum[r], size |-> entry[r].seen]]
    /\ row' = [row EXCEPT ![P(r)].state = "imported", ![P(r)].node = n]
    /\ Goto(r, "unlink")
    /\ UNCHANGED <<inbox, taken, enabled, fs, phase, locals, budget>>

\* It finds the entry imported and answers with its node, or it fails.
CommitNothing(r) ==
    /\ pc[r] = "commit"
    /\ ~Publishable(P(r))
    /\ Proceed(r, IF row[P(r)].state = "imported" /\ row[P(r)].node # None
                  THEN "unlink" ELSE "undo")
    /\ UNCHANGED fs

\* The compensation: the object under the entry's key is deleted.
Undo(r) ==
    /\ pc[r] = "undo"
    /\ originals' = [originals EXCEPT ![P(r)] = 0]
    /\ Proceed(r, "fail")
    /\ UNCHANGED staging

\* remove_file, for which a missing file is an error.
Unlink(r) ==
    /\ pc[r] = "unlink"
    /\ source' = [source EXCEPT ![P(r)] = 0]
    /\ IF source[P(r)] = 0
       THEN Goto(r, "fail") /\ UNCHANGED <<locals, phase>>
       ELSE Settle(r)
    /\ UNCHANGED <<last, disposed, db, fs, budget>>

\* mark_import_failed, whatever state the row is in.
Fail(r) ==
    /\ pc[r] = "fail"
    /\ SetState(P(r), "failed")
    /\ Settle(r)
    /\ UNCHANGED <<inbox, nodes, taken, enabled, fs, budget>>

\* The call of the step returns an error.  A walk or a listing that fails ends
\* the scan, a transaction that fails is compensated, and the error of
\* mark_import_failed is ignored.
StepFails(r) ==
    /\ Inject("error")
    /\ \/ pc[r] = "walk" /\ Leave(r)
       \/ pc[r] = "fail" /\ Settle(r)
       \/ /\ pc[r] \in Importing \ {"fail"}
          /\ Goto(r, IF pc[r] = "commit" THEN "undo" ELSE "fail")
          /\ UNCHANGED <<locals, phase>>
    /\ UNCHANGED <<inbox, db, fs>>

\* The client hangs up.  (Nobody is waiting for the recovery.)
Drop(r) ==
    /\ Inject("disconnect")
    /\ phase = "up" /\ pc[r] # "idle"
    /\ Leave(r)
    /\ UNCHANGED <<inbox, db, fs>>

----------------------------------------------------------------------------
(* Start-up                                                                 *)

\* The process dies: every scan is gone, files and tables are as they were.
Crash ==
    /\ Inject("crash")
    /\ phase' = "down"
    /\ pc' = [r \in Requests |-> "idle"]
    /\ visiting' = [r \in Requests |-> {}]
    /\ todo' = [r \in Requests |-> {}]
    /\ entry' = [r \in Requests |-> NoEntry]
    /\ sum' = [r \in Requests |-> 0]
    /\ UNCHANGED <<inbox, db, fs>>

\* recover_interrupted_imports, before the first request is served, and
\* whether the source is enabled or not.
Recover(r) ==
    /\ phase = "down"
    /\ phase' = "recovering"
    /\ todo' = [todo EXCEPT ![r] = Listed({"importing"})]
    /\ Goto(r, "pick")
    /\ UNCHANGED <<inbox, db, fs, visiting, entry, sum, budget>>

\* The entries cannot be listed: a warning, and the server starts.
RecoverFails ==
    /\ Inject("error")
    /\ phase = "down" /\ phase' = "up"
    /\ UNCHANGED <<inbox, db, fs, pc, locals>>

----------------------------------------------------------------------------
(* The other handlers, and other users of the tables                        *)

\* PATCH /api/imports/sources/:id
SetEnabled(b) ==
    /\ phase = "up"
    /\ enabled' = b
    /\ UNCHANGED <<inbox, row, nodes, taken, fs, phase, pc, locals, budget>>

\* POST .../entries/:id/retry
Retry(p) ==
    /\ phase = "up"
    /\ row[p].state = "failed"
    /\ SetState(p, "discovered")
    /\ UNCHANGED <<inbox, nodes, taken, enabled, fs, phase, pc, locals, budget>>

\* A node made from an import is renamed, moved or trashed ...
NodeLeaves(n) ==
    /\ nodes[n].status = "here"
    /\ nodes' = [nodes EXCEPT ![n].status = "away"]
    /\ UNCHANGED <<inbox, row, taken, enabled, fs, phase, pc, locals, budget>>

\* ... and purged with its object; resulting_node_id is ON DELETE SET NULL.
Purge(n) ==
    LET p == nodes[n].path IN
    /\ nodes[n].status = "away"
    /\ nodes' = [nodes EXCEPT ![n].status = "purged"]
    /\ originals' = [originals EXCEPT ![p] = 0]
    /\ row' = [q \in Paths |->
                IF row[q].node = n THEN [row[q] EXCEPT !.node = None] ELSE row[q]]
    /\ disposed' = disposed \cup {p}
    /\ UNCHANGED <<source, last, taken, enabled, staging, phase, pc, locals, budget>>

\* Uploads, folders, renames and restores compete for the name.
OtherNodeTakesName(p) ==
    /\ p \notin taken /\ NameFree(p)
    /\ taken' = taken \cup {p}
    /\ UNCHANGED <<inbox, row, nodes, enabled, fs, phase, pc, locals, budget>>

OtherNodeFreesName(p) ==
    /\ p \in taken
    /\ taken' = taken \ {p}
    /\ UNCHANGED <<inbox, row, nodes, enabled, fs, phase, pc, locals, budget>>

----------------------------------------------------------------------------
(* The owner of the inbox                                                   *)

\* He leaves a file alone once its stability has been checked, and its path
\* once a node was made from it, unless Faults says otherwise.
Touchable(p) ==
    /\ "late_write" \in Faults
        \/ \A r \in Requests : P(r) = p => pc[r] \notin Checked
    /\ "reuse" \in Faults \/ \A n \in Nodes : nodes[n].path # p

Write(p) ==
    /\ last[p] < MaxVersion[p]
    /\ Touchable(p)
    /\ source' = [source EXCEPT ![p] = last[p] + 1]
    /\ last' = [last EXCEPT ![p] = @ + 1]
    /\ disposed' = disposed \ {p}
    /\ UNCHANGED <<db, fs, phase, pc, locals, budget>>

Remove(p) ==
    /\ source[p] # 0
    /\ Touchable(p)
    /\ source' = [source EXCEPT ![p] = 0]
    /\ disposed' = disposed \cup {p}
    /\ UNCHANGED <<last, db, fs, phase, pc, locals, budget>>

----------------------------------------------------------------------------

\* What a running scan does without failures.
Progress(r) ==
    \/ \E p \in Paths : Discover(r, p) \/ WalkFails(r, p)
    \/ ListPending(r)
    \/ Pick(r)
    \/ Done(r)
    \/ Look(r) \/ Clean(r) \/ MarkImported(r)
    \/ Stage(r) \/ Copy(r) \/ Check(r) \/ Reset(r)
    \/ MarkStable(r) \/ Checksum(r) \/ MarkImporting(r)
    \/ Move(r) \/ Commit(r) \/ CommitNothing(r) \/ Undo(r) \/ Unlink(r)
    \/ Fail(r)

Owner == \E p \in Paths : Write(p) \/ Remove(p)

Others ==
    \/ \E b \in BOOLEAN : SetEnabled(b)
    \/ \E p \in Paths : Retry(p)
    \/ \E p \in Contested : OtherNodeTakesName(p) \/ OtherNodeFreesName(p)
    \/ \E n \in Nodes : NodeLeaves(n) \/ Purge(n)

Next ==
    \/ \E r \in Requests :
        ScanStart(r) \/ Progress(r) \/ StepFails(r) \/ Drop(r) \/ Recover(r)
    \/ Crash \/ RecoverFails
    \/ Owner \/ Others

Spec == Init /\ [][Next]_vars

\* A running scan goes on, a dead process is started again, and the owner of
\* the inbox asks for scans as long as the source is enabled.
Fairness ==
    /\ \A r \in Requests : WF_vars(Progress(r))
    /\ WF_vars(\E r \in Requests : Recover(r))
    /\ SF_vars(\E r \in Requests : ScanStart(r))

FairSpec == Spec /\ Fairness

----------------------------------------------------------------------------
(* Properties                                                               *)

\* The newest file of a path, unless its owner disposed of it, is in the inbox
\* or in originals/, wherever a scan fails, is dropped or dies: "never deletes
\* a source before durable finalization", "a failure leaves the source in
\* place" (the order of import_entry_inner).
NothingLost ==
    \A p \in Paths : last[p] # 0 /\ p \notin disposed =>
        last[p] \in {source[p], originals[p]}

\* A node which is the only one ever made from its path, and which the entry
\* still knows, has the bytes its checksum was taken of: no later scan or
\* compensation touches the key it shares with its entry.
NodesIntact ==
    \A n \in Nodes :
        /\ Exists(n) /\ row[nodes[n].path].node = n
        /\ \A m \in Nodes \ {n} : nodes[m].path # nodes[n].path
        => originals[nodes[n].path] = nodes[n].sum

\* What is published was whole: the bytes are those of the file whose size and
\* time the entry recorded, although it was written while it was copied.
SizeAgrees == \A n \in Nodes : nodes[n].size = nodes[n].sum

\* While the source is enabled, every entry that awaits its import is
\* eventually imported or failed, whatever was dropped or died on it.
ImportsSettle ==
    []<>enabled =>
        \A p \in Paths : (row[p].state \in Pending)
                            ~> (row[p].state \in {"imported", "failed"})

\* "v1 never overwrites an existing node": a node keeps the bytes its checksum
\* was taken of.
NeverOverwritten ==
    \A n \in Nodes : Exists(n) => originals[nodes[n].path] = nodes[n].sum

=============================================================================
