------------------------------ MODULE Uploads ------------------------------
(***************************************************************************)
(* Resumable uploads into one folder: the HTTP handlers of                  *)
(* crates/api/src/uploads.rs, the transactions of crates/db/src/lib.rs they *)
(* run, the local-filesystem backend of crates/storage/src/lib.rs they      *)
(* write to, and the fifteen-minute expiry sweep.                           *)
(*                                                                          *)
(* A handler is a sequence of steps, one per `.await` at which it touches   *)
(* the database or the filesystem, so that handlers interleave here wherever *)
(* they can interleave there.  One database transaction is one step.        *)
(*                                                                          *)
(* Files are modelled with inodes: a directory entry names an inode, rename *)
(* moves the entry, and a chunk handler that has opened the staging file    *)
(* keeps writing to the inode wherever its name has gone.  The content of an*)
(* inode is the set of byte positions that hold the client's bytes; every   *)
(* other position below the end of the file reads as zero.                  *)
(***************************************************************************)
EXTENDS Integers, FiniteSets

CONSTANTS
    Sessions,   \* upload session ids (each also names its staging key)
    Requests,   \* slots for transfer requests in flight at the same time
    Names,      \* display names in the folder
    Inodes,     \* file bodies
    Keys,       \* originals/ keys (fresh UUIDs)
    MaxByte,    \* largest byte position a chunk may carry (a bound)
    Sizes,      \* what a client may announce as the size of its file
    Unknown,    \* "size" was left out of the create request
    Totals,     \* does a Content-Range carry "/total" (TRUE) or "/*" (FALSE)?
    None,       \* no inode, no key, no session
    Shared,     \* may several requests be in flight for one session?
    Faults      \* which of AllFaults the environment may inject

(* "disconnect": the client hangs up and the server drops the handler at its *)
(*    next await point; a crash of the process is every handler dropped.    *)
(* "db_error": a statement fails, and a transaction it is in rolls back.    *)
(* "storage_error": deleting a staging file fails in the sweep.             *)
(* "rename_error": a finalize cannot move an original back to staging.      *)
(* "expiry": UPLOAD_SESSION_TTL_HOURS pass while a session is active.       *)
AllFaults == {"disconnect", "db_error", "storage_error", "rename_error", "expiry"}

ASSUME ConstantsOK ==
    /\ MaxByte \in Nat
    /\ Sizes \subseteq Nat \cup {Unknown}
    /\ Unknown \notin Nat
    /\ Totals \subseteq BOOLEAN
    /\ None \notin Sessions \cup Inodes \cup Keys \cup Names
    /\ Shared \in BOOLEAN
    /\ Faults \subseteq AllFaults

VARIABLES
    \* PostgreSQL: upload_sessions, one row per session
    state,      \* active, completed, cancelled, expired; "none" before that
    name,       \* display_name
    expected,   \* expected_byte_size
    received,   \* received_bytes
    overdue,    \* sessions with expires_at < now()
    \* PostgreSQL: other tables
    chunks,     \* upload_chunks: the inclusive ranges recorded for a session
    files,      \* the nodes and file_objects rows that finalize inserted
    taken,      \* names of the folder's active nodes that others created
    \* STORAGE_ROOT
    staging,    \* staging/<key>: session -> inode
    originals,  \* originals/<key>: key -> inode
    data,       \* inode -> positions holding the client's bytes
    \* the API process: transfer handlers, one per slot, and their locals
    pc,         \* the step the handler is about to take
    of,         \* its session
    range,      \* chunk: the range in the header
    fd,         \* chunk: the staging file it has opened
    found,      \* finalize: received_bytes and checksum, as it read them
    key,        \* finalize: the original it has moved the bytes to
    \* the API process: the rest
    cancelling, \* sessions whose DELETE handler is between its two steps
    sweep       \* the expiry sweep: sessions listed, session being handled

rows == <<state, name, expected, received, overdue>>
db == <<rows, chunks, files, taken>>
fs == <<staging, originals, data>>
locals == <<of, range, fd, found, key>>
others == <<cancelling, sweep>>
vars == <<db, fs, pc, locals, others>>

----------------------------------------------------------------------------
(* Types                                                                    *)

States == {"none", "active", "completed", "cancelled", "expired"}
Steps == {"idle", "create", "chunk_open", "chunk_write", "chunk_record",
          "fin_sum", "fin_move", "fin_commit", "fin_undo", "fin_undo_gone",
          "fin_discard"}
ByteRange == [lo : Nat, hi : Nat]
Found == [size : Nat, sum : SUBSET Nat]
File == [session : Sessions, key : Keys, size : Nat, sum : SUBSET Nat]

NoRange == [lo |-> 0, hi |-> 0]
NotFound == [size |-> 0, sum |-> {}]

TypeOK ==
    /\ state \in [Sessions -> States]
    /\ name \in [Sessions -> Names \cup {None}]
    /\ expected \in [Sessions -> Nat \cup {Unknown}]
    /\ received \in [Sessions -> Nat]
    /\ overdue \subseteq Sessions
    /\ chunks \in [Sessions -> SUBSET ByteRange]
    /\ files \subseteq File
    /\ taken \subseteq Names
    /\ staging \in [Sessions -> Inodes \cup {None}]
    /\ originals \in [Keys -> Inodes \cup {None}]
    /\ data \in [Inodes -> SUBSET Nat]
    /\ pc \in [Requests -> Steps]
    /\ of \in [Requests -> Sessions \cup {None}]
    /\ range \in [Requests -> ByteRange]
    /\ fd \in [Requests -> Inodes \cup {None}]
    /\ found \in [Requests -> Found]
    /\ key \in [Requests -> Keys \cup {None}]
    /\ cancelling \subseteq Sessions
    /\ sweep \in [todo : SUBSET Sessions, cur : Sessions \cup {None}]

Init ==
    /\ state = [s \in Sessions |-> "none"]
    /\ name = [s \in Sessions |-> None]
    /\ expected = [s \in Sessions |-> Unknown]
    /\ received = [s \in Sessions |-> 0]
    /\ overdue = {}
    /\ chunks = [s \in Sessions |-> {}]
    /\ files = {}
    /\ taken = {}
    /\ staging = [s \in Sessions |-> None]
    /\ originals = [k \in Keys |-> None]
    /\ data = [i \in Inodes |-> {}]
    /\ pc = [r \in Requests |-> "idle"]
    /\ of = [r \in Requests |-> None]
    /\ range = [r \in Requests |-> NoRange]
    /\ fd = [r \in Requests |-> None]
    /\ found = [r \in Requests |-> NotFound]
    /\ key = [r \in Requests |-> None]
    /\ cancelling = {}
    /\ sweep = [todo |-> {}, cur |-> None]

----------------------------------------------------------------------------
(* Helpers                                                                  *)

\* The unique index on active sibling names, as everybody but this module's
\* own sessions sees it.
NameTaken(n) ==
    n \in taken \/ \E f \in files : name[f.session] = n

\* An inode no directory entry and no open handle refers to.
FreeInode(i) ==
    /\ \A s \in Sessions : staging[s] # i
    /\ \A k \in Keys : originals[k] # i
    /\ \A r \in Requests : fd[r] # i

\* A UUID nobody has drawn yet.
FreshKey(k) ==
    /\ originals[k] = None
    /\ \A f \in files : f.key # k
    /\ \A r \in Requests : key[r] # k

\* A staging key nobody has drawn yet.
FreshSession(s) ==
    /\ state[s] = "none"
    /\ staging[s] = None
    /\ \A r \in Requests : of[r] # s

Overlaps(a, b) == a.lo <= b.hi /\ a.hi >= b.lo
Overlapping(s, c) == \E d \in chunks[s] : Overlaps(d, c)

SizeReached_LastByteMissing(s) ==
    expected[s] = Unknown \/ received[s] >= expected[s] - 1

\* received_bytes agrees with expected_byte_size, when that is known.
SizeReached(s) == expected[s] \in {Unknown, received[s]}

\* A slot takes up a request for session s, moves on, or is free again.
Begin(r, step, s) ==
    /\ pc' = [pc EXCEPT ![r] = step]
    /\ of' = [of EXCEPT ![r] = s]
Goto(r, step) == pc' = [pc EXCEPT ![r] = step]
Finish(r) ==
    /\ Goto(r, "idle")
    /\ of' = [of EXCEPT ![r] = None]
    /\ range' = [range EXCEPT ![r] = NoRange]
    /\ fd' = [fd EXCEPT ![r] = None]
    /\ found' = [found EXCEPT ![r] = NotFound]
    /\ key' = [key EXCEPT ![r] = None]

\* The byte positions the ledger of s claims.
Covered(s) == UNION {c.lo .. c.hi : c \in chunks[s]}

----------------------------------------------------------------------------
(* Plausible bugs.  Each of these is an action of the handlers below with   *)
(* one slip in it; none belongs to Next.  The runs show that the properties *)
(* tell them from the real action.                                          *)

ChunkOpen_Truncating(r) ==
    /\ pc[r] = "chunk_open"
    /\ \E i \in Inodes :
        /\ i = staging[of[r]] \/ (staging[of[r]] = None /\ FreeInode(i))
        /\ staging' = [staging EXCEPT ![of[r]] = i]
        /\ data' = [data EXCEPT ![i] = {}]
        /\ fd' = [fd EXCEPT ![r] = i]
    /\ Goto(r, "chunk_write")
    /\ UNCHANGED <<db, originals, of, range, found, key, others>>

RecordIf(r, ok, count) ==
    /\ pc[r] = "chunk_record"
    /\ Finish(r)
    /\ IF ok THEN /\ chunks' = [chunks EXCEPT ![of[r]] = @ \cup {range[r]}]
                  /\ received' = [received EXCEPT ![of[r]] = @ + count]
             ELSE UNCHANGED <<chunks, received>>
    /\ UNCHANGED <<state, name, expected, overdue, files, taken, fs, others>>

RecordChunk_SwappedBounds(r) ==
    RecordIf(r, state[of[r]] = "active" /\ ~Overlapping(of[r], range[r]),
             range[r].lo - range[r].hi)
RecordChunk_NoRecheck(r) ==
    RecordIf(r, state[of[r]] = "active", range[r].hi - range[r].lo + 1)
RecordChunk_AnyState(r) ==
    RecordIf(r, ~Overlapping(of[r], range[r]), range[r].hi - range[r].lo + 1)

FinalizeMove_AfterCommit(r) ==
    /\ pc[r] = "fin_move"
    /\ staging[of[r]] # None
    /\ \E k \in Keys : FreshKey(k) /\ key' = [key EXCEPT ![r] = k]
    /\ Goto(r, "fin_commit")
    /\ UNCHANGED <<db, fs, of, range, fd, found, others>>

FinalizeRefuse_AlwaysDiscard(r) ==
    /\ pc[r] = "fin_commit"
    /\ \/ state[of[r]] \notin {"active", "completed"}
       \/ state[of[r]] = "active" /\ NameTaken(name[of[r]])
    /\ Goto(r, "fin_undo_gone")
    /\ UNCHANGED <<db, fs, locals, others>>

PublishIf(r, ok) ==
    /\ pc[r] = "fin_commit" /\ ok
    /\ files' = files \cup {[session |-> of[r], key |-> key[r],
                             size |-> found[r].size, sum |-> found[r].sum]}
    /\ state' = [state EXCEPT ![of[r]] = "completed"]
    /\ Finish(r)
    /\ UNCHANGED <<name, expected, received, overdue, chunks, taken, fs, others>>

FinalizePublish_EveryTime(r) ==
    PublishIf(r, state[of[r]] \in {"active", "completed"})

FinalizeUndo_Forgotten(r) ==
    /\ pc[r] \in {"fin_undo", "fin_undo_gone"}
    /\ Finish(r)
    /\ UNCHANGED <<db, fs, others>>

CancelSession_AnyState(s) ==
    /\ state[s] # "none"
    /\ state' = [state EXCEPT ![s] = "cancelled"]
    /\ cancelling' = cancelling \cup {s}
    /\ UNCHANGED <<name, expected, received, overdue, chunks, files, taken, fs,
                   pc, locals, sweep>>

SweepDelete_MissingIsError(s) ==
    /\ s \in sweep.todo /\ sweep.cur = None
    /\ staging' = [staging EXCEPT ![s] = None]
    /\ sweep' = IF staging[s] = None
                THEN [todo |-> sweep.todo \ {s}, cur |-> None]
                ELSE [todo |-> sweep.todo, cur |-> s]
    /\ UNCHANGED <<db, originals, data, pc, locals, cancelling>>

----------------------------------------------------------------------------
(* POST /api/uploads                                                        *)

\* Name check, then an empty staging object under a new key.  (A refusal -
\* inactive folder, name taken, disk guard - leaves nothing behind.)
CreateUpload(r, s, n, size) ==
    /\ pc[r] = "idle"
    /\ FreshSession(s)
    /\ ~NameTaken(n)
    /\ \E i \in Inodes :
        /\ FreeInode(i)
        /\ staging' = [staging EXCEPT ![s] = i]
        /\ data' = [data EXCEPT ![i] = {}]
    /\ Begin(r, "create", s)
    /\ name' = [name EXCEPT ![s] = n]
    /\ expected' = [expected EXCEPT ![s] = size]
    /\ UNCHANGED <<state, received, overdue, chunks, files, taken, originals,
                   range, fd, found, key, others>>

\* upload_sessions_active_folder_name_unique
SessionNameFree(s) ==
    \A t \in Sessions \ {s} : state[t] = "active" => name[t] # name[s]

CreateSession(r) ==
    /\ pc[r] = "create"
    /\ SessionNameFree(of[r])
    /\ state' = [state EXCEPT ![of[r]] = "active"]
    /\ Finish(r)
    /\ UNCHANGED <<name, expected, received, overdue, chunks, files, taken, fs,
                   others>>

\* The insert fails: the staging object is deleted again.
CreateSessionFails(r) ==
    /\ pc[r] = "create"
    /\ ~SessionNameFree(of[r]) \/ "db_error" \in Faults
    /\ staging' = [staging EXCEPT ![of[r]] = None]
    /\ Finish(r)
    /\ UNCHANGED <<db, originals, data, others>>

----------------------------------------------------------------------------
(* PATCH /api/uploads/:id                                                   *)

\* Without Shared, one client works on a session, one request at a time.
MayStart(r, s) ==
    /\ pc[r] = "idle"
    /\ state[s] = "active"
    /\ Shared \/ \A q \in Requests : of[q] # s

\* Header and ledger are checked against a snapshot of the session.  A range
\* with a total must lie below it and the total must be the announced size.
ChunkStart(r, s, c, total) ==
    /\ MayStart(r, s)
    /\ total => expected[s] \in Nat /\ c.hi < expected[s]
    /\ ~Overlapping(s, c)
    /\ Begin(r, "chunk_open", s)
    /\ range' = [range EXCEPT ![r] = c]
    /\ UNCHANGED <<db, fs, fd, found, key, others>>

\* write_range opens with create(true).truncate(false): a staging file that
\* has gone comes back empty.
ChunkOpen(r) ==
    /\ pc[r] = "chunk_open"
    /\ \/ /\ staging[of[r]] # None
          /\ fd' = [fd EXCEPT ![r] = staging[of[r]]]
          /\ UNCHANGED <<staging, data>>
       \/ /\ staging[of[r]] = None
          /\ \E i \in Inodes :
              /\ FreeInode(i)
              /\ staging' = [staging EXCEPT ![of[r]] = i]
              /\ data' = [data EXCEPT ![i] = {}]
              /\ fd' = [fd EXCEPT ![r] = i]
    /\ Goto(r, "chunk_write")
    /\ UNCHANGED <<db, originals, of, range, found, key, others>>

\* The body arrives up to position n; a body shorter than its range is a 400.
ChunkWrite(r) ==
    /\ pc[r] = "chunk_write"
    /\ \E n \in range[r].lo - 1 .. range[r].hi :
        /\ data' = [data EXCEPT ![fd[r]] = @ \cup (range[r].lo .. n)]
        /\ \/ /\ n = range[r].hi
              /\ Goto(r, "chunk_record")
              /\ fd' = [fd EXCEPT ![r] = None]
              /\ UNCHANGED <<of, range, found, key>>
           \/ n # range[r].hi /\ Finish(r)
    /\ UNCHANGED <<db, staging, originals, others>>

\* record_chunk: state and overlap are checked again under FOR UPDATE.
RecordChunk(r) ==
    /\ pc[r] = "chunk_record"
    /\ Finish(r)
    /\ IF state[of[r]] = "active" /\ ~Overlapping(of[r], range[r])
       THEN /\ chunks' = [chunks EXCEPT ![of[r]] = @ \cup {range[r]}]
            /\ received' = [received EXCEPT
                                ![of[r]] = @ + (range[r].hi - range[r].lo + 1)]
       ELSE UNCHANGED <<chunks, received>>
    /\ UNCHANGED <<state, name, expected, overdue, files, taken, fs, others>>

----------------------------------------------------------------------------
(* POST /api/uploads/:id/finalize                                           *)

\* received_bytes is read once and becomes file_objects.byte_size.
FinalizeRead(r, s) ==
    /\ MayStart(r, s)
    /\ SizeReached(s)
    /\ Begin(r, "fin_sum", s)
    /\ found' = [found EXCEPT ![r] = [size |-> received[s], sum |-> {}]]
    /\ UNCHANGED <<db, fs, range, fd, key, others>>

\* exists, then checksum_reader over the staging file.
FinalizeChecksum(r) ==
    /\ pc[r] = "fin_sum"
    /\ \/ staging[of[r]] = None /\ Finish(r)
       \/ /\ staging[of[r]] # None
          /\ found' = [found EXCEPT ![r] = [size |-> found[r].size,
                                            sum |-> data[staging[of[r]]]]]
          /\ Goto(r, "fin_move")
          /\ UNCHANGED <<of, range, fd, key>>
    /\ UNCHANGED <<db, fs, others>>

\* detect_mime and move_object(staging, original): both fail on a missing file.
FinalizeMove(r) ==
    /\ pc[r] = "fin_move"
    /\ \/ /\ staging[of[r]] = None
          /\ Finish(r)
          /\ UNCHANGED <<staging, originals>>
       \/ /\ staging[of[r]] # None
          /\ \E k \in Keys :
              /\ FreshKey(k)
              /\ originals' = [originals EXCEPT ![k] = staging[of[r]]]
              /\ key' = [key EXCEPT ![r] = k]
          /\ staging' = [staging EXCEPT ![of[r]] = None]
          /\ Goto(r, "fin_commit")
          /\ UNCHANGED <<of, range, fd, found>>
    /\ UNCHANGED <<db, data, others>>

\* The transaction finds the session completed and answers with its node; the
\* object this handler has just moved keeps its new key.
FinalizeReplay(r) ==
    /\ pc[r] = "fin_commit"
    /\ state[of[r]] = "completed"
    /\ Finish(r)
    /\ UNCHANGED <<db, fs, others>>

\* NotActive, Incomplete, NameConflict or, whatever the session is, a database
\* error: rolled back.
FinalizeRefuse(r) ==
    /\ pc[r] = "fin_commit"
    /\ \/ state[of[r]] \notin {"active", "completed"} /\ Goto(r, "fin_undo_gone")
       \/ /\ \/ state[of[r]] = "active"
                /\ (~SizeReached(of[r]) \/ NameTaken(name[of[r]]))
             \/ "db_error" \in Faults
          /\ Goto(r, "fin_undo")
    /\ UNCHANGED <<db, fs, locals, others>>

\* Node, file object, metadata job and completed session in one commit.
FinalizePublish(r) ==
    /\ pc[r] = "fin_commit"
    /\ state[of[r]] = "active"
    /\ SizeReached(of[r])
    /\ ~NameTaken(name[of[r]])
    /\ files' = files \cup {[session |-> of[r], key |-> key[r],
                             size |-> found[r].size, sum |-> found[r].sum]}
    /\ state' = [state EXCEPT ![of[r]] = "completed"]
    /\ Finish(r)
    /\ UNCHANGED <<name, expected, received, overdue, chunks, taken, fs, others>>

\* After the compensating rename, whether or not it worked.
AfterUndo(r) ==
    \/ pc[r] = "fin_undo" /\ Finish(r)
    \/ /\ pc[r] = "fin_undo_gone"
       /\ Goto(r, "fin_discard")
       /\ key' = [key EXCEPT ![r] = None]
       /\ UNCHANGED <<of, range, fd, found>>

\* It replaces a staging file created meanwhile.
FinalizeUndo(r) ==
    /\ AfterUndo(r)
    /\ staging' = [staging EXCEPT ![of[r]] = originals[key[r]]]
    /\ originals' = [originals EXCEPT ![key[r]] = None]
    /\ UNCHANGED <<db, data, others>>

\* Nobody looks at its error: the object stays in originals/.
FinalizeUndoFails(r) ==
    /\ "rename_error" \in Faults
    /\ AfterUndo(r)
    /\ UNCHANGED <<db, fs, others>>

\* The session, read again, is cancelled or expired: its bytes are deleted.
FinalizeDiscard(r) ==
    /\ pc[r] = "fin_discard"
    /\ \/ staging' = [staging EXCEPT ![of[r]] = None]
       \/ "db_error" \in Faults /\ UNCHANGED staging
    /\ Finish(r)
    /\ UNCHANGED <<db, originals, data, others>>

----------------------------------------------------------------------------
(* DELETE /api/uploads/:id                                                  *)

\* cancel_session, then the handler still has the staging file to delete.
CancelSession(s) ==
    /\ state[s] \in {"active", "cancelled"}
    /\ state' = [state EXCEPT ![s] = "cancelled"]
    /\ cancelling' = cancelling \cup {s}
    /\ UNCHANGED <<name, expected, received, overdue, chunks, files, taken, fs,
                   pc, locals, sweep>>

CancelDelete(s) ==
    /\ s \in cancelling
    /\ staging' = [staging EXCEPT ![s] = None]
    /\ cancelling' = cancelling \ {s}
    /\ UNCHANGED <<db, originals, data, pc, locals, sweep>>

----------------------------------------------------------------------------
(* cleanup_expired_uploads, every fifteen minutes                           *)

SweepIdle == sweep.todo = {} /\ sweep.cur = None

SweepList ==
    LET due == {s \in overdue : state[s] = "active"} IN
    /\ SweepIdle
    /\ due # {}
    /\ sweep' = [todo |-> due, cur |-> None]
    /\ UNCHANGED <<db, fs, pc, locals, cancelling>>

\* The staging file goes first.
SweepDelete(s) ==
    /\ s \in sweep.todo
    /\ sweep.cur = None
    /\ staging' = [staging EXCEPT ![s] = None]
    /\ sweep' = [todo |-> sweep.todo, cur |-> s]
    /\ UNCHANGED <<db, originals, data, pc, locals, cancelling>>

\* It could not be deleted: the session is left for the next sweep.
SweepSkip(s) ==
    /\ "storage_error" \in Faults
    /\ s \in sweep.todo
    /\ sweep.cur = None
    /\ sweep' = [todo |-> sweep.todo \ {s}, cur |-> None]
    /\ UNCHANGED <<db, fs, pc, locals, cancelling>>

\* expire_session: a session that is no longer active keeps its state.
SweepExpire(s) ==
    /\ sweep.cur = s
    /\ state' = [state EXCEPT
                    ![s] = IF @ = "active" /\ s \in overdue THEN "expired" ELSE @]
    /\ sweep' = [todo |-> sweep.todo \ {s}, cur |-> None]
    /\ UNCHANGED <<name, expected, received, overdue, chunks, files, taken, fs,
                   pc, locals, cancelling>>

\* expire_session fails: the error ends this sweep, the deleted file stays so.
SweepAbort ==
    /\ Faults \cap {"db_error", "disconnect"} # {}
    /\ sweep.cur # None
    /\ sweep' = [todo |-> {}, cur |-> None]
    /\ UNCHANGED <<db, fs, pc, locals, cancelling>>

----------------------------------------------------------------------------
(* The environment                                                          *)

\* now() passes expires_at.
DeadlinePasses(s) ==
    /\ "expiry" \in Faults
    /\ state[s] = "active"
    /\ s \notin overdue
    /\ overdue' = overdue \cup {s}
    /\ UNCHANGED <<state, name, expected, received, chunks, files, taken, fs,
                   pc, locals, others>>

\* A transfer handler is dropped at an await point: its client has gone, or
\* the process has died, or a statement of a chunk or finalize step failed.
Drop(r) ==
    /\ "disconnect" \in Faults
    /\ pc[r] # "idle"
    /\ Finish(r)
    /\ UNCHANGED <<db, fs, others>>

DropCancel(s) ==
    /\ "disconnect" \in Faults
    /\ s \in cancelling
    /\ cancelling' = cancelling \ {s}
    /\ UNCHANGED <<db, fs, pc, locals, sweep>>

\* Folder creation, rename, move, restore and import compete for names.
OtherNodeTakesName(n) ==
    /\ ~NameTaken(n)
    /\ taken' = taken \cup {n}
    /\ UNCHANGED <<rows, chunks, files, fs, pc, locals, others>>

OtherNodeFreesName(n) ==
    /\ n \in taken
    /\ taken' = taken \ {n}
    /\ UNCHANGED <<rows, chunks, files, fs, pc, locals, others>>

----------------------------------------------------------------------------

Ranges == {c \in [lo : 0 .. MaxByte, hi : 0 .. MaxByte] : c.lo <= c.hi}

Handler(r) ==
    \/ \E s \in Sessions, n \in Names, size \in Sizes : CreateUpload(r, s, n, size)
    \/ CreateSession(r)
    \/ CreateSessionFails(r)
    \/ \E s \in Sessions, c \in Ranges, total \in Totals :
           ChunkStart(r, s, c, total)
    \/ ChunkOpen(r)
    \/ ChunkWrite(r)
    \/ RecordChunk(r)
    \/ \E s \in Sessions : FinalizeRead(r, s)
    \/ FinalizeChecksum(r)
    \/ FinalizeMove(r)
    \/ FinalizeReplay(r)
    \/ FinalizeRefuse(r)
    \/ FinalizePublish(r)
    \/ FinalizeUndo(r)
    \/ FinalizeUndoFails(r)
    \/ FinalizeDiscard(r)
    \/ Drop(r)

Cancel(s) == CancelSession(s) \/ CancelDelete(s) \/ DropCancel(s)

Sweep ==
    \/ SweepList
    \/ \E s \in Sessions : SweepDelete(s) \/ SweepSkip(s) \/ SweepExpire(s)
    \/ SweepAbort

Next ==
    \/ \E r \in Requests : Handler(r)
    \/ \E s \in Sessions : Cancel(s) \/ DeadlinePasses(s)
    \/ Sweep
    \/ \E n \in Names : OtherNodeTakesName(n) \/ OtherNodeFreesName(n)

Spec == Init /\ [][Next]_vars

\* The interval timer keeps firing, and storage and database errors are
\* transient: what the sweep retries for ever it eventually gets done.
SweepFairness ==
    /\ WF_vars(SweepList)
    /\ \A s \in Sessions : SF_vars(SweepDelete(s)) /\ SF_vars(SweepExpire(s))

FairSpec == Spec /\ SweepFairness

----------------------------------------------------------------------------
(* Properties                                                               *)

\* The ledger of a session is exact whatever requests race on it: recorded
\* ranges never overlap and received_bytes counts the positions they cover
\* (record_chunk's second overlap check under FOR UPDATE).
LedgerDisjoint ==
    \A s \in Sessions : \A a, b \in chunks[s] : Overlaps(a, b) => a = b
LedgerCounts ==
    \A s \in Sessions : received[s] = Cardinality(Covered(s))
LedgerExact == LedgerDisjoint /\ LedgerCounts

\* finalize_upload publishes a session exactly when it completes it, once, and
\* no two nodes of the folder ever share a name or a storage key, whichever
\* of the racing finalizes, renames and imports commits first.
PublishedOnce ==
    /\ \A s \in Sessions :
        state[s] = "completed" <=> \E f \in files : f.session = s
    /\ \A f, g \in files : f # g =>
        /\ f.session # g.session
        /\ f.key # g.key
        /\ name[f.session] # name[g.session]
    /\ \A f \in files : name[f.session] \notin taken

\* The bytes of a published file are in originals/ under its key: no rename,
\* compensation, cancel or sweep, on any interleaving and after any dropped
\* handler, takes them away ("bytes first, then the transaction").
PublishedStored ==
    \A f \in files : originals[f.key] # None

\* A session that has left "active" never changes state or ledger again.
TerminalForever ==
    [][\A s \in Sessions :
         state[s] \in {"completed", "cancelled", "expired"} =>
            state'[s] = state[s] /\ chunks'[s] = chunks[s]]_vars

\* With a known size and totals on every chunk, a session completes only when
\* the ledger covers the file from its first byte to its last.
CompleteLedger ==
    \A s \in Sessions :
        state[s] = "completed" /\ expected[s] # Unknown =>
            Covered(s) = 0 .. expected[s] - 1

\* The original of a published file still holds the bytes its checksum was
\* taken of, and they include every byte the ledger acknowledged.
PublishedIntact ==
    \A f \in files :
        /\ data[originals[f.key]] = f.sum
        /\ Covered(f.session) \subseteq f.sum
        /\ f.size = Cardinality(Covered(f.session))

\* "Verify: confirm size where known": a file published for a session with an
\* announced size is that long.  (It is not: with two clients on one session,
\* UploadsTwoTabs.cfg, a late duplicate chunk leaves a short file to publish.)
SizeConfirmed ==
    \A f \in files : expected[f.session] # Unknown =>
        LET size == expected[f.session] IN
        /\ f.sum \subseteq 0 .. size - 1
        /\ size > 0 => size - 1 \in f.sum

\* The finalize handler that has the bytes of s under its own key, if any.
Holding(s) == {r \in Requests : of[r] = s /\ key[r] # None}

\* Every object under originals/ belongs to a published file or to the
\* finalize handler that is about to publish it or to move it back.
NoStrayOriginal ==
    \A k \in Keys : originals[k] # None =>
        \/ \E f \in files : f.key = k
        \/ \E r \in Requests : key[r] = k

\* An active session can be resumed from its ledger: the bytes it claims to
\* have received are on disk, in staging/ or in the hands of a finalize.
Resumable ==
    \A s \in Sessions : state[s] = "active" =>
        \/ /\ staging[s] # None
           /\ Covered(s) \subseteq data[staging[s]]
        \/ \E r \in Holding(s) : Covered(s) \subseteq data[originals[key[r]]]

\* An upload of which bytes are missing can be resumed, wherever the handlers
\* of its client were dropped.
UnfinishedResumable ==
    \A s \in Sessions : state[s] = "active" /\ ~SizeReached(s) =>
        staging[s] # None /\ Covered(s) \subseteq data[staging[s]]

\* The handlers keep the promise of UploadContract: a session is what its row
\* says, acknowledged is what the ledger covers, and the content of a file is
\* what originals/ holds under its key.
Contract == INSTANCE UploadContract WITH
    Bytes <- 0 .. MaxByte,
    acked <- [s \in Sessions |-> Covered(s)],
    content <- [s \in Sessions |->
                  UNION {data[originals[f.key]] : f \in {g \in files : g.session = s}}]
KeepsContract == Contract!Spec

\* The sweep gets rid of every session its owner has walked away from.
OverdueReaped ==
    \A s \in Sessions :
        (s \in overdue /\ state[s] = "active")
            ~> (state[s] # "active")

=============================================================================
