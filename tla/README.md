# Strife: models, checks and proofs

Strife is a self-hosted cloud drive for one user: an HTTP API (Rust, Axum), a
worker process, PostgreSQL, a directory tree for file bodies and a web client.
This directory holds TLA+ models of the parts that keep its data: what they do,
in which steps, what may come between two steps, and what stays true. TLC
checks the models on small instances; TLAPS proves the most important
properties for every instance. `PROJECT.json` maps each definition to the lines
it translates and lists runs, mutants, findings, hazards and theorems.

Run a check with `tlc -workers 2 -config TreeTrash.cfg MCTree`, a proof with
`tlapm TreeProofs.tla`.

## 1. Inventory

### Components, their state and their operations

| Component | State | Operations | Model |
|---|---|---|---|
| Upload API (`crates/api/src/uploads.rs`) | handlers in flight and their locals | create, chunk, finalize, cancel; expiry sweep every 15 min | `Uploads` |
| Upload tables (`crates/db`) | `upload_sessions`, `upload_chunks` | `create_session`, `record_chunk`, `finalize_upload`, `cancel_session`, `expire_session` | `Uploads` |
| Storage (`crates/storage`) | `staging/`, `originals/`, `artifacts/` | `put_stream`, `write_range`, `move_object`, `delete`, `exists` | inside `Uploads`, `Tree` |
| Namespace (`crates/db`) | `nodes`, `favorites` | create, rename, move (one or many), favorites | `Tree`, `TreeRaces` |
| Trash (`crates/db`) | `trash_entries`, life cycle of nodes | trash (many), restore, request deletion, expiry sweep | `Tree` |
| Deletion (`crates/worker/src/deletion.rs`) | handlers in flight | list keys, delete objects, remove rows | `Tree`, artifacts in `Media` |
| Job queue (`crates/db`) | `jobs` | enqueue, claim, complete, fail, release | `Jobs` |
| Worker (`crates/worker/src/lib.rs`) | processors, shutdown flag | claim loop, reaper, trash sweep, drain | `Jobs` |
| Importer (`crates/importer`, `api/src/imports.rs`) | `import_entries`, `import_sources`, the watched inbox, objects under the entry's id | scan (walk, stage, check, publish, remove the source), recover at start, retry, enable | `Imports` |
| Previews (`api/src/files.rs`, `worker/src/metadata.rs`) | `derived_artifacts`, `artifacts/` | request, serve, generate, mark failed | `Media` |
| Metadata (`worker/src/metadata.rs`, `api/src/health.rs`) | `metadata_records`, `node_metadata`, `media_streams` | extract in several transactions, reprocess, status of a file | `Media` |
| Downloads (`api/src/files.rs`, `crates/storage`) | none | `parse_range`, `get_range`, 206, 404, 416 | `Ranges` |
| Listing of a folder (`api/src/folders.rs`, `crates/db`) | the cursor a client holds | pages in three sort orders, with filters | `Reading` |
| Web client uploads (`apps/web/src/uploads`) | queue, persisted sessions | upload, resume, cancel, create folders | guard `MayStart`; planned |
| Media extractors, health, usage, configuration, views, deployment | none to speak of | | not modelled |

### How they interact

- The API and the worker share PostgreSQL and the storage directory, nothing
  else. There are no messages between them: the API inserts rows into `jobs`
  and the worker polls. A scan of the inbox runs inside the request that asks for
  it, not in a job.
- A finalize moves bytes to `originals/` first and then inserts node, file
  object and metadata job and completes the session in one transaction.
- Putting nodes into the trash only changes rows. A deletion job, queued by the
  user or by the hourly sweep, removes objects first and rows last.
- An import uses the id of its entry, which there is one of per path, as key in
  `staging/` and in `originals/`. It moves the file to `originals/`, publishes it in
  one transaction, and then removes the source from the inbox.
- A request for a preview that is not there writes the artifact's row with a
  fresh key and queues a job; the worker stores the artifact under the key of the
  row and then marks the row ready. The client asks again.
- Foreign keys tie the parts together: removing a node cascades to its jobs,
  trash entry and favorite, is refused while it has children or is the target
  of an upload session, and sets `original_parent_id` to NULL.

### What is hard

Handlers interleave at every `.await`, and are dropped there when their client
disconnects. Statements, tools and deletions fail. The owner of the inbox
writes and removes files while they are read. Two stores (rows and files) change
one after the other. Jobs are leased, leases expire, handlers are run again.
Sweeps retry. Transactions run at READ COMMITTED and lock few rows. The list,
each with its line and the properties aimed at it, is "hazards" in
`PROJECT.json`.

### What makes each component correct

- Uploads: the ledger is exact; a file appears once, with every acknowledged
  byte, and never loses them; an active session can be resumed; no object is
  left behind; every abandoned session ends.
- Namespace and trash: active nodes are reachable from the root; everything in
  the trash can be restored or purged from the trash listing; nothing is purged
  before its thirty days unless the user says so, and afterwards it is.
- Deletion: objects go before rows, and only objects of condemned files.
- Jobs: one handler per job within a lease, true and final outcomes, and every
  job settles.
- Imports: a file leaves the inbox only when it is stored or its owner removes it;
  what is published is one whole file, and is not overwritten; every entry
  settles.
- Previews and metadata: what is ready is there; no worker changes it, and a
  request replaces it only by an artifact made anew; no stored artifact is without a
  row, but for those whose key a request replaced; "ready" is said of a file only when
  everything about it has been extracted; an artifact is not "generating" for ever, if
  the thumbnail of its file can be made.
- Reading: the range that was asked for is sent; a listing that is followed to its
  end has everything once.

## 2. Modules

`Uploads` translates the five handlers of `uploads.rs` with the transactions and
file operations they run. A handler occupies a slot `r`; `pc[r]` is its next
step and one step is one await on the database or the filesystem. Files are
inodes: `ChunkOpen` opens a name, `FinalizeMove` renames it, and a chunk that is
still writing follows the inode. The content of an inode is the set of positions
that hold the client's bytes. `Faults` switches on dropped handlers, failing
statements, failing deletions, failing renames back and expiry; `Shared` lets several
requests work on one session (two tabs, retries whose first attempt is still running).

`UploadContract` is what a client is promised: `Open`, `Acknowledge`, `Publish`,
`Withdraw` over acknowledged bytes and published content. `Uploads!KeepsContract`
states that the handlers implement it; the mapping reads the ledger as what is
acknowledged and `originals/` as content.

`Jobs` is the `jobs` table with one statement per step, processors, the reaper,
shutdown, crash and restart. Handlers are reduced to their result, except that a
permanent deletion may remove its node and with it all job rows of the node.

`QueueContract` is what the queue promises, without ids, leases and processes. An
item of work is a type of job and its node: it waits at most once, one worker has it
while it runs, and it ends as that worker says, or with its node; an item of which a
run has outlived its lease is loose, and anybody who runs or ran it may end it.
`Jobs!KeepsContract` reads an item from its one active row (`Current`), the worker's
item from a lease that is still its own (`Doing`), and what it is about to report from
its step. `Media` shortens the queue, and `Media!KeepsContract` states that what it
does to its job rows is what the same contract allows, with one worker per item
and no run that outlives its lease: both modules stand on one description of
the queue, and each is shown to implement it.

`Tree` is `nodes`, `trash_entries`, `favorites` and the objects of files. A
transaction is one step. The recursive queries are one operator, `Tree(roots,
among)`: the least set that contains the roots and is closed under children
among the given nodes; `Descendants`, `TrashedTree` and `Below` are instances.
The deletion handler takes a step for its key list, one per object and one for
the rows, and may fail at any of them and be tried again.

`NodeContract` is what is promised of each folder and file, without the tree: a file
has all its bytes from the moment it appears until it was condemned in the trash,
nothing condemned comes back, bytes go before rows, and what is trashed is no favorite.
`Tree!KeepsContract` maps `swept`, `asked` and `listed` (what the sweep, a user and a
deletion handler have condemned) to `condemned` and keeps the rest.

`TreeRaces` extends `Tree` and splits `update_folder` into its checks and its
UPDATE, for several requests.

`Imports` translates `scan`, `import_entry` and `recover` of the importer with
the statements they run. `pc[r]` is the next await of scan `r`; `row` has the
entry of each path. The files that the owner puts at a path are numbered, and
the number stands for size, time and content. `Copy` takes whatever is at the path at
that moment, `Check` is the second look at size and time, `Move`, `Commit` and
`Unlink` publish. Nodes that imports made can be moved, trashed and purged by
others, and names can be taken and freed. `Faults` switches on failing calls,
dropped scans, crashes, and three things that the code does not guard against:
`"overlap"` (a second scan while one runs), `"late_write"` (the source is
written after the second look) and `"reuse"` (a path is used again after a
node was made from it).

`Media` has the rows of `derived_artifacts`, one preview job and one metadata
job per node, the requests and the handlers. A handler goes through the kinds
thumbnail and preview in this order, and for each looks at the row, generates,
stores and records. A request reads the row, and serves a ready artifact; when it
cannot read the row or cannot open the file, for whatever reason, it writes a new key
and "generating" over the row, as it does for an artifact that is missing or failed
(`GetArtifact`, `Serve`, `Create`). The key that is taken out of a row while its file
is stored or being made is remembered in `replaced`. A deletion lists the keys, deletes
the original, then each artifact, then the rows, and may fail at each step and start
over. Of metadata it has the three transactions that follow an
extractor (`RecordCompleted`, `ReplaceStreams`, `FillColumns`) and
`ProcessingStatus`, what the API says of a file. The queue is that of `Jobs` in
short: an attempt counter and a lease that is lost with the process.
Switches, besides failing statements, tools, crashes and dropped requests: `"misread"`
(a row cannot be read or a file not opened), `"converter"` (making, storing or recording
an artifact fails that would succeed at another time), `"twice"` (two requests for one
artifact at a time), `"late"` (previews of a file whose deletion runs).

`Ranges` is `parse_range` as a function from the form of a header and the size
of the file to the range, the answer, and what the header asks for.
`Reading` extends it with the listing of a folder: `Page` is the statement
with its `WHERE`, `ORDER BY` and `LIMIT`, `walk` is a client that follows
`next_cursor`, and the other actions change the folder between two pages.

`MCUploads`, `MCJobs`, `MCTree`, `MCTreeRaces`, `MCImports`, `MCMedia` and
`MCReading` give names to model values, and define symmetry and view.
`UploadsProofs`, `UploadsClientProofs`, `JobsProofs`, `TreeProofs`, `ImportsProofs`,
`MediaProofs` and `ReadingProofs` hold the theorems. Definitions whose names end in
`_Something` under "Plausible bugs" are slips of one action each, unused by `Next`;
each property is shown to fail when one of them takes the place of the action.

### Correspondence notes

- Guards are the conditions and early returns of the code; a request that is
  refused without changing anything is no step.
- `FinalizeReplay` is the completed branch of `db::finalize_upload`;
  `FinalizeUndo` is the compensating rename, `FinalizeUndoFails` the same when it
  fails, which nobody looks at, and `FinalizeDiscard` the deletion that follows when
  the session has ended meanwhile. The transaction may end in a database error
  whatever the session has become.
- `RestoreNode` includes the search for the parent, the name check, the
  reactivation of the whole trashed tree and the removal of the one entry.
- `TrashNodes` with a batch that holds a folder and something below it makes an
  entry for the folder only. An entry left over fails the whole batch.
- `Restricted` is both foreign keys without a cascade that a purge can meet: of
  children that are not in the set, and of `upload_sessions.target_folder_id`.

- `Upserted` is the `ON CONFLICT` clause of `upsert_import_entry`: an entry that
  was imported becomes `discovered` again and forgets its node.
- `Look` and `Clean` are the branch of an entry that has a node already: only
  the source is left to remove.
- `Undo` deletes the object after a transaction that failed; `CommitNothing` is
  the transaction that finds the entry in another state, after which nothing is
  undone.
- `Look` in `Media` takes the key the row has now; `MarkFailed` and `Record` write
  that key back, whatever a request wrote meanwhile.
- `Create` is the upsert for a missing, a failed and a misread artifact alike; like
  the code it does not look again at the row that it overwrites.
- `Rows` looks the cursor's row up among the children, in the trash too; if it is
  not there the comparison is NULL and the page empty.

### Assumptions

- A transaction that reports an error has been rolled back, and one that
  reports success has committed; an acknowledgement lost in between is not
  modelled. (A finalize that met one would move a published object back.)
- A chunk writes only bytes of its own range. The code writes the surplus of a body
  that is longer than its range before it refuses it; that is left out.
- All paths of `Imports` are in one directory of the inbox; the folders that an
  import creates are those of `Tree`. A size and a time that are both unchanged
  mean that the file is unchanged.
- In `Media` a claimed job is run by one worker; `Jobs` has leases that run out
  while the handler runs. That aside the two agree: both implement
  `QueueContract`.
- In `Reading` a page is one snapshot, and its children have no subtrees.
- UUIDs are fresh. An id of a removed node stands for a new one.
- Files survive a crash of the process (power failures, unsynced data: no).
- In `Tree`, a transaction sees and changes one snapshot. For the ones that
  lock their rows or are single statements this is what PostgreSQL does; for
  `update_folder` `TreeRaces` shows the difference. `create_folder` looks at its parent,
  and `trash_nodes` searches below its roots, without locks that last; they are
  one step all the same, and what can come in between is not shown.
- `"late_upload"` (an upload completes although its folder is in the trash) and
  `"late_restore"` (an item comes back after its deletion was queued) are things
  the code permits. The first breaks `Rooted`, the second `KeepsContract`, in a few
  steps; the hazards name the lines. `TreeTrash` leaves both out to show that nothing
  else breaks them. With the first the contract is kept all the same, with both
  `FilesHaveBytes` holds: it exempts the files that a deletion handler has listed and
  that came back all the same, which is the one way an active file loses its bytes.
- `MonthPasses` lets thirty days go by for everything at once.
- The root has no name and is not renamed. In `Tree` artifacts are part of the
  bytes of their file; in `Media` files are deleted as `Tree` says. The sweep's
  limit of fifty entries is not reached.

## 3. Runs

| Run | Instance | Question and answer |
|---|---|---|
| `UploadsOneClient` | 2 sessions, 2 slots, 2 names, files of up to 2 bytes or of unknown size, no totals | With one client per session, and statements that fail: is what is published intact, is no object left behind, can every session be resumed, is the contract kept? Passes (963,301 states). |
| `UploadsRacing` | 1 session, 2 slots, all faults, shared | Does the ledger stay exact and publication unique when anything races with anything? Passes. |
| `UploadsSweep` | 2 sessions, all faults, fair sweep | Does every overdue session end? Passes. |
| `JobsQueue` | 2 jobs, 2 kinds, 1 node, 2 processors, 1 restart, 1 overrun, database errors | Leases, outcomes, uniqueness and progress of the queue, and its contract. Passes (454,087 states). |
| `TreeTrash` | root, 2 folders, 1 file, 2 names, failing handlers | Structure of tree and trash, and the contract of a node: favorites, trash, deletion, bytes and rows. Passes (607,822 states, about two minutes). |
| `TreePurge` | root, 1 folder, 1 file, 1 name, all faults: failing handlers, late uploads, late restores; fair sweep and handlers | Which active files can lose their bytes: only ones that a deletion had listed. Is what has expired in the end gone, unless a session holds it? Passes (75,426 states). |
| `TreeCycle` | root, 2 folders, 2 requests | "No folder cycles": violated by two concurrent moves. |
| `ImportsScan` | 2 paths, one written twice and its name contested, 1 scan at a time, 2 faults of: failing call, disconnect, crash | Is a file ever lost, published in part, or changed after it was published, and does every entry settle? Passes (876,836 states). |
| `ImportsReplace` | 1 path, 2 files one after the other, no faults | "V1 never overwrites an existing node": violated, the second file takes the key of the first. |
| `MediaPreviews` | 1 file whose preview cannot be made, 1 request, 1 worker, 4 keys, 1 fault of: failing call, tool, artifact, row or file misread, crash, dropped request | Artifacts, metadata and the status told of them, with retries, crashes, misread rows, reprocessing and deletion, and the contract of the queue. Passes (346,143 states). |
| `ReadingPages` | 3 files, 4 names, pages of 1 and 2, 2 changes in between; headers with numbers 0, 2, 3 and one too large, on files of 0 and 3 bytes | Is a listing complete and finite while its folder changes, and is what is sent what was asked for? Passes (427,419 states). |
| `ReadingMixed` | the same with a folder among the files | "Paginated children (cursor-based)", folders first: violated, the order and the cursor disagree. |

The violated runs of the table are the findings of `PROJECT.json`. Further
disagreements between code and documents have a configuration in this directory
that is not part of the listed runs:

| Configuration | Module | Property and what it contradicts | How it fails |
|---|---|---|---|
| `UploadsDisconnect.cfg` | `MCUploads` | `NoStrayOriginal`; `src/docs/flowchart.md:39` | a finalize is dropped after its rename, and nothing knows the object |
| `UploadsTwoTabs.cfg` | `MCUploads` | `SizeConfirmed`; `src/README.md:260` | a late duplicate chunk re-creates the staging file, a further finalize publishes it |
| `JobsQueueError.cfg` | `MCJobs` | `QueueErrorReturns`; comment at `src/crates/worker/src/lib.rs:138` | a processor that died of a database error is not noticed |
| `TreeRetention.cfg` | `MCTree` | `RetentionKept`; `src/README.md:250` | an entry that survives a restore purges its node too early |
| `TreeHeld.cfg` | `MCTree` | `DeletionHappens`; `src/README.md:251` | a folder that was ever uploaded to is never deleted |
| `ImportsOverlap.cfg` | `MCImports` | `NothingLost` with `"overlap"` | two scans share the staging and original keys of an entry, one deletes what the other published |
| `MediaDocx.cfg` | `MCMedia` | `PreviewsArrive`; `src/README.md:59` | no tool makes the thumbnail of a DOCX file, every job ends at it, and the preview stays "generating" however often it is asked for |

Four more configurations that are not listed pass: `UploadsDropped.cfg` (what holds of
one client whose handlers are dropped), `TreeLate.cfg` (the contract of a node with
late uploads), `MediaTwice.cfg` (two requests for one artifact at a time) and
`MediaFaults.cfg` (two faults in the life of a file).

Seen while modelling, and left as they are by the properties:

- The process dies between the commit of an import and the removal of its
  source: the next scan clears the node of the entry and imports the file once
  more, over the same key; if the name conflicts, the compensation deletes the
  published bytes. `NeverOverwritten` fails with `Faults = {"crash"}` and one
  fault too. The file itself is still in the inbox.
- A thumbnail that failed ends the job before the preview is looked at. If it failed
  once, the preview stays "generating" until someone asks for the thumbnail again. If
  it cannot be made at all (a DOCX file has no branch in `generate_thumbnail`), no
  job ever gets to the preview: see `MediaDocx.cfg`. `GenerationSettles` is about
  previews of files whose thumbnail can be made.
- A request that arrives when the running job is past its kind finds that job active
  and queues none: the artifact settles only because clients ask again.
- A row that cannot be read and a ready file that cannot be opened for a moment are
  treated like an artifact that does not exist: it gets a new key and is made
  again, and the file under the old key stays. So does the one of an artifact that
  was stored and could not be recorded, and the one that a second request for the same
  artifact replaces when it became ready meanwhile. `NoStrayArtifact` and
  `ArtifactStable` say that nothing else leaves a file behind or changes what is ready.
- `next_cursor` is returned for sorts that ignore it: following it gives the first
  page again. The model's client stops there (`"cut"`).
- A listing whose cursor row is renamed, moved away or purged skips or ends early.
- A number in a Range header that does not fit `u64` is answered 416.

### Bounds and why they are enough

Two requests and one session show every pair of racing handlers; two sessions show
competition for a name. Two byte positions tell apart first and last, disjoint and
overlapping ranges, and a hole. Two inodes beyond a session's first show a staging
file that is re-created after a rename. Two processors and two jobs of two kinds
show a job that is taken over and one that waits behind another; with one node both
jobs can be of one item, and the priorities of the two kinds say which is claimed
first; `MaxAttempts = 2` separates a retry from the last attempt. Two folders below
the root are a chain or siblings, which a move turns into each other; a file in
either is trashed before, with or after its folder. The third node of a chain is
needed for a stale entry, a leaf that was trashed first. Two files at one path show
a file that is replaced at any step of its import, two paths a scan that goes on
after a failure; two faults a failure in the retry of what failed. Four nodes are
more than the three files can make in a passing run. One file with one kind that
works and one that fails meets every branch of the preview handler; four keys are
the two of the rows, one that was replaced with its file left behind, and the one
that replaces it; one fault is any failure with the retries and requests that follow
it, and `MediaFaults.cfg` has two. In `TreePurge` one folder and one file under one
name show a deletion of either or of both, with the file coming back or completing
at any step of it. Pages of one and two of three rows show a full page, a page with
its extra row and a last page, and two changes one that removes the cursor's row and
one that adds a row before or behind it. The numbers in Range headers are the last
position, the length, one more, and zero. `MaxByte`, `MaxRestarts`, `MaxOverruns`,
`MaxVersion`, `MaxFaults` and `MaxChanges` bound what would otherwise grow.

`SYMMETRY` permutes names, keys, inodes and ids that are used alike and is left
out where liveness is checked. `VIEW` leaves out history that no property of
the run reads (in `MCTree`, `aged` and in which way a node was
condemned; in `MCUploads`, locals that the current step of a handler does not
read). `CHECK_DEADLOCK FALSE`: sessions, ids and restarts are finite, so every
instance ends.

### Fairness

- Uploads: weak fairness of the sweep's listing, since the interval timer keeps
  firing, and strong fairness of deletion and expiry, since storage and
  database errors are transient and the sweep starts over after each. Clients
  are under no fairness: they may stop at any time.
- Jobs: weak fairness of each processor (a loop that polls), of lapsing leases
  (time passes), of the reaper (a timer) and of restart (the service manager).
  A processor that has died takes no step, which is why `JobsSettle` assumes
  that some processor is alive again and again.
- Imports: strong fairness of requesting a scan (the owner, or a timer of theirs,
  keeps asking, whatever fails), weak fairness of a running scan and of recovery.
  The owner of the inbox is under no fairness.
- Media: weak fairness of answering a request, of the workers and of lost
  leases, and strong fairness of asking for each artifact, thumbnails too:
  `GenerationSettles` holds only because someone who wants a preview asks again.
  That is not enough where the thumbnail cannot be made.
- Reading: weak fairness of the next page; who changes the folder is bounded by
  `MaxChanges`.
- Tree: weak fairness of the sweep and of a handler's first step; strong
  fairness of deleting an object and of removing rows, since errors that come
  and go do not fail each attempt for ever.

## 4. Proofs

All theorems are for any constants that satisfy `ConstantsOK`.

**UploadsProofs.** The invariant adds to the types: ledger disjointness and
counting (the sum over a new range that overlaps no other), what each step of a
handler implies for its locals, that keys held by handlers, published keys and
names are distinct, and that a published key has its inode. Without the part on
keys `PublishedStored` is not inductive: another finalize could be about to
rename the published object back. `CompleteCorrect` needs, in addition, that a
range with a total fits the announced size; counting then makes it cover all.

**UploadsClientProofs.** For `InTurn`: no two transfer requests on one session at a
time, no session grows old, and, if clients hang up or a rename back may fail,
chunks carry the total, as those of the web client do. Cancels at any moment,
failing statements, handlers dropped at any `.await` and any number of sessions are
in. `ClientInv` adds to that invariant that no two handlers share a session and a
handler outlives its session only by a cancel (`Solo`), that no file has two names
and no handle reaches an original or another session's file (`PlacesOK`), what each
step of a chunk or a finalize knows of the bytes (`StagingOK`, `HeldOK`), and that
nothing lies past the bound (`BoundOK`). A finalize that undoes its move must put
back all the ledger claims, so what is in staging and what a handler holds are
preserved together.

A finalize that is dropped after its rename, or that fails to rename back, takes the bytes
with it. `Lost` is the state
it leaves: the staging file is gone and the ledger full, which, with totals, means that
every chunk would overlap (`NoMoreChunks`, from the counting of `FullLedger`). So nothing
creates an empty staging file for a later finalize to publish, which is why what is
published is intact (`IntactCorrect`), the contract is kept (`ContractCorrect`) and an
upload of which bytes are missing can be resumed (`UnfinishedCorrect`) although
handlers are dropped. That session can only be cancelled. `UploadsDropped.cfg`, not
among the listed runs, checks the three on an instance; without totals, or when the sweep
deletes the file of a session that is still used, TLC finds them violated.
For `OneClient` (nobody hangs up and every rename back works) no session is `Lost`: every
one can be resumed (`ResumeCorrect`) and no object is left behind (`NoStrayCorrect`).

`ContractCorrect` maps session creation, recording, publication and cancel to the
actions of `UploadContract`, and every other step, a dropped handler included, to a
stutter: what originals hold is equal to the checksums' bytes before and after, by
`PublishedIntact`.

**JobsProofs.** `OneHandler` is not inductive without what a handler's step says
of its row and its lease; outcomes need that a processor about to report success
has had it. `ContractCorrect`: every step is a step of `QueueContract` or leaves it
alone. An item is read from its active row by `CHOOSE`, so the unique index
(`ActiveUnique`) is what makes the mapping a function of the row that changes;
`OneHandler` makes a lease and its worker one; a report on a row that is no longer
leased changes nothing, and one on another's run is that of a loose item.
`TerminalCorrect` (a late report does not touch a finished job) no longer has a run
of its own, since it is part of what the contract checks.

**TreeProofs.** `Structure` joins `Shape` (no parent is missing), `Hangs` (active
nodes hang in active folders, but for files of late uploads, which hang in a folder
that a session names), `NoCycle`, `TopsListed` (the top of each trashed tree has an
entry) and `TargetsKept` (folders that sessions name keep their rows), and is
preserved by every step, whatever faults happen: `Reparent` shows that hanging a
subtree below a folder that is not in it makes no cycle, for which only the folders
matter. So `TypeOK`, `NoCycle`, `TrashListed` and `FavoritesActive` are proved with no
assumption on the faults, `Rooted` without `"late_upload"`. That a whole
tree is listed (`AllListed`) follows from its top by the absence of cycles, and needs
no induction over paths, because `Tree` is a least closed set.

`Served` holds whatever faults happen, too: what a handler may still delete has been
listed, and a file that is not gone has its bytes or has been listed. So an active
file without bytes is one that came back after a handler had listed it
(`BytesCorrect`), which is all that can be said of the code: `restore_node` does not
ask whether a deletion is queued or running.

The rest assumes that nothing comes back after it was condemned (`"late_restore"` off).
Uploads may complete into trees whose deletion is queued or runs, so trees do grow
between the list and the removal (`TreeGrows`), by files that are not condemned and on
no list. `Purges` is what holds: condemned nodes are in the trash, and so are the
folders of a tree whose deletion is under way (`Sentenced`); a handler has all that is
left of its tree's objects on its list and all of the tree condemned, unless an upload
session names a folder of the tree (`HeldOrListed`); no object outlives its row
(`NoLeak`). The folder that a session names stays in the tree, since condemned folders
neither move nor come back (`TargetsHold`), and the foreign key of the session holds up
every removal of rows as long as it is there. From `Served` and `Purges`: every
active file has its bytes (`StrictBytesCorrect`), no object is left without a row
(`NoLeakCorrect`), and each transaction and each deleted object is a step of
`NodeContract` (`ContractCorrect`).

**ImportsProofs.** The invariant `IInv` has, besides the types: that at most one
scan runs and each of its steps has an entry (`BaseInv`, `OneScan`), which file
each step's row, staging and original object hold (`VersionsOK`, `EntriesOK`), that
nodes are of different paths (`Distinct`), that an entry that made a node knows it
(`Remembered`), and that the newest file of a path is in the inbox, stored, or
carried by the running scan (`Carried`). `NothingLost`, `SizeAgrees` and
`NodesIntact` are then about states in which no scan carries anything. All but
`TypeOK` assume `Orderly`: none of `"overlap"`, `"late_write"` and `"reuse"`; with
any of them the runs above find a counterexample or the code has no guard.
Failures, dropped scans and crashes are allowed.

**MediaProofs.** For all failures, `IInv` has that a handler whose node exists has
its job leased and no other handler has the same job (`OneWorker`), what the record
and the facts of a file hold by each step of its extraction (`ExtractionOK`), that
no two artifacts have one key (`KeysApart`), and that what is about to be
recorded is stored (`PutOK`). `ReadyStored` needs the keys apart, or a deletion could
take the file of another, and that a deletion has only keys of its own node on its list
(`ErasingOK`); `ReadyIsComplete` follows from "its job is active, has failed, or all is
written". That a handler makes only what its row says is being generated, and that a
request overwrites only what it did not see ready (`MakingOK`), gives `ArtifactStable`
with all faults: no worker touches a ready row, and a request that replaces one
does so under a key nothing is stored under.
`NoStrayArtifact` assumes only that `"late"` is off. `StrayInv` adds that a deletion is
alone with its file and has all its stored artifacts on its list (`DeletionOK`), that
the key of a handler is that of its row or has been replaced (`KeysHeld`), and that a
row with another key than the handler at work on it has no file yet (`RowUnmade`),
without which the handler's last write would take the name of a stored file.
Misread rows, failing converters and concurrent requests are in. `ContractCorrect` holds
with all faults: with `OneWorker`, and because an idle item has no attempts and a removed
node gets no jobs (`JobsClear`), what happens to the two jobs of a file is a step of
`QueueContract`.

**ReadingProofs.** `RangesRight` goes through the forms of a header, for every size and
every number up to the largest; `RangeCorrect` lifts it to the steps. For the
listing, `IInv` says that a client has seen exactly the rows up to its cursor, of
those that stayed (`Progressed`). The lemmas are about the order: a page is the
front of the rows behind the cursor, the row asked for beyond it changes
nothing else, and a page that is not full is the last. `ListingCorrect` assumes
`OneKind`, that the children are all files or all folders: `ReadingMixed` refutes it
without.

Only model-checked: all liveness (`OverdueReaped`, `JobsSettle`,
`EmptiedInTime`, `ImportsSettle`, `GenerationSettles`, `PagingEnds`), since fairness
and ENABLED are beyond the prover.

## 5. Plan

1. Done: `Uploads`, `UploadContract`, `Jobs`, `Tree`, `TreeRaces`, `Imports`,
   `Media`, `Ranges`, `Reading`, and their proofs: types
   and safety of `Uploads`, `Jobs`, `Tree`, `Imports`, `Media` and `Reading`, and the
   refinements of `UploadContract`, `QueueContract` (twice) and `NodeContract`.
2. `Client`: the upload queue of the web client with folder creation, resumption
   and `missingRanges`, composed with `Uploads`.
3. `TreeRaces` taken further: `trash_nodes`, `move_folders` and the purge
   statement by statement with their row locks.
4. Proofs: what two clients on one session keep of `UploadsClientProofs`; which files
   previews made during a deletion leave behind.

## 6. Not modelled

- External programs (exiftool, ffprobe, Tika, LibreOffice, ImageMagick) and the
  parsing of what they print: no state of their own; that they fail is a choice in
  `Media`.
- HTTP details other than the range, wording and formats; which MIME types have
  a preview; the listings of trash, favorites, jobs and imports, which are one
  query each; usage and health reports; configuration; rendering and commands of
  the web client; deployment. None changes state that the properties speak of.
- Syncing of files and power failures, disk usage and the disk guard's arithmetic
  (that it refuses is a failing call).
- The folders that imports create below their destination.
- The queue of uploads in the web client (planned).
