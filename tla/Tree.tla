------------------------------- MODULE Tree -------------------------------
(***************************************************************************)
(* The namespace: folders and files (nodes), trash, favorites and permanent *)
(* deletion, as the transactions of crates/db/src/lib.rs change them, with  *)
(* the deletion handler of crates/worker/src/deletion.rs working through    *)
(* storage between two of them.                                             *)
(*                                                                          *)
(* A transaction is one step here; TreeRaces takes folder updates apart.    *)
(* A handler that deletes storage objects is a step per object.  Rows of a  *)
(* removed node are gone, and its id stands for a fresh one afterwards.     *)
(***************************************************************************)
EXTENDS Integers, FiniteSets

CONSTANTS
    Folders,    \* ids that folders may have
    Files,      \* ids that files may have
    Root,       \* ROOT_NODE_ID
    Names,
    None,
    Faults      \* which of AllFaults may happen

(* "worker_error": storage refuses a deletion, or the worker dies.          *)
(* "late_upload": a session completes when its folder is in the trash.      *)
(* "late_restore": a node comes back after it was condemned.                *)
AllFaults == {"worker_error", "late_upload", "late_restore"}

Nodes == Folders \cup Files

ASSUME ConstantsOK ==
    /\ Folders \cap Files = {}
    /\ Root \in Folders
    /\ None \notin Nodes
    /\ Faults \subseteq AllFaults

VARIABLES
    \* nodes
    life,       \* lifecycle_state; "absent" without a row
    parent,     \* parent_id
    name,
    \* trash_entries
    entries,    \* nodes with a row
    origin,     \* original_parent_id
    due,        \* rows with scheduled_purge_at <= now()
    \* other tables
    favorites,
    targets,    \* folders that an upload session names (no row is ever deleted)
    \* STORAGE_ROOT
    bytes,      \* files whose original is in storage
    \* permanent_deletion jobs and their handlers
    purge,      \* per target node: none, queued, or the handler at work
    keys,       \* files whose objects the handler still has to delete
    \* history
    aged,       \* nodes that have been in the trash for thirty days
    swept,      \* nodes that the trash sweep has condemned
    asked,      \* nodes that a user has condemned
    listed      \* nodes that a deletion handler has listed

rows == <<life, parent, name>>
trash == <<entries, origin, due>>
deletion == <<purge, keys>>
sentences == <<swept, asked, listed>>
history == <<aged, sentences>>
vars == <<rows, trash, favorites, targets, bytes, deletion, history>>

TypeOK ==
    /\ life \in [Nodes -> {"absent", "active", "trashed"}]
    /\ parent \in [Nodes -> Folders \cup {None}]
    /\ name \in [Nodes -> Names \cup {None}]
    /\ \A n \in Nodes \ {Root} : life[n] # "absent" => parent[n] # None
    /\ entries \subseteq Nodes
    /\ origin \in [Nodes -> Folders \cup {None}]
    /\ due \subseteq entries
    /\ favorites \subseteq Nodes
    /\ targets \subseteq Folders
    /\ bytes \subseteq Files
    /\ purge \in [Nodes -> {"none", "queued", "deleting"}]
    /\ keys \in [Nodes -> SUBSET Files]
    /\ aged \subseteq Nodes
    /\ swept \subseteq Nodes /\ asked \subseteq Nodes /\ listed \subseteq Nodes

Init ==
    /\ life = [n \in Nodes |-> IF n = Root THEN "active" ELSE "absent"]
    /\ parent = [n \in Nodes |-> None]
    /\ name = [n \in Nodes |-> None]
    /\ entries = {}
    /\ origin = [n \in Nodes |-> None]
    /\ due = {}
    /\ favorites = {}
    /\ targets = {}
    /\ bytes = {}
    /\ purge = [n \in Nodes |-> "none"]
    /\ keys = [n \in Nodes |-> {}]
    /\ aged = {} /\ swept = {} /\ asked = {} /\ listed = {}

----------------------------------------------------------------------------
(* Helpers                                                                  *)

Active == {n \in Nodes : life[n] = "active"}
Trashed == {n \in Nodes : life[n] = "trashed"}

ActiveFolder(d) == d \in Folders /\ life[d] = "active"

\* What the recursive queries return: the roots and, transitively, the
\* children that are among the given nodes.
Closed(S, among) == \A c \in among : parent[c] \in S => c \in S
Tree(roots, among) ==
    LET within == roots \cup among IN
    {n \in within : \A S \in SUBSET within :
        roots \subseteq S /\ Closed(S, among) => n \in S}

Descendants(n) == Tree({n}, Active)
Below(n) == Tree({n}, Nodes)
TrashedTree(n) == IF life[n] = "trashed" THEN Tree({n}, Trashed) ELSE {}

\* nodes_active_sibling_name_unique: would these nodes, active with these
\* parents and names, leave every active sibling name unique?
SiblingsUnique(live, up, called) ==
    \A m, n \in live : up[m] = up[n] /\ called[m] = called[n] => m = n

\* An id that nothing refers to.
FreshId(n) ==
    /\ life[n] = "absent"
    /\ purge[n] = "none"
    /\ n \notin bytes
    /\ \A m \in Nodes : n \notin keys[m]

\* A row for a new node under folder d.
Insert(n, d, called) ==
    /\ FreshId(n)
    /\ \A m \in Active : parent[m] = d => name[m] # called
    /\ life' = [life EXCEPT ![n] = "active"]
    /\ parent' = [parent EXCEPT ![n] = d]
    /\ name' = [name EXCEPT ![n] = called]

Condemned == swept \cup asked \cup listed

----------------------------------------------------------------------------
(* Plausible bugs, one slip each; none belongs to Next.                     *)

MayUpdate_NotItself(f, d) == ActiveFolder(f) /\ ActiveFolder(d) /\ d # f

RestoreParent_NoDefault(n) ==
    IF origin[n] \in Folders /\ life[origin[n]] = "active" THEN origin[n] ELSE None

RestoreNode_OnlyItself(n) ==
    /\ n \in entries
    /\ life[n] = "trashed"
    /\ n \notin Condemned
    /\ ActiveFolder(parent[n])
    /\ \A m \in Active : parent[m] = parent[n] => name[m] # name[n]
    /\ life' = [life EXCEPT ![n] = "active"]
    /\ entries' = entries \ {n}
    /\ origin' = [origin EXCEPT ![n] = None]
    /\ due' = due \ {n}
    /\ aged' = aged \ {n}
    /\ UNCHANGED <<parent, name, favorites, targets, bytes, deletion, sentences>>

ListKeys_AllBelow(n) ==
    LET tree == TrashedTree(n) IN
    /\ purge[n] = "queued"
    /\ purge' = [purge EXCEPT ![n] = IF tree = {} THEN "none" ELSE "deleting"]
    /\ keys' = [keys EXCEPT ![n] = IF tree = {} THEN {} ELSE Below(n) \cap Files]
    /\ listed' = listed \cup tree
    /\ UNCHANGED <<rows, trash, favorites, targets, bytes, aged, swept, asked>>

DeleteObject_MissingIsError(n, f) ==
    /\ f \in keys[n] \cap bytes
    /\ bytes' = bytes \ {f}
    /\ keys' = [keys EXCEPT ![n] = @ \ {f}]
    /\ UNCHANGED <<rows, trash, favorites, targets, purge, history>>

PurgeRows_First(n) ==
    LET gone == TrashedTree(n) IN
    /\ purge[n] = "deleting"
    /\ gone \cap targets = {}
    /\ life' = [m \in Nodes |-> IF m \in gone THEN "absent" ELSE life[m]]
    /\ parent' = [m \in Nodes |-> IF m \in gone THEN None ELSE parent[m]]
    /\ name' = [m \in Nodes |-> IF m \in gone THEN None ELSE name[m]]
    /\ entries' = entries \ gone
    /\ origin' = [m \in Nodes |-> IF m \in gone THEN None ELSE origin[m]]
    /\ due' = due \ gone
    /\ favorites' = favorites \ gone
    /\ purge' = [purge EXCEPT ![n] = "none"]
    /\ aged' = aged \ gone
    /\ swept' = swept \ gone /\ asked' = asked \ gone /\ listed' = listed \ gone
    /\ UNCHANGED <<targets, bytes, keys>>

----------------------------------------------------------------------------
(* Folders and files                                                        *)

\* create_folder, and find_or_create_import_folder of an import
CreateFolder(n, d, called) ==
    /\ n \in Folders
    /\ ActiveFolder(d)
    /\ Insert(n, d, called)
    /\ UNCHANGED <<trash, favorites, targets, bytes, deletion, history>>

\* The statements of update_folder before its UPDATE, with both arguments
\* given; leaving one out is passing the present value.
MayUpdate(f, d) ==
    /\ ActiveFolder(f)
    /\ ActiveFolder(d)
    /\ d \notin Descendants(f)

\* Its UPDATE.
WriteUpdate(f, d, called) ==
    /\ ActiveFolder(f)
    /\ \A m \in Active \ {f} : parent[m] = d => name[m] # called
    /\ parent' = [parent EXCEPT ![f] = d]
    /\ name' = [name EXCEPT ![f] = called]
    /\ UNCHANGED <<life, trash, favorites, targets, bytes, deletion, history>>

UpdateFolder(f, d, called) == MayUpdate(f, d) /\ WriteUpdate(f, d, called)

\* move_folders: all of the batch or, on any conflict, nothing.
MoveFolders(batch, d) ==
    /\ batch # {}
    /\ ActiveFolder(d)
    /\ \A f \in batch :
        /\ ActiveFolder(f)
        /\ d \notin Descendants(f)
        /\ \A m \in batch : name[m] = name[f] => m = f
        /\ \A m \in Active \ batch : parent[m] = d => name[m] # name[f]
    /\ parent' = [n \in Nodes |-> IF n \in batch THEN d ELSE parent[n]]
    /\ UNCHANGED <<life, name, trash, favorites, targets, bytes, deletion, history>>

\* create_upload: the session names its folder for ever.
StartUpload(d) ==
    /\ ActiveFolder(d)
    /\ targets' = targets \cup {d}
    /\ UNCHANGED <<rows, trash, favorites, bytes, deletion, history>>

\* finalize_upload of a session: its folder is not looked at again.
FinishUpload(f, d, called) ==
    /\ f \in Files
    /\ d \in targets
    /\ life[d] = "active" \/ "late_upload" \in Faults
    /\ Insert(f, d, called)
    /\ bytes' = bytes \cup {f}
    /\ UNCHANGED <<trash, favorites, targets, deletion, history>>

\* finalize_import, in a folder it has found or created.
ImportFile(f, d, called) ==
    /\ f \in Files
    /\ ActiveFolder(d)
    /\ Insert(f, d, called)
    /\ bytes' = bytes \cup {f}
    /\ UNCHANGED <<trash, favorites, targets, deletion, history>>

AddFavorite(n) ==
    /\ n # Root /\ life[n] = "active"
    /\ favorites' = favorites \cup {n}
    /\ UNCHANGED <<rows, trash, targets, bytes, deletion, history>>

RemoveFavorite(n) ==
    /\ n \in favorites
    /\ favorites' = favorites \ {n}
    /\ UNCHANGED <<rows, trash, targets, bytes, deletion, history>>

----------------------------------------------------------------------------
(* Trash                                                                    *)

\* trash_nodes.  Nodes below others of the batch get no entry of their own; an
\* entry left over from before violates the unique key and fails the batch.
TrashNodes(batch) ==
    LET top == {n \in batch : \A m \in batch \ {n} : n \notin Below(m)}
        all == Tree(top, Active) IN
    /\ batch # {}
    /\ batch \subseteq Active \ {Root}
    /\ top \cap entries = {}
    /\ life' = [n \in Nodes |-> IF n \in all THEN "trashed" ELSE life[n]]
    /\ entries' = entries \cup top
    /\ origin' = [n \in Nodes |-> IF n \in top THEN parent[n] ELSE origin[n]]
    /\ favorites' = favorites \ all
    /\ aged' = aged \ all
    /\ UNCHANGED <<parent, name, due, targets, bytes, deletion, sentences>>

\* Where a trashed node returns to.
RestoreParent(n) ==
    LET preferred == IF origin[n] # None THEN origin[n] ELSE parent[n] IN
    IF preferred \in Folders /\ life[preferred] = "active" THEN preferred ELSE Root

\* restore_node: the whole trashed tree comes back, one entry goes.
RestoreNode(n) ==
    LET tree == TrashedTree(n)
        up == [parent EXCEPT ![n] = RestoreParent(n)] IN
    /\ n \in entries
    /\ life[n] = "trashed"
    /\ "late_restore" \in Faults \/ tree \cap Condemned = {}
    /\ SiblingsUnique((Active \cup tree) \ {Root}, up, name)
    /\ life' = [m \in Nodes |-> IF m \in tree THEN "active" ELSE life[m]]
    /\ parent' = up
    /\ entries' = entries \ {n}
    /\ origin' = [origin EXCEPT ![n] = None]
    /\ due' = due \ {n}
    /\ aged' = aged \ tree
    /\ UNCHANGED <<name, favorites, targets, bytes, deletion, sentences>>

\* request_permanent_deletion
RequestDeletion(n) ==
    /\ life[n] = "trashed"
    /\ n # Root
    /\ purge[n] = "none"
    /\ purge' = [purge EXCEPT ![n] = "queued"]
    /\ asked' = asked \cup TrashedTree(n)
    /\ UNCHANGED <<rows, trash, favorites, targets, bytes, keys, aged, swept, listed>>

\* enqueue_expired_trash_deletions, hourly; fewer than a batch of fifty.
Expired == {n \in due : life[n] = "trashed" /\ purge[n] = "none"}
SweepTrash ==
    /\ Expired # {}
    /\ purge' = [n \in Nodes |-> IF n \in Expired THEN "queued" ELSE purge[n]]
    /\ swept' = swept \cup UNION {TrashedTree(n) : n \in Expired}
    /\ UNCHANGED <<rows, trash, favorites, targets, bytes, keys, aged, asked, listed>>

\* Thirty days go by.
MonthPasses ==
    /\ entries # due \/ Trashed # aged
    /\ due' = entries
    /\ aged' = Trashed
    /\ UNCHANGED <<rows, entries, origin, favorites, targets, bytes, deletion,
                   sentences>>

----------------------------------------------------------------------------
(* DeletionService::purge                                                   *)

\* list_storage_keys_for_deletion; a node that is not trashed has none.
ListKeys(n) ==
    LET tree == TrashedTree(n) IN
    /\ purge[n] = "queued"
    /\ purge' = [purge EXCEPT ![n] = IF tree = {} THEN "none" ELSE "deleting"]
    /\ keys' = [keys EXCEPT ![n] = tree \cap Files]
    /\ listed' = listed \cup tree
    /\ UNCHANGED <<rows, trash, favorites, targets, bytes, aged, swept, asked>>

DeleteObject(n, f) ==
    /\ f \in keys[n]
    /\ bytes' = bytes \ {f}
    /\ keys' = [keys EXCEPT ![n] = @ \ {f}]
    /\ UNCHANGED <<rows, trash, favorites, targets, purge, history>>

\* ON DELETE RESTRICT: upload sessions and children hold on to a node.  (The
\* one import source names Root, which is never in the trash.)
Restricted(gone) ==
    \/ gone \cap targets # {}
    \/ \E c \in Nodes \ gone : parent[c] \in gone

\* purge_trashed_node_records removes the tree as it finds it now; entries,
\* favorites and job rows cascade, an entry's origin is set to NULL.
PurgeRows(n) ==
    LET gone == TrashedTree(n) IN
    /\ purge[n] = "deleting" /\ keys[n] = {}
    /\ ~Restricted(gone)
    /\ life' = [m \in Nodes |-> IF m \in gone THEN "absent" ELSE life[m]]
    /\ parent' = [m \in Nodes |-> IF m \in gone THEN None ELSE parent[m]]
    /\ name' = [m \in Nodes |-> IF m \in gone THEN None ELSE name[m]]
    /\ entries' = entries \ gone
    /\ origin' = [m \in Nodes |-> IF m \in gone \/ origin[m] \in gone
                                  THEN None ELSE origin[m]]
    /\ due' = due \ gone
    /\ favorites' = favorites \ gone
    /\ purge' = [m \in Nodes |-> IF m = n \/ (m \in gone /\ purge[m] = "queued")
                                 THEN "none" ELSE purge[m]]
    /\ aged' = aged \ gone
    /\ swept' = swept \ gone /\ asked' = asked \ gone /\ listed' = listed \ gone
    /\ UNCHANGED <<targets, bytes, keys>>

\* An object cannot be deleted, the rows are held, or the worker dies: the job
\* is tried again or, its attempts used up or its row gone, is not.
PurgeFails(n) ==
    /\ purge[n] = "deleting"
    /\ \/ "worker_error" \in Faults
       \/ keys[n] = {} /\ Restricted(TrashedTree(n))
    /\ keys' = [keys EXCEPT ![n] = {}]
    /\ \/ purge' = [purge EXCEPT ![n] = "none"]
       \/ life[n] # "absent" /\ purge' = [purge EXCEPT ![n] = "queued"]
    /\ UNCHANGED <<rows, trash, favorites, targets, bytes, history>>

----------------------------------------------------------------------------

Transaction ==
    \/ \E n \in Nodes, d \in Folders, called \in Names :
        \/ CreateFolder(n, d, called)
        \/ FinishUpload(n, d, called)
        \/ ImportFile(n, d, called)
    \/ \E f \in Folders \ {Root}, d \in Folders, called \in Names :
        UpdateFolder(f, d, called)
    \/ \E batch \in SUBSET Folders, d \in Folders : MoveFolders(batch, d)
    \/ \E d \in Folders : StartUpload(d)
    \/ \E n \in Nodes : AddFavorite(n) \/ RemoveFavorite(n)
    \/ \E batch \in SUBSET Nodes : TrashNodes(batch)
    \/ \E n \in Nodes : RestoreNode(n) \/ RequestDeletion(n)

Handler(n) ==
    \/ ListKeys(n)
    \/ \E f \in Files : DeleteObject(n, f)
    \/ PurgeRows(n)
    \/ PurgeFails(n)

Next ==
    \/ Transaction
    \/ SweepTrash
    \/ MonthPasses
    \/ \E n \in Nodes : Handler(n)

Spec == Init /\ [][Next]_vars

\* The sweep and the worker keep running, and storage errors are transient.
Fairness ==
    /\ WF_vars(SweepTrash)
    /\ \A n \in Nodes :
        /\ WF_vars(ListKeys(n))
        /\ \A f \in Files : SF_vars(DeleteObject(n, f))
        /\ SF_vars(PurgeRows(n))

FairSpec == Spec /\ Fairness

----------------------------------------------------------------------------
(* Properties                                                               *)

\* Every active node hangs in an active folder, and parents never form a
\* cycle, whatever is moved, trashed, restored and purged around it: listings
\* that descend from the root reach all of it.
ParentsActive == \A n \in Active \ {Root} : ActiveFolder(parent[n])
NoCycle ==
    \A S \in SUBSET Nodes : S # {} => \E n \in S : parent[n] \notin S
Rooted == ParentsActive /\ NoCycle

\* Everything in the trash belongs to an item that the trash lists, so it can
\* be restored or purged: trashing and restoring parts of a folder before and
\* after the folder itself leaves nothing behind.
TrashListed ==
    \A n \in Trashed : \E e \in entries : n \in TrashedTree(e)

\* "Favorites do not survive trash".
FavoritesActive == favorites \subseteq Active

\* An active file has its bytes, at whatever point handlers fail and are tried
\* again, wherever uploads complete, and whatever comes back from the trash.
\* The one way to lose them: a handler has listed the file, which restore_node
\* does not ask about, so it may come back before or after it is erased.
FilesHaveBytes == (Active \cap Files) \ listed \subseteq bytes

\* No bytes outlive the row that knows their key.
NoLeak == \A f \in bytes : life[f] # "absent"

\* To each of its nodes the tree, with its trash and its handlers, keeps what
\* NodeContract promises: a batch that is trashed takes its favorites along,
\* what a handler deletes has been condemned and is not restored, and no row
\* goes before its bytes.
Contract == INSTANCE NodeContract WITH condemned <- Condemned
KeepsContract == Contract!Spec

\* "Items stay in trash for 30 days": the sweep condemns what has been there
\* for thirty days.  (It does not always: an entry survives the restore of a
\* folder above its node, see TreeRetention.cfg.)
RetentionKept == swept \subseteq aged

\* "A user-requested permanent deletion removes the original ... through an
\* idempotent deletion job": an item whose job is queued is in the end gone.
\* (Not if an upload session names a folder of it, see TreeHeld.cfg.)
DeletionHappens ==
    \A n \in Nodes : (purge[n] # "none" /\ life[n] = "trashed")
                        ~> (life[n] # "trashed")

\* Where no upload session holds on to a folder of it, an item whose thirty
\* days are over is in the end gone or restored.
Held(n) == TrashedTree(n) \cap targets # {}
EmptiedInTime ==
    \A n \in Nodes : (n \in due /\ life[n] = "trashed" /\ ~Held(n))
                        ~> (life[n] # "trashed")

=============================================================================
