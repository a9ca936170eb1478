------------------------------- MODULE Media -------------------------------
(***************************************************************************)
(* What is derived from files: the preview requests of                      *)
(* crates/api/src/files.rs, the preview and metadata handlers of            *)
(* crates/worker/src/metadata.rs, the rows they write, and the status the   *)
(* API tells from them.  One await on the database, the artifact store or   *)
(* an extractor is one step.                                                *)
(*                                                                          *)
(* Jobs describes the queue itself.  Here a node has at most one active job *)
(* of a type, a claimed job is run by one worker, and of the jobs that are  *)
(* done only the failed ones are remembered.                                *)
(***************************************************************************)
EXTENDS Integers, FiniteSets

CONSTANTS
    Nodes,        \* files, uploaded or imported
    Requests,     \* slots for preview requests in flight
    Workers,      \* processors of the worker process
    Keys,         \* storage keys of artifacts (fresh UUIDs)
    None,
    Special,      \* files for which there is an extractor of their own
    Broken,       \* artifacts that no tool can make, as <<node, kind>>
    MaxAttempts,  \* max_attempts
    MaxFaults,    \* a bound on injected failures
    Faults        \* which of AllFaults may happen

Kinds == {"thumbnail", "preview"}  \* in this order in a preview job
Types == {"metadata", "preview"}

(* "error": a statement of a handler, reading an original, or deleting fails. *)
(* "tool": an extractor fails.                                              *)
(* "converter": making, storing or recording an artifact fails that would   *)
(*    succeed at another time.                                              *)
(* "crash": the worker process dies and is started again.                   *)
(* "disconnect": a request is dropped at an await, or fails there.          *)
(* "misread": a request cannot read the row of an artifact, or cannot open   *)
(*    its file.                                                             *)
(* "twice": an artifact is requested while another request for it runs.     *)
(* "late": previews of a file in the trash are requested or made while its  *)
(*    deletion runs.                                                        *)
AllFaults == {"error", "tool", "converter", "crash", "disconnect", "misread", "twice", "late"}

ASSUME ConstantsOK ==
    /\ None \notin Nodes \cup Keys
    /\ Special \subseteq Nodes
    /\ Broken \subseteq Nodes \X Kinds
    /\ MaxAttempts \in Nat \ {0} /\ MaxFaults \in Nat
    /\ Faults \subseteq AllFaults

VARIABLES
    life,       \* "here", "trashed" or "gone"
    artifact,   \* derived_artifacts, one row per node and kind
    job,        \* the active job of each node and type
    failed,     \* types of which a failed job of the node is left
    record,     \* metadata_records: of libmagic, and of the node's extractor
    facts,      \* what node_metadata and media_streams have
    outdated,   \* nodes whose extractor record is of an older release
    originals,  \* nodes whose original is stored
    objects,    \* files in artifacts/
    erasing,    \* what a deletion handler does next, and the artifacts on its list
    replaced,   \* history: keys that a request took out of their row when their
                \* file was stored or being made
    req,        \* preview requests
    work,       \* handlers
    budget      \* failures that may still be injected

queue == <<job, failed>>
extracted == <<record, facts, outdated>>
db == <<life, artifact, queue, extracted>>
store == <<originals, objects, erasing, replaced>>
vars == <<db, store, req, work, budget>>

----------------------------------------------------------------------------
(* Types                                                                    *)

ArtifactStates == {"none", "generating", "ready", "failed"}
NoArtifact == [state |-> "none", key |-> None]
NoJob == [state |-> "none", attempts |-> 0]
NoRecord == [mime |-> "none", extractor |-> "none"]
AllFacts == {"base", "streams", "columns"}

NoReq == [step |-> "idle", node |-> None, kind |-> "preview", key |-> None, saw |-> "none"]
NotErasing == [step |-> "idle", keys |-> {}]
NoWork == [step |-> "idle", node |-> None, type |-> "preview",
           kind |-> "thumbnail", key |-> None, found |-> FALSE]

PreviewSteps == {"look", "generate", "put", "record", "mark_failed"}
MetadataSteps == {"mime", "base", "extract", "completed", "streams", "columns",
                  "extractor_failed"}
WorkSteps == {"idle", "open", "ok", "error"} \cup PreviewSteps \cup MetadataSteps

TypeOK ==
    /\ life \in [Nodes -> {"here", "trashed", "gone"}]
    /\ artifact \in [Nodes -> [Kinds -> [state : ArtifactStates, key : Keys \cup {None}]]]
    /\ job \in [Nodes -> [Types -> [state : {"none", "pending", "leased"}, attempts : Nat]]]
    /\ failed \in [Nodes -> SUBSET Types]
    /\ record \in [Nodes -> [mime : {"none", "completed"},
                    extractor : {"none", "completed", "failed", "unsupported"}]]
    /\ facts \in [Nodes -> SUBSET AllFacts]
    /\ outdated \subseteq Nodes /\ originals \subseteq Nodes
    /\ objects \subseteq Keys /\ replaced \subseteq Keys
    /\ erasing \in [Nodes -> [step : {"idle", "original", "artifacts"}, keys : SUBSET Keys]]
    /\ req \in [Requests -> [step : {"idle", "serve", "create", "enqueue"},
                node : Nodes \cup {None}, kind : Kinds, key : Keys \cup {None},
                saw : ArtifactStates \cup {"error"}]]
    /\ work \in [Workers -> [step : WorkSteps, node : Nodes \cup {None},
                type : Types, kind : Kinds, key : Keys \cup {None}, found : BOOLEAN]]
    /\ budget \in 0 .. MaxFaults
    /\ \A n \in Nodes, k \in Kinds :
        artifact[n][k].state = "none" <=> artifact[n][k].key = None

\* Finalizing an upload or an import inserts the metadata job.  Some files have
\* been through it with the extractors of an older release.
Init ==
    /\ life = [n \in Nodes |-> "here"]
    /\ artifact = [n \in Nodes |-> [k \in Kinds |-> NoArtifact]]
    /\ outdated \in SUBSET Special
    /\ job = [n \in Nodes |-> [t \in Types |->
                IF t = "metadata" /\ n \notin outdated
                THEN [NoJob EXCEPT !.state = "pending"] ELSE NoJob]]
    /\ failed = [n \in Nodes |-> {}]
    /\ record = [n \in Nodes |-> IF n \in outdated
                THEN [mime |-> "completed", extractor |-> "completed"] ELSE NoRecord]
    /\ facts = [n \in Nodes |-> IF n \in outdated THEN AllFacts ELSE {}]
    /\ originals = Nodes /\ objects = {} /\ replaced = {}
    /\ erasing = [n \in Nodes |-> NotErasing]
    /\ req = [r \in Requests |-> NoReq]
    /\ work = [w \in Workers |-> NoWork]
    /\ budget = MaxFaults

----------------------------------------------------------------------------
(* Helpers                                                                  *)

Exists(n) == life[n] # "gone"
Active(n, t) == job[n][t].state # "none"
SetArtifact(n, k, s, key) ==
    artifact' = [artifact EXCEPT ![n][k] = [state |-> s, key |-> key]]

\* A new UUID: a key that nothing refers to.  Which one does not matter.
FreeKeys ==
    {key \in Keys \ objects :
        /\ \A n \in Nodes, k \in Kinds : artifact[n][k].key # key
        /\ \A n \in Nodes : key \notin erasing[n].keys
        /\ \A w \in Workers : work[w].key # key}
NewKey == CHOOSE key \in FreeKeys : TRUE

\* Keys under which there is a file, or will be.
FilesKept ==
    {key \in Keys : key \in objects \/ \E w \in Workers : work[w].key = key}

Inject(fault) ==
    /\ fault \in Faults
    /\ budget > 0 /\ budget' = budget - 1

\* The handler goes on to another step of its job.
Goto(w, s) == work' = [work EXCEPT ![w].step = s]

\* The kind has been dealt with: thumbnail, preview, done.
NextKind(w, found) ==
    work' = [work EXCEPT ![w] =
        IF @.kind = "thumbnail"
        THEN [@ EXCEPT !.step = "look", !.kind = "preview", !.key = None, !.found = found]
        ELSE [@ EXCEPT !.step = IF found THEN "ok" ELSE "error", !.key = None]]

----------------------------------------------------------------------------
(* Plausible bugs, one slip each; none belongs to Next.                     *)

GetArtifact_WaitsForJob(r, n, k) ==
    /\ req[r].step = "idle" /\ life[n] = "here"
    /\ \A q \in Requests : ~(req[q].node = n /\ req[q].kind = k)
    /\ artifact[n][k].state # "generating"
    /\ req' = [req EXCEPT ![r] = [step |-> IF artifact[n][k].state = "ready"
                                           THEN "serve" ELSE "create",
                                  node |-> n, kind |-> k, key |-> artifact[n][k].key,
                                  saw |-> artifact[n][k].state]]
    /\ UNCHANGED <<db, store, work, budget>>

Serve_NeverCached(r) ==
    /\ req[r].step = "serve"
    /\ req' = [req EXCEPT ![r].step = "create"]
    /\ UNCHANGED <<db, store, work, budget>>

Generate_RecordFirst(w) ==
    /\ work[w].step = "generate"
    /\ SetArtifact(work[w].node, work[w].kind, "ready", work[w].key)
    /\ Goto(w, "put")
    /\ UNCHANGED <<life, queue, extracted, store, req, budget>>

Put_OwnKey(w) ==
    /\ work[w].step = "put"
    /\ FreeKeys # {}
    /\ objects' = objects \cup {NewKey}
    /\ work' = [work EXCEPT ![w].step = "record", ![w].key = NewKey]
    /\ UNCHANGED <<db, originals, erasing, replaced, req, budget>>

MarkFailed_Forgets(w) ==
    /\ work[w].step = "mark_failed"
    /\ SetArtifact(work[w].node, work[w].kind, "none", work[w].key)
    /\ Goto(w, "error")
    /\ UNCHANGED <<life, queue, extracted, store, req, budget>>

Reprocess_Requeues(S) ==
    /\ S # {} /\ S \subseteq outdated
    /\ job' = [n \in Nodes |-> [t \in Types |->
                IF n \in S /\ t = "metadata"
                THEN [state |-> "pending", attempts |-> 0] ELSE job[n][t]]]
    /\ UNCHANGED <<life, artifact, failed, extracted, store, req, work, budget>>

ProcessingStatus_NoJobs(n) ==
    LET active == \E t \in Types : Active(n, t)
        successful == record[n].mime = "completed"
                        \/ record[n].extractor \in {"completed", "unsupported"}
        failedMetadata == record[n].extractor = "failed"
    IN IF active THEN "processing"
       ELSE IF successful /\ failedMetadata THEN "partially_processed"
       ELSE IF failedMetadata THEN "failed"
       ELSE IF successful THEN "ready" ELSE "processing"

----------------------------------------------------------------------------
(* GET /api/files/:id/preview and /thumbnail                                *)

\* get_artifact, for a file that has its row: it is served, waited for, or made.
\* It is also made when the row cannot be read, whatever the row is.
GetArtifact(r, n, k) ==
    LET a == artifact[n][k]
        Goes(s, what) ==
            req' = [req EXCEPT ![r] =
                [step |-> s, node |-> n, kind |-> k,
                 key |-> IF s = "serve" THEN a.key ELSE None, saw |-> what]]
    IN
    /\ req[r].step = "idle"
    /\ Exists(n) /\ (life[n] = "here" \/ "late" \in Faults)
    /\ "twice" \in Faults
        \/ \A q \in Requests : ~(req[q].node = n /\ req[q].kind = k)
    /\ \/ /\ Goes(CASE a.state = "ready"      -> "serve"
                    [] a.state = "generating" -> "enqueue"
                    [] OTHER                  -> "create", a.state)
          /\ UNCHANGED budget
       \/ Inject("misread") /\ Goes("create", "error")
    /\ UNCHANGED <<db, store, work>>

\* get_stream of an artifact that is ready.  If that fails, because the file is
\* lost or for any other reason, the artifact is made again.
Serve(r) ==
    LET remade == [req[r] EXCEPT !.step = "create", !.key = None, !.saw = "error"] IN
    /\ req[r].step = "serve"
    /\ \/ /\ req' = [req EXCEPT ![r] = IF @.key \in objects THEN NoReq ELSE remade]
          /\ UNCHANGED budget
       \/ Inject("misread") /\ req' = [req EXCEPT ![r] = remade]
    /\ UNCHANGED <<db, store, work>>

\* create_or_update_artifact, under a new key, whatever the row is by now; the
\* foreign key may refuse it.
Create(r) ==
    LET n == req[r].node
        old == artifact[n][req[r].kind].key
    IN
    /\ req[r].step = "create"
    /\ \/ /\ Exists(n) /\ FreeKeys # {}
          /\ SetArtifact(n, req[r].kind, "generating", NewKey)
          /\ replaced' = (replaced \ {NewKey}) \cup ({old} \cap FilesKept)
          /\ req' = [req EXCEPT ![r].step = "enqueue", ![r].saw = "generating"]
       \/ /\ ~Exists(n)
          /\ req' = [req EXCEPT ![r] = NoReq]
          /\ UNCHANGED <<artifact, replaced>>
    /\ UNCHANGED <<life, queue, extracted, originals, objects, erasing, work, budget>>

\* enqueue_job, unless the node has an active one.
Enqueue(n, t) ==
    job' = IF Exists(n) /\ ~Active(n, t)
           THEN [job EXCEPT ![n][t] = [state |-> "pending", attempts |-> 0]]
           ELSE job

\* generating_response
Generating(r) ==
    /\ req[r].step = "enqueue"
    /\ Enqueue(req[r].node, "preview")
    /\ req' = [req EXCEPT ![r] = NoReq]
    /\ UNCHANGED <<life, artifact, failed, extracted, store, work, budget>>

RequestEnds(r) ==
    /\ Inject("disconnect")
    /\ req[r].step # "idle"
    /\ req' = [req EXCEPT ![r] = NoReq]
    /\ UNCHANGED <<db, store, work>>

----------------------------------------------------------------------------
(* The queue, in short                                                      *)

Claim(w, n, t) ==
    /\ work[w].step = "idle"
    /\ job[n][t].state = "pending"
    /\ job' = [job EXCEPT ![n][t] = [state |-> "leased", attempts |-> @.attempts + 1]]
    /\ work' = [work EXCEPT ![w] = [NoWork EXCEPT !.step = "open", !.node = n, !.type = t]]
    /\ UNCHANGED <<life, artifact, failed, extracted, store, req, budget>>

\* complete_job, fail_job: the row may have gone with its node.
Report(w) ==
    LET n == work[w].node
        t == work[w].type
        last == job[n][t].attempts >= MaxAttempts
    IN
    /\ work[w].step \in {"ok", "error"}
    /\ work' = [work EXCEPT ![w] = NoWork]
    /\ CASE job[n][t].state # "leased" -> UNCHANGED queue
         [] job[n][t].state = "leased" /\ work[w].step = "ok" ->
              job' = [job EXCEPT ![n][t] = NoJob] /\ UNCHANGED failed
         [] job[n][t].state = "leased" /\ work[w].step = "error" /\ ~last ->
              job' = [job EXCEPT ![n][t].state = "pending"] /\ UNCHANGED failed
         [] OTHER ->
              /\ job' = [job EXCEPT ![n][t] = NoJob]
              /\ failed' = [failed EXCEPT ![n] = @ \cup {t}]
    /\ UNCHANGED <<life, artifact, extracted, store, req, budget>>

Crash ==
    /\ Inject("crash")
    /\ work' = [w \in Workers |-> NoWork]
    /\ erasing' = [n \in Nodes |-> NotErasing]
    /\ UNCHANGED <<db, originals, objects, replaced, req>>

\* The lease of a job whose worker died is returned.
Release(n, t) ==
    /\ job[n][t].state = "leased"
    /\ \A w \in Workers : ~(work[w].node = n /\ work[w].type = t)
    /\ job' = [job EXCEPT ![n][t].state = "pending"]
    /\ UNCHANGED <<life, artifact, failed, extracted, store, req, work, budget>>

----------------------------------------------------------------------------
(* generate_previews and generate_artifact                                  *)

\* Both handlers first copy the original to a temporary file.
Open(w) ==
    /\ work[w].step = "open"
    /\ Goto(w, IF ~Exists(work[w].node) \/ work[w].node \notin originals THEN "error"
               ELSE IF work[w].type = "preview" THEN "look" ELSE "mime")
    /\ UNCHANGED <<db, store, req, budget>>

\* get_artifact: one that failed before ends the job, one that is being
\* generated is made, under the key that its row has now.
Look(w) ==
    LET a == artifact[work[w].node][work[w].kind] IN
    /\ work[w].step = "look"
    /\ CASE a.state = "failed" -> Goto(w, "error")
         [] a.state = "generating" ->
              work' = [work EXCEPT ![w] =
                        [@ EXCEPT !.step = "generate", !.key = a.key, !.found = TRUE]]
         [] OTHER -> NextKind(w, work[w].found)
    /\ UNCHANGED <<db, store, req, budget>>

Generate(w) ==
    /\ work[w].step = "generate"
    /\ Goto(w, IF <<work[w].node, work[w].kind>> \in Broken THEN "mark_failed" ELSE "put")
    /\ UNCHANGED <<db, store, req, budget>>

\* put_stream replaces what an earlier attempt may have left under the key.
Put(w) ==
    /\ work[w].step = "put"
    /\ objects' = objects \cup {work[w].key}
    /\ Goto(w, "record")
    /\ UNCHANGED <<db, originals, erasing, replaced, req, budget>>

Record(w) ==
    LET n == work[w].node IN
    /\ work[w].step = "record"
    /\ \/ /\ Exists(n)
          /\ SetArtifact(n, work[w].kind, "ready", work[w].key)
          /\ NextKind(w, TRUE)
       \/ ~Exists(n) /\ Goto(w, "mark_failed") /\ UNCHANGED artifact
    /\ UNCHANGED <<life, queue, extracted, store, req, budget>>

\* mark_artifact_failed, with the row as it was when the job looked at it.
MarkFailed(w) ==
    LET n == work[w].node IN
    /\ work[w].step = "mark_failed"
    /\ \/ Exists(n) /\ SetArtifact(n, work[w].kind, "failed", work[w].key)
       \/ ~Exists(n) /\ UNCHANGED artifact
    /\ work' = [work EXCEPT ![w].step = "error", ![w].key = None]
    /\ UNCHANGED <<life, queue, extracted, store, req, budget>>

----------------------------------------------------------------------------
(* extract                                                                  *)

\* persist_record and upsert_base_metadata, which need their node; an
\* extractor record that is written is of the current release.
Persist(w, what) ==
    LET n == work[w].node IN
    IF Exists(n)
    THEN CASE what = "mime" ->
                /\ record' = [record EXCEPT ![n].mime = "completed"]
                /\ UNCHANGED <<facts, outdated>>
           [] what = "base" ->
                /\ facts' = [facts EXCEPT ![n] = @ \cup {"base"}]
                /\ UNCHANGED <<record, outdated>>
           [] OTHER ->
                /\ record' = [record EXCEPT ![n].extractor = what]
                /\ outdated' = outdated \ {n}
                /\ UNCHANGED facts
    ELSE UNCHANGED extracted

Then(w, s) == Goto(w, IF Exists(work[w].node) THEN s ELSE "error")
Quiet == <<life, artifact, queue, store, req>>

Identify(w) ==
    \/ /\ work[w].step = "mime"
       /\ Persist(w, "mime") /\ Then(w, "base")
       /\ UNCHANGED <<Quiet, budget>>
    \/ /\ work[w].step = "base"
       /\ Persist(w, "base") /\ Then(w, "extract")
       /\ UNCHANGED <<Quiet, budget>>

\* extract_image, extract_media, extract_document; or "unsupported".
Extract(w) ==
    /\ work[w].step = "extract"
    /\ \/ /\ work[w].node \notin Special
          /\ Persist(w, "unsupported") /\ Then(w, "ok")
          /\ UNCHANGED budget
       \/ /\ work[w].node \in Special
          /\ \/ Goto(w, "completed") /\ UNCHANGED budget
             \/ Inject("tool") /\ Goto(w, "extractor_failed")
          /\ UNCHANGED extracted
    /\ UNCHANGED Quiet

\* The record, then replace_media_streams, then the columns of node_metadata:
\* three transactions, the last of which may update no row.
RecordCompleted(w) ==
    /\ work[w].step = "completed"
    /\ Persist(w, "completed") /\ Then(w, "streams")
    /\ UNCHANGED <<Quiet, budget>>

ReplaceStreams(w) ==
    LET n == work[w].node IN
    /\ work[w].step = "streams"
    /\ facts' = [facts EXCEPT ![n] = IF Exists(n) THEN @ \cup {"streams"} ELSE @]
    /\ Then(w, "columns")
    /\ UNCHANGED <<record, outdated, Quiet, budget>>

FillColumns(w) ==
    LET n == work[w].node IN
    /\ work[w].step = "columns"
    /\ facts' = [facts EXCEPT ![n] = IF Exists(n) THEN @ \cup {"columns"} ELSE @]
    /\ Goto(w, "ok")
    /\ UNCHANGED <<record, outdated, Quiet, budget>>

ExtractorFailed(w) ==
    /\ work[w].step = "extractor_failed"
    /\ Persist(w, "failed") /\ Goto(w, "error")
    /\ UNCHANGED <<Quiet, budget>>

\* The call of the step fails.  An artifact that was being generated is marked
\* failed first; in any case the job is tried again.
StepFails(w) ==
    LET making == {"generate", "put", "record"} IN
    /\ \/ work[w].step \in making /\ Inject("converter") /\ Goto(w, "mark_failed")
       \/ /\ work[w].step \in WorkSteps \ ({"idle", "ok", "error"} \cup making)
          /\ Inject("error") /\ Goto(w, "error")
    /\ UNCHANGED <<db, store, req>>

----------------------------------------------------------------------------
(* What the API tells of a file                                             *)

\* processing_status
ProcessingStatus(n) ==
    LET active == \E t \in Types : Active(n, t)
        successful == record[n].mime = "completed"
                        \/ record[n].extractor \in {"completed", "unsupported"}
        failedMetadata == record[n].extractor = "failed"
    IN IF active THEN "processing"
       ELSE IF successful /\ failedMetadata THEN "partially_processed"
       ELSE IF failed[n] # {} \/ failedMetadata THEN "failed"
       ELSE IF successful THEN "ready" ELSE "processing"

----------------------------------------------------------------------------
(* The rest of the system                                                   *)

\* POST /api/admin/reprocess: some of the nodes whose record is of an older
\* release, ten at most; fewer if the request is dropped.
Reprocess(S) ==
    /\ S # {} /\ S \subseteq outdated
    /\ job' = [n \in Nodes |-> [t \in Types |->
                IF n \in S /\ t = "metadata" /\ ~Active(n, t)
                THEN [state |-> "pending", attempts |-> 0] ELSE job[n][t]]]
    /\ UNCHANGED <<life, artifact, failed, extracted, store, req, work, budget>>

Trash(n) ==
    /\ life[n] = "here"
    /\ life' = [life EXCEPT ![n] = "trashed"]
    /\ UNCHANGED <<artifact, queue, extracted, store, req, work, budget>>

\* Permanent deletion of a file in the trash, as in Tree: list_storage_keys_for_deletion,
\* the original, each artifact, and at last the rows.  A handler that fails on
\* its way is run again from the list.
Busy(n) ==
    \/ Active(n, "preview")
    \/ \E r \in Requests : req[r].node = n
    \/ \E w \in Workers : work[w].node = n /\ work[w].type = "preview"

ListKeys(n) ==
    /\ life[n] = "trashed" /\ erasing[n].step = "idle"
    /\ "late" \in Faults \/ ~Busy(n)
    /\ erasing' = [erasing EXCEPT ![n] =
        [step |-> "original", keys |-> {artifact[n][k].key : k \in Kinds} \ {None}]]
    /\ UNCHANGED <<db, originals, objects, replaced, req, work, budget>>

DeleteOriginal(n) ==
    /\ erasing[n].step = "original"
    /\ originals' = originals \ {n}
    /\ erasing' = [erasing EXCEPT ![n].step = "artifacts"]
    /\ UNCHANGED <<db, objects, replaced, req, work, budget>>

DeleteArtifact(n, key) ==
    /\ erasing[n].step = "artifacts" /\ key \in erasing[n].keys
    /\ objects' = objects \ {key}
    /\ erasing' = [erasing EXCEPT ![n].keys = @ \ {key}]
    /\ UNCHANGED <<db, originals, replaced, req, work, budget>>

PurgeRows(n) ==
    /\ erasing[n].step = "artifacts" /\ erasing[n].keys = {}
    /\ life' = [life EXCEPT ![n] = "gone"]
    /\ artifact' = [artifact EXCEPT ![n] = [k \in Kinds |-> NoArtifact]]
    /\ job' = [job EXCEPT ![n] = [t \in Types |-> NoJob]]
    /\ failed' = [failed EXCEPT ![n] = {}]
    /\ record' = [record EXCEPT ![n] = NoRecord]
    /\ facts' = [facts EXCEPT ![n] = {}]
    /\ outdated' = outdated \ {n}
    /\ erasing' = [erasing EXCEPT ![n] = NotErasing]
    /\ UNCHANGED <<originals, objects, replaced, req, work, budget>>

DeletionFails(n) ==
    /\ Inject("error")
    /\ erasing[n].step # "idle"
    /\ erasing' = [erasing EXCEPT ![n] = NotErasing]
    /\ UNCHANGED <<db, originals, objects, replaced, req, work>>

Erase(n) ==
    \/ ListKeys(n) \/ DeleteOriginal(n) \/ PurgeRows(n) \/ DeletionFails(n)
    \/ \E key \in Keys : DeleteArtifact(n, key)

----------------------------------------------------------------------------

Respond(r) == Serve(r) \/ Create(r) \/ Generating(r)

Handle(w) ==
    \/ Open(w)
    \/ Look(w) \/ Generate(w) \/ Put(w) \/ Record(w) \/ MarkFailed(w)
    \/ Identify(w) \/ Extract(w) \/ ExtractorFailed(w)
    \/ RecordCompleted(w) \/ ReplaceStreams(w) \/ FillColumns(w)
    \/ Report(w)

Run(w) == Handle(w) \/ \E n \in Nodes, t \in Types : Claim(w, n, t)
Ask(n, k) == \E r \in Requests : GetArtifact(r, n, k)

Next ==
    \/ \E n \in Nodes, k \in Kinds : Ask(n, k)
    \/ \E r \in Requests : Respond(r) \/ RequestEnds(r)
    \/ \E w \in Workers : Run(w) \/ StepFails(w)
    \/ Crash
    \/ \E n \in Nodes, t \in Types : Release(n, t)
    \/ \E S \in SUBSET Nodes : Reprocess(S)
    \/ \E n \in Nodes : Trash(n) \/ Erase(n)

Spec == Init /\ [][Next]_vars

\* Requests are answered, the workers run, leases run out, and who wants a
\* thumbnail or a preview asks again.
Fairness ==
    /\ \A r \in Requests : WF_vars(Respond(r))
    /\ \A w \in Workers : WF_vars(Run(w))
    /\ \A n \in Nodes, t \in Types : WF_vars(Release(n, t))
    /\ \A n \in Nodes, k \in Kinds : SF_vars(Ask(n, k))

FairSpec == Spec /\ Fairness

----------------------------------------------------------------------------
(* Properties                                                               *)

\* An artifact that is ready has its file, unless its node is being deleted:
\* generate_artifact stores the file before it records it, under the key that
\* the row of that moment had.
ReadyStored ==
    \A n \in Nodes, k \in Kinds :
        artifact[n][k].state = "ready" /\ n \in originals => artifact[n][k].key \in objects

\* Only a request that gives the row of an artifact another key leaves a file in
\* artifacts/ that nothing knows: retries, errors of tools, crashes and
\* deletions that break off and start over never do.
NoStrayArtifact ==
    \A key \in objects :
        key \in replaced \/ \E n \in Nodes, k \in Kinds : artifact[n][k].key = key

\* A file is told to be ready only when all that its extractor can tell is
\* there, whatever attempts broke off and were tried again.
ReadyIsComplete ==
    \A n \in Nodes : ProcessingStatus(n) = "ready" =>
        /\ record[n].mime = "completed" /\ "base" \in facts[n]
        /\ \/ n \notin Special /\ record[n].extractor = "unsupported"
           \/ record[n].extractor = "completed" /\ facts[n] = AllFacts

\* What was served with "immutable" stays what it is until its file is deleted,
\* whatever workers do.  Only a request can replace it, one that could not read
\* it or that looked before it was ready, and then it is made anew.
ArtifactStable ==
    [][\A n \in originals, k \in Kinds :
        artifact[n][k].state = "ready" =>
            \/ artifact'[n][k] = artifact[n][k]
            \/ /\ artifact'[n][k].state = "generating" /\ artifact'[n][k].key \notin objects
               /\ \E r \in Requests :
                    /\ req[r].step = "create" /\ req[r].node = n /\ req[r].kind = k
                    /\ req[r].saw \in {"none", "failed", "error"}]_vars

\* The queue as its users see it; no run outlives its lease here.
Phase(i) ==
    LET s == job[i[2]][i[1]].state IN
    CASE s = "none"    -> "idle"
      [] s = "pending" -> "queued"
      [] s = "leased"  -> "running"
Doing(w) ==
    IF work[w].step # "idle" /\ Exists(work[w].node)
    THEN {<<work[w].type, work[w].node>>} ELSE {}
Verdict(w) ==
    IF work[w].step \in {"ok", "error"} /\ Doing(w) # {} THEN work[w].step ELSE "none"

Queue == INSTANCE QueueContract WITH
    phase <- [i \in Types \X Nodes |-> Phase(i)],
    tries <- [i \in Types \X Nodes |-> job[i[2]][i[1]].attempts],
    loose <- {},
    doing <- [w \in Workers |-> Doing(w)],
    verdict <- [w \in Workers |-> Verdict(w)],
    failures <- {i \in Types \X Nodes : i[1] \in failed[i[2]]}

\* The short queue of this module and the table, leases and processors of Jobs
\* keep the same promises: previews and metadata rely on no others.
KeepsContract == Queue!Spec

\* An artifact that is being generated is eventually ready or failed, although a
\* request may find the job of the node already past it.  A job stops at a
\* thumbnail that failed: a preview settles if the thumbnail can be made at all.
GenerationSettles ==
    \A n \in Nodes, k \in Kinds :
        k = "thumbnail" \/ <<n, "thumbnail">> \notin Broken =>
            (artifact[n][k].state = "generating")
                ~> (artifact[n][k].state # "generating" \/ life[n] # "here")

\* "Images, video, audio, PDF, and DOCX; generated on demand" (README.md:59): who
\* asks for a preview that can be made gets it.  No tool makes a thumbnail of a
\* DOCX file, and once one was asked for every job ends before the preview.
PreviewsArrive ==
    \A n \in Nodes :
        <<n, "preview">> \notin Broken =>
            []<>(artifact[n]["preview"].state = "ready" \/ life[n] # "here")

=============================================================================
