---------------------------- MODULE MediaProofs ----------------------------
(***************************************************************************)
(* Proofs about Media, for any number of files, requests, workers, keys,    *)
(* attempts and failures.                                                   *)
(***************************************************************************)
EXTENDS Media, TLAPS

----------------------------------------------------------------------------
(* The inductive invariant                                                  *)

Making == {"generate", "put", "record", "mark_failed"}

\* A slot that is free has no node; a handler that makes an artifact has its
\* key.
SlotsOK ==
    /\ \A r \in Requests : req[r].step = "idle" <=> req[r].node = None
    /\ \A w \in Workers :
        /\ work[w].step = "idle" <=> work[w].node = None
        /\ work[w].step \in Making => work[w].key # None
        /\ work[w].step \in PreviewSteps => work[w].type = "preview"
        /\ work[w].step \in MetadataSteps => work[w].type = "metadata"

\* While its node is there, a handler has its job for itself.
OneWorker ==
    /\ \A w \in Workers : work[w].step # "idle" /\ Exists(work[w].node) =>
        job[work[w].node][work[w].type].state = "leased"
    /\ \A v, w \in Workers :
        /\ v # w /\ work[v].step # "idle"
        /\ work[v].node = work[w].node /\ work[v].type = work[w].type
        => ~Exists(work[v].node)

\* All that there is to tell of a file has been extracted.
Whole(n) ==
    /\ record[n].mime = "completed" /\ "base" \in facts[n]
    /\ \/ n \notin Special /\ record[n].extractor = "unsupported"
       \/ record[n].extractor = "completed" /\ facts[n] = AllFacts

\* What a handler has written by the time of its next step.
Written(w) ==
    LET n == work[w].node
        s == work[w].step
    IN /\ s \in MetadataSteps \ {"mime"} => record[n].mime = "completed"
       /\ s \in MetadataSteps \ {"mime", "base"} => "base" \in facts[n]
       /\ s \in {"streams", "columns"} => record[n].extractor = "completed"
       /\ s = "columns" => "streams" \in facts[n]
       /\ s = "ok" /\ work[w].type = "metadata" => Whole(n)
ExtractionOK ==
    /\ \A w \in Workers : work[w].step # "idle" /\ Exists(work[w].node) => Written(w)
    /\ \A n \in Nodes :
        IF Exists(n) THEN Active(n, "metadata") \/ "metadata" \in failed[n] \/ Whole(n)
        ELSE record[n] = NoRecord

\* A key is that of one artifact, in its row and in the handlers that make it.
KeysApart ==
    /\ \A n, m \in Nodes, k, l \in Kinds :
        artifact[n][k].key = artifact[m][l].key =>
            artifact[n][k].key = None \/ (n = m /\ k = l)
    /\ \A w \in Workers, n \in Nodes, k \in Kinds :
        work[w].key = artifact[n][k].key =>
            work[w].key = None \/ (n = work[w].node /\ k = work[w].kind)
    /\ \A v, w \in Workers :
        work[v].key = work[w].key =>
            work[v].key = None \/ (work[v].node = work[w].node /\ work[v].kind = work[w].kind)

\* What is about to be recorded is stored.
PutOK ==
    \A w \in Workers : work[w].step = "record" =>
        work[w].key \in objects \/ work[w].node \notin originals

\* A deletion has keys of its own node on its list, and comes to them when the
\* original is gone.
ErasingOK ==
    \A n \in Nodes :
        /\ erasing[n].step = "artifacts" => n \notin originals
        /\ \A key \in erasing[n].keys :
            /\ \A m \in Nodes, k \in Kinds : artifact[m][k].key = key => m = n
            /\ \A w \in Workers : work[w].key = key => work[w].node = n

\* A handler makes what its row says is being generated, and a request makes anew
\* what it did not see ready.
MakingOK ==
    /\ \A w \in Workers : work[w].step \in Making /\ Exists(work[w].node) =>
        artifact[work[w].node][work[w].kind].state = "generating"
    /\ \A r \in Requests : req[r].step = "create" => req[r].saw \in {"none", "failed", "error"}

IInv ==
    /\ TypeOK /\ SlotsOK /\ OneWorker /\ ExtractionOK /\ KeysApart /\ ErasingOK
    /\ MakingOK /\ PutOK /\ ReadyStored

\* What holds besides if nobody makes previews of a file that is being deleted
\* ("late").  A deletion is alone with its file, and has all of the file's
\* artifacts that are stored on its list.
DeletionOK ==
    \A n \in Nodes :
        /\ life[n] = "here" => n \in originals /\ erasing[n].step = "idle"
        /\ life[n] = "gone" => n \notin originals
        /\ n \notin originals \/ erasing[n].step # "idle" => ~Busy(n)
        /\ erasing[n].step # "idle" => \A k \in Kinds :
            artifact[n][k].key \in objects => artifact[n][k].key \in erasing[n].keys

\* The key of a handler is that of its row, or has been taken out of it.
KeysHeld ==
    \A w \in Workers : work[w].key # None =>
        /\ work[w].step # "idle" /\ work[w].type = "preview"
        /\ \/ artifact[work[w].node][work[w].kind].key = work[w].key
           \/ work[w].key \in replaced

\* A row that has another key than the handler that works for it has no file yet.
RowUnmade ==
    \A w \in Workers : work[w].step \in Making =>
        LET key == artifact[work[w].node][work[w].kind].key IN
        key = work[w].key \/ key \notin objects

StrayInv == DeletionOK /\ KeysHeld /\ RowUnmade /\ NoStrayArtifact

----------------------------------------------------------------------------
(* The steps, by what they change                                           *)

Requesting(r) ==
    \/ \E n \in Nodes, k \in Kinds : GetArtifact(r, n, k)
    \/ Serve(r) \/ Create(r) \/ Generating(r) \/ RequestEnds(r)

Extracting(w) ==
    \/ Identify(w) \/ Extract(w) \/ ExtractorFailed(w)
    \/ RecordCompleted(w) \/ ReplaceStreams(w) \/ FillColumns(w)

Previewing(w) == Look(w) \/ Generate(w) \/ Put(w) \/ Record(w) \/ MarkFailed(w)

Queueing ==
    \/ \E w \in Workers : Report(w) \/ \E n \in Nodes, t \in Types : Claim(w, n, t)
    \/ \E n \in Nodes, t \in Types : Release(n, t)
    \/ \E S \in SUBSET Nodes : Reprocess(S)

Working(w) == Open(w) \/ Extracting(w) \/ Previewing(w) \/ StepFails(w)

\* A deletion before it comes to the rows.
Erasing(n) ==
    \/ ListKeys(n) \/ DeleteOriginal(n) \/ DeletionFails(n)
    \/ \E key \in Keys : DeleteArtifact(n, key)

Deleting == \E n \in Nodes : Trash(n) \/ Erasing(n) \/ PurgeRows(n)

\* Next, in the five parts that the proofs treat alike.
LEMMA Steps ==
    ASSUME [Next]_vars
    PROVE  \/ \E r \in Requests : Requesting(r)
           \/ \E w \in Workers : Working(w)
           \/ Queueing \/ Crash \/ Deleting
           \/ UNCHANGED vars
    BY DEF Next, Ask, Respond, Run, Handle, Requesting, Working, Extracting, Previewing,
        Queueing, Deleting, Erase, Erasing

\* It leaves the database, requests and handlers alone.
LEMMA ErasingSpares ==
    ASSUME NEW n \in Nodes, Erasing(n)
    PROVE  UNCHANGED <<life, artifact, job, failed, record, facts, outdated, replaced, req, work>>
    BY DEF Erasing, ListKeys, DeleteOriginal, DeletionFails, DeleteArtifact, db, queue, extracted

----------------------------------------------------------------------------
(* Types                                                                    *)

ReqType == [step : {"idle", "serve", "create", "enqueue"},
            node : Nodes \cup {None}, kind : Kinds, key : Keys \cup {None},
            saw : ArtifactStates \cup {"error"}]
EraseType == [step : {"idle", "original", "artifacts"}, keys : SUBSET Keys]
WorkType == [step : WorkSteps, node : Nodes \cup {None}, type : Types, kind : Kinds,
             key : Keys \cup {None}, found : BOOLEAN]
ArtifactType == [state : ArtifactStates, key : Keys \cup {None}]
JobType == [state : {"none", "pending", "leased"}, attempts : Nat]

\* The parts of TypeOK.
ArtifactsTyped ==
    /\ artifact \in [Nodes -> [Kinds -> ArtifactType]]
    /\ \A n \in Nodes, k \in Kinds :
        artifact[n][k].state = "none" <=> artifact[n][k].key = None
JobsTyped == job \in [Nodes -> [Types -> JobType]] /\ failed \in [Nodes -> SUBSET Types]
ExtractedTyped ==
    /\ record \in [Nodes -> [mime : {"none", "completed"},
                    extractor : {"none", "completed", "failed", "unsupported"}]]
    /\ facts \in [Nodes -> SUBSET AllFacts] /\ outdated \subseteq Nodes
RestTyped ==
    /\ life \in [Nodes -> {"here", "trashed", "gone"}]
    /\ originals \subseteq Nodes /\ budget \in 0 .. MaxFaults
StoreTyped ==
    /\ objects \subseteq Keys /\ replaced \subseteq Keys
    /\ erasing \in [Nodes -> EraseType]
ReqTyped == req \in [Requests -> ReqType]
WorkTyped == work \in [Workers -> WorkType]
TypeParts ==
    /\ ArtifactsTyped /\ JobsTyped /\ ExtractedTyped /\ RestTyped /\ StoreTyped
    /\ ReqTyped /\ WorkTyped

\* The type invariant is the conjunction of its parts.
LEMMA TypeSplit == (TypeOK <=> TypeParts) /\ (TypeOK' <=> TypeParts')
    BY DEF TypeOK, TypeParts, ArtifactsTyped, JobsTyped, ExtractedTyped, RestTyped, StoreTyped,
        ReqTyped, WorkTyped, ArtifactType, JobType, ReqType, EraseType, WorkType

\* A fresh key is one that nothing refers to.
LEMMA NewKeyFree ==
    ASSUME FreeKeys # {}
    PROVE  NewKey \in FreeKeys
    BY DEF NewKey

\* What writing a row does to the rows.
LEMMA RowSet ==
    ASSUME TypeOK, NEW n \in Nodes, NEW k \in Kinds, NEW s, NEW key, SetArtifact(n, k, s, key)
    PROVE  /\ artifact'[n][k] = [state |-> s, key |-> key]
           /\ \A m \in Nodes, l \in Kinds : m # n \/ l # k => artifact'[m][l] = artifact[m][l]
           /\ \A m \in Nodes : m # n => artifact'[m] = artifact[m]
    BY DEF TypeOK, SetArtifact

\* What becomes of a request that serves.
LEMMA ServeSets ==
    ASSUME TypeOK, NEW r \in Requests, Serve(r)
    PROVE  \/ req'[r] = NoReq
           \/ /\ req'[r].step = "create" /\ req'[r].saw = "error"
              /\ req'[r].node = req[r].node /\ req'[r].kind = req[r].kind
<1> DEFINE e == [req[r] EXCEPT !.step = "create", !.key = None, !.saw = "error"]
<1>1. req \in [Requests -> ReqType] /\ req[r] \in ReqType
    BY DEF TypeOK, ReqType
<1>2. /\ e.step = "create" /\ e.saw = "error"
      /\ e.node = req[r].node /\ e.kind = req[r].kind
    BY <1>1 DEF ReqType
<1>3. req' = [req EXCEPT ![r] = NoReq] \/ req' = [req EXCEPT ![r] = e]
    BY DEF Serve
<1> HIDE DEF e
<1> QED BY <1>1, <1>2, <1>3

\* What going on to another step does to a handler.
LEMMA GotoSets ==
    ASSUME TypeOK, NEW w \in Workers, NEW s, Goto(w, s)
    PROVE  /\ work'[w].step = s /\ work'[w].key = work[w].key
           /\ work'[w].kind = work[w].kind /\ work'[w].node = work[w].node
<1>1. work \in [Workers -> WorkType] /\ work[w] \in WorkType
    BY DEF TypeOK, WorkType
<1> QED BY <1>1 DEF Goto, WorkType

\* And going on to the next kind.
LEMMA NextKindSets ==
    ASSUME TypeOK, NEW w \in Workers, NEW found, NextKind(w, found)
    PROVE  work'[w].step \in {"look", "ok", "error"} /\ work'[w].key = None
<1>1. work \in [Workers -> WorkType] /\ work[w] \in WorkType
    BY DEF TypeOK, WorkType
<1>2. CASE work[w].kind = "thumbnail"
    BY <1>1, <1>2 DEF NextKind, WorkType
<1>3. CASE work[w].kind # "thumbnail"
    BY <1>1, <1>3 DEF NextKind, WorkType
<1> QED BY <1>2, <1>3

\* A row that is written has a key and a state.
LEMMA SetArtifactTyped ==
    ASSUME ConstantsOK, ArtifactsTyped, NEW n \in Nodes, NEW k \in Kinds, NEW key \in Keys,
           NEW s \in {"generating", "ready", "failed"}, SetArtifact(n, k, s, key)
    PROVE  ArtifactsTyped'
<1>1. [state |-> s, key |-> key] \in ArtifactType /\ key # None
    BY DEF ConstantsOK, ArtifactType, ArtifactStates
<1>2. artifact' = [artifact EXCEPT ![n][k] = [state |-> s, key |-> key]]
    BY DEF SetArtifact
<1>3. artifact' \in [Nodes -> [Kinds -> ArtifactType]]
    BY <1>1, <1>2 DEF ArtifactsTyped
<1>4. ASSUME NEW m \in Nodes, NEW l \in Kinds
      PROVE  artifact'[m][l].state = "none" <=> artifact'[m][l].key = None
    <2>1. CASE m = n /\ l = k
        BY <1>1, <1>2, <2>1 DEF ArtifactsTyped
    <2>2. CASE ~(m = n /\ l = k)
        <3>1. artifact'[m][l] = artifact[m][l]
            BY <1>2, <2>2 DEF ArtifactsTyped
        <3> QED BY <3>1 DEF ArtifactsTyped
    <2> QED BY <2>1, <2>2
<1> QED BY <1>3, <1>4 DEF ArtifactsTyped

\* A job that is written is a job.
LEMMA SetJobTyped ==
    ASSUME JobsTyped, NEW n \in Nodes, NEW t \in Types, NEW e \in JobType,
           job' = [job EXCEPT ![n][t] = e]
    PROVE  job' \in [Nodes -> [Types -> JobType]]
    BY DEF JobsTyped

\* A slot of a request changes, and nothing else of what SlotsOK speaks of.
LEMMA SetReqTyped ==
    ASSUME TypeOK, SlotsOK, NEW r \in Requests, NEW e \in ReqType,
           e.step = "idle" <=> e.node = None, req' = [req EXCEPT ![r] = e], UNCHANGED work
    PROVE  ReqTyped' /\ SlotsOK'
    BY TypeSplit DEF TypeParts, ReqTyped, SlotsOK

\* The steps of a request keep the types.
LEMMA TypeRequest ==
    ASSUME ConstantsOK, TypeOK, SlotsOK, NEW r \in Requests, Requesting(r)
    PROVE  TypeOK' /\ SlotsOK'
<1>0. req[r] \in ReqType /\ NoReq \in ReqType /\ NoReq.step = "idle" /\ NoReq.node = None
    BY DEF TypeOK, ReqType, NoReq, Kinds, ArtifactStates
<1>1. ASSUME NEW fault, Inject(fault)
      PROVE  budget' \in 0 .. MaxFaults
    BY <1>1 DEF ConstantsOK, TypeOK, Inject
<1>2. ASSUME NEW e \in ReqType, e.step = "idle" <=> e.node = None, req' = [req EXCEPT ![r] = e],
             UNCHANGED budget \/ \E fault \in AllFaults : Inject(fault),
             UNCHANGED <<db, store, work>>
      PROVE  TypeOK' /\ SlotsOK'
    <2>1. ReqTyped' /\ SlotsOK'
        BY <1>2, SetReqTyped
    <2>2. budget' \in 0 .. MaxFaults
        BY <1>1, <1>2 DEF TypeOK
    <2> QED BY <1>2, <2>1, <2>2, TypeSplit DEF TypeParts, ArtifactsTyped, JobsTyped,
            ExtractedTyped, RestTyped, StoreTyped, WorkTyped, db, queue, extracted, store
<1>3. CASE \E n \in Nodes, k \in Kinds : GetArtifact(r, n, k)
    <2>1. PICK n \in Nodes, k \in Kinds : GetArtifact(r, n, k)
        BY <1>3
    <2>2. artifact[n][k].state \in ArtifactStates /\ artifact[n][k].key \in Keys \cup {None}
        BY DEF TypeOK
    <2> DEFINE e(s, what) == [step |-> s, node |-> n, kind |-> k,
                    key |-> IF s = "serve" THEN artifact[n][k].key ELSE None, saw |-> what]
    <2>3. ASSUME NEW s \in {"serve", "enqueue", "create"},
                 NEW what \in ArtifactStates \cup {"error"}
          PROVE  e(s, what) \in ReqType /\ e(s, what).step # "idle" /\ e(s, what).node # None
        BY <2>2 DEF ConstantsOK, ReqType
    <2>4. /\ UNCHANGED budget \/ \E fault \in AllFaults : Inject(fault)
          /\ UNCHANGED <<db, store, work>>
          /\ \E s \in {"serve", "enqueue", "create"}, what \in ArtifactStates \cup {"error"} :
                req' = [req EXCEPT ![r] = e(s, what)]
        BY <2>1, <2>2 DEF GetArtifact, AllFaults
    <2> HIDE DEF e
    <2> QED BY <1>2, <2>3, <2>4
<1>4. CASE Serve(r)
    <2> DEFINE e == [req[r] EXCEPT !.step = "create", !.key = None, !.saw = "error"]
    <2>1. e \in ReqType /\ e.step # "idle" /\ e.node # None
        BY <1>0, <1>4 DEF Serve, SlotsOK, ReqType
    <2>2. /\ UNCHANGED budget \/ \E fault \in AllFaults : Inject(fault)
          /\ UNCHANGED <<db, store, work>>
          /\ req' = [req EXCEPT ![r] = NoReq] \/ req' = [req EXCEPT ![r] = e]
        BY <1>4 DEF Serve, AllFaults
    <2> HIDE DEF e
    <2> QED BY <1>0, <1>2, <2>1, <2>2
<1>5. CASE Create(r)
    <2>1. PICK e \in ReqType :
            (e.step = "idle" <=> e.node = None) /\ req' = [req EXCEPT ![r] = e]
        BY <1>0, <1>5 DEF Create, SlotsOK, ReqType, ArtifactStates
    <2>2. ReqTyped' /\ SlotsOK'
        BY <1>5, <2>1, SetReqTyped DEF Create
    <2>3. ASSUME FreeKeys # {}, SetArtifact(req[r].node, req[r].kind, "generating", NewKey)
          PROVE  ArtifactsTyped'
        <3>1. NewKey \in Keys /\ req[r].node \in Nodes /\ req[r].kind \in Kinds
            BY <1>0, <1>5, <2>3, NewKeyFree DEF FreeKeys, SlotsOK, Create, ReqType
        <3> QED BY <2>3, <3>1, SetArtifactTyped, TypeSplit DEF TypeParts
    <2>4. ASSUME UNCHANGED artifact PROVE ArtifactsTyped'
        BY <2>4, TypeSplit DEF TypeParts, ArtifactsTyped
    <2>5. ArtifactsTyped'
        BY <1>5, <2>3, <2>4, TypeSplit DEF Create, TypeParts
    <2>6. StoreTyped'
        <3>1. StoreTyped /\ UNCHANGED <<objects, erasing>>
            BY <1>5, TypeSplit DEF Create, TypeParts
        <3>2. replaced' \subseteq replaced \cup FilesKept \/ UNCHANGED replaced
            BY <1>5 DEF Create
        <3> QED BY <3>1, <3>2 DEF StoreTyped, FilesKept
    <2> QED BY <1>5, <2>2, <2>5, <2>6, TypeSplit DEF Create, TypeParts, JobsTyped,
            ExtractedTyped, RestTyped, WorkTyped, queue, extracted
<1>6. CASE Generating(r)
    <2>1. req' = [req EXCEPT ![r] = NoReq] /\ ReqTyped' /\ SlotsOK'
        BY <1>0, <1>6, SetReqTyped DEF Generating
    <2>2. req[r].node \in Nodes
        BY <1>0, <1>6 DEF Generating, SlotsOK, ReqType
    <2>3. job' \in [Nodes -> [Types -> JobType]]
        BY <1>6, <2>2, SetJobTyped, TypeSplit DEF Generating, Enqueue, TypeParts, JobsTyped,
            JobType, Types
    <2> QED BY <1>6, <2>1, <2>3, TypeSplit DEF Generating, TypeParts, ArtifactsTyped,
            JobsTyped, ExtractedTyped, RestTyped, StoreTyped, WorkTyped, extracted, store
<1>7. CASE RequestEnds(r)
    BY <1>0, <1>2, <1>7 DEF RequestEnds, AllFaults
<1> QED BY <1>3, <1>4, <1>5, <1>6, <1>7 DEF Requesting

\* What a step of a handler does to the handler, and what it leaves alone.
Moves(w) ==
    LET e == work'[w] IN
    /\ work[w].step # "idle" /\ e.step # "idle"
    /\ work' = [work EXCEPT ![w] = e] /\ e \in WorkType
    /\ e.node = work[w].node /\ e.type = work[w].type
    /\ e.step \in Making => e.key # None
    /\ e.step \in PreviewSteps => e.type = "preview"
    /\ e.step \in MetadataSteps => e.type = "metadata"
    /\ UNCHANGED <<life, job, failed, originals, req>>

\* Going on to the next kind is a move of the handler.
LEMMA HandlerGoesOn ==
    ASSUME ConstantsOK, TypeOK, SlotsOK, NEW w \in Workers, NEW found \in BOOLEAN,
           work[w].step \in PreviewSteps, NextKind(w, found),
           UNCHANGED <<life, job, failed, originals, req>>
    PROVE  Moves(w)
<1> USE DEF Kinds, Types, WorkSteps, PreviewSteps, MetadataSteps, Making, WorkType
<1>1. work \in [Workers -> WorkType] /\ work[w] \in WorkType /\ work[w].type = "preview"
    BY DEF TypeOK, SlotsOK
<1>2. CASE work[w].kind = "thumbnail"
    BY <1>1, <1>2 DEF NextKind, Moves
<1>3. CASE work[w].kind # "thumbnail"
    BY <1>1, <1>3 DEF NextKind, Moves
<1> QED BY <1>2, <1>3

\* Every step of a handler moves it on with the same job.
LEMMA HandlerMoves ==
    ASSUME ConstantsOK, TypeOK, SlotsOK, NEW w \in Workers, Working(w)
    PROVE  Moves(w)
<1> USE DEF Kinds, Types, WorkSteps, PreviewSteps, MetadataSteps, Making, WorkType
<1>0. work \in [Workers -> WorkType] /\ work[w] \in WorkType
    BY DEF TypeOK
<1>1. CASE Open(w)
    BY <1>0, <1>1 DEF SlotsOK, Open, Goto, Moves, db, queue, extracted, store
<1>2. CASE Look(w)
    <2>1. artifact[work[w].node][work[w].kind].state = "generating" =>
            artifact[work[w].node][work[w].kind].key \in Keys
        BY <1>0, <1>2 DEF TypeOK, SlotsOK, Look
    <2>2. UNCHANGED <<life, job, failed, originals, req>> /\ work[w].step = "look"
        BY <1>2 DEF Look, db, queue, store
    <2>3. \/ work' = [work EXCEPT ![w].step = "error"]
          \/ /\ artifact[work[w].node][work[w].kind].state = "generating"
             /\ work' = [work EXCEPT ![w] = [@ EXCEPT !.step = "generate",
                    !.key = artifact[work[w].node][work[w].kind].key, !.found = TRUE]]
          \/ NextKind(w, work[w].found)
        BY <1>2 DEF Look, Goto
    <2>4. NextKind(w, work[w].found) => Moves(w)
        BY <1>0, <2>2, HandlerGoesOn
    <2>5. work' = [work EXCEPT ![w].step = "error"] => Moves(w)
        BY <1>0, <2>2 DEF SlotsOK, Moves
    <2>6. ASSUME NEW key \in Keys, work' = [work EXCEPT ![w] =
                    [@ EXCEPT !.step = "generate", !.key = key, !.found = TRUE]]
          PROVE  Moves(w)
        BY <1>0, <2>2, <2>6 DEF ConstantsOK, SlotsOK, Moves
    <2> QED BY <2>1, <2>3, <2>4, <2>5, <2>6
<1>3. CASE Generate(w)
    BY <1>0, <1>3 DEF SlotsOK, Generate, Goto, Moves, db, queue, extracted, store
<1>4. CASE Put(w)
    BY <1>0, <1>4 DEF SlotsOK, Put, Goto, Moves, db, queue, extracted
<1>5. CASE Record(w)
    <2>1. UNCHANGED <<life, job, failed, originals, req>> /\ work[w].step = "record"
        BY <1>5 DEF Record, queue, store
    <2>2. NextKind(w, TRUE) => Moves(w)
        BY <1>0, <2>1, HandlerGoesOn
    <2>3. Goto(w, "mark_failed") => Moves(w)
        BY <1>0, <2>1 DEF SlotsOK, Goto, Moves
    <2> QED BY <1>5, <2>2, <2>3 DEF Record
<1>6. CASE MarkFailed(w)
    BY <1>0, <1>6 DEF SlotsOK, MarkFailed, Moves, queue, extracted, store
<1>7. CASE Extracting(w)
    <2> USE DEF Moves, Goto, Then, Quiet, queue, store
    <2>1. CASE Identify(w)
        BY <1>0, <2>1 DEF SlotsOK, Identify
    <2>2. CASE Extract(w)
        BY <1>0, <2>2 DEF SlotsOK, Extract
    <2>3. CASE ExtractorFailed(w)
        BY <1>0, <2>3 DEF SlotsOK, ExtractorFailed
    <2>4. CASE RecordCompleted(w) \/ ReplaceStreams(w) \/ FillColumns(w)
        BY <1>0, <2>4 DEF SlotsOK, RecordCompleted, ReplaceStreams, FillColumns
    <2> QED BY <1>7, <2>1, <2>2, <2>3, <2>4 DEF Extracting
<1>8. CASE StepFails(w)
    BY <1>0, <1>8 DEF SlotsOK, StepFails, Goto, Moves, db, queue, extracted, store
<1> QED BY <1>1, <1>2, <1>3, <1>4, <1>5, <1>6, <1>7, <1>8 DEF Working, Previewing

\* The steps of a handler keep the types.
LEMMA TypeWork ==
    ASSUME ConstantsOK, TypeOK, SlotsOK, NEW w \in Workers, Working(w)
    PROVE  TypeOK' /\ SlotsOK'
<1>1. Moves(w)
    BY HandlerMoves
<1>2. WorkTyped' /\ SlotsOK'
    BY <1>1, TypeSplit DEF TypeParts, WorkTyped, SlotsOK, Moves
<1>3. ArtifactsTyped'
    <2>1. CASE UNCHANGED artifact
        BY <2>1, TypeSplit DEF TypeParts, ArtifactsTyped
    <2>2. CASE Record(w) \/ MarkFailed(w)
        <3>1. work[w].key \in Keys /\ work[w].node \in Nodes /\ work[w].kind \in Kinds
            BY <2>2 DEF ConstantsOK, TypeOK, SlotsOK, Record, MarkFailed, Making
        <3>2. \/ UNCHANGED artifact
              \/ \E s \in {"ready", "failed"} :
                    SetArtifact(work[w].node, work[w].kind, s, work[w].key)
            BY <2>2 DEF Record, MarkFailed
        <3> QED BY <2>1, <3>1, <3>2, SetArtifactTyped, TypeSplit DEF TypeParts
    <2> QED BY <2>1, <2>2 DEF Working, Open, Extracting, Identify, Extract, ExtractorFailed,
            RecordCompleted, ReplaceStreams, FillColumns, Quiet, Previewing, Look, Generate,
            Put, StepFails, db
<1>4. StoreTyped'
    <2>1. Put(w) => work[w].key \in Keys
        BY DEF ConstantsOK, TypeOK, SlotsOK, Put, Making
    <2>2. UNCHANGED <<objects, erasing, replaced>> \/ Put(w)
        BY DEF Working, Open, Extracting, Identify, Extract, ExtractorFailed,
            RecordCompleted, ReplaceStreams, FillColumns, Quiet, Previewing, Look, Generate,
            Record, MarkFailed, StepFails, store
    <2> QED BY <2>1, <2>2, TypeSplit DEF TypeParts, StoreTyped, Put
<1>5. ExtractedTyped'
    <2>0. ExtractedTyped
        BY TypeSplit DEF TypeParts
    <2>1. CASE UNCHANGED extracted
        BY <2>0, <2>1 DEF ExtractedTyped, extracted
    <2>2. CASE \E what \in {"mime", "base", "completed", "failed", "unsupported"} :
                    Persist(w, what)
        BY <2>0, <2>1, <2>2 DEF ExtractedTyped, Persist, AllFacts
    <2>3. CASE \E fact \in {"streams", "columns"} :
                /\ facts' = [facts EXCEPT ![work[w].node] =
                        IF Exists(work[w].node) THEN @ \cup {fact} ELSE @]
                /\ UNCHANGED <<record, outdated>>
        <3>1. PICK fact \in AllFacts : facts' = [facts EXCEPT ![work[w].node] =
                        IF Exists(work[w].node) THEN @ \cup {fact} ELSE @]
            BY <2>3 DEF AllFacts
        <3>2. facts' \in [Nodes -> SUBSET AllFacts]
            BY <2>0, <3>1 DEF ExtractedTyped
        <3> QED BY <2>0, <2>3, <3>2 DEF ExtractedTyped
    <2> QED BY <2>1, <2>2, <2>3 DEF Working, Open, Extracting, Identify, Extract,
            ExtractorFailed, RecordCompleted, ReplaceStreams, FillColumns, Previewing, Look,
            Generate, Put, Record, MarkFailed, StepFails, db
<1>6. budget' \in 0 .. MaxFaults
    <2>1. UNCHANGED budget \/ \E fault \in AllFaults : Inject(fault)
        BY DEF Working, Open, Extracting, Identify, Extract, ExtractorFailed,
            RecordCompleted, ReplaceStreams, FillColumns, Previewing, Look, Generate,
            Put, Record, MarkFailed, StepFails, AllFaults
    <2> QED BY <2>1 DEF ConstantsOK, TypeOK, Inject
<1> QED BY <1>1, <1>2, <1>3, <1>4, <1>5, <1>6, TypeSplit DEF TypeParts, JobsTyped, ReqTyped,
        RestTyped, Moves

\* The steps of the queue, of the process and of a deletion keep the types.
LEMMA TypeOther ==
    ASSUME ConstantsOK, TypeOK, SlotsOK, Queueing \/ Crash \/ Deleting \/ UNCHANGED vars
    PROVE  TypeOK' /\ SlotsOK'
<1> USE TypeSplit DEF TypeParts
<1>0. TypeParts /\ NoWork \in WorkType /\ NoJob \in JobType
    BY DEF NoWork, WorkType, WorkSteps, NoJob, JobType, Kinds, Types
<1>1. CASE \E w \in Workers : Report(w)
    <2>1. PICK w \in Workers : Report(w)
        BY <1>1
    <2>2. /\ work[w].node \in Nodes /\ work[w].type \in Types
          /\ work' = [work EXCEPT ![w] = NoWork]
        BY <2>1 DEF TypeOK, SlotsOK, Report
    <2>3. JobsTyped'
        <3>1. job' \in [Nodes -> [Types -> JobType]]
            <4>1. \/ UNCHANGED job
                  \/ job' = [job EXCEPT ![work[w].node][work[w].type] = NoJob]
                  \/ job' = [job EXCEPT ![work[w].node][work[w].type] =
                                [@ EXCEPT !.state = "pending"]]
                BY <2>1 DEF Report, queue
            <4>2. job[work[w].node][work[w].type] \in JobType
                BY <1>0, <2>2 DEF JobsTyped
            <4>3. [job[work[w].node][work[w].type] EXCEPT !.state = "pending"] \in JobType
                BY <4>2 DEF JobType
            <4> QED BY <1>0, <2>2, <4>1, <4>3, SetJobTyped DEF JobsTyped
        <3>2. failed' \in [Nodes -> SUBSET Types]
            BY <1>0, <2>1, <2>2 DEF JobsTyped, Report, queue
        <3> QED BY <3>1, <3>2 DEF JobsTyped
    <2>4. WorkTyped' /\ SlotsOK'
        BY <1>0, <2>1, <2>2 DEF WorkTyped, SlotsOK, Report, NoWork, PreviewSteps,
            MetadataSteps, Making
    <2> QED BY <1>0, <2>1, <2>3, <2>4 DEF Report, ArtifactsTyped, ExtractedTyped, RestTyped,
            StoreTyped, ReqTyped, extracted, store
<1>2. CASE \E w \in Workers, n \in Nodes, t \in Types : Claim(w, n, t)
    <2>1. PICK w \in Workers, n \in Nodes, t \in Types : Claim(w, n, t)
        BY <1>2
    <2>2. JobsTyped'
        BY <1>0, <2>1 DEF JobsTyped, Claim, JobType
    <2>3. WorkTyped' /\ SlotsOK'
        <3> DEFINE e == [NoWork EXCEPT !.step = "open", !.node = n, !.type = t]
        <3>1. work' = [work EXCEPT ![w] = e] /\ UNCHANGED req
            BY <2>1 DEF Claim
        <3>2. e.step = "open" /\ e.node = n /\ e.type = t /\ e \in WorkType
            BY DEF NoWork, WorkType, WorkSteps, Kinds, Types
        <3>3. e.step \notin PreviewSteps \cup MetadataSteps \cup Making \cup {"idle"}
            BY <3>2 DEF PreviewSteps, MetadataSteps, Making
        <3> HIDE DEF e
        <3> QED BY <1>0, <3>1, <3>2, <3>3 DEF ConstantsOK, WorkTyped, SlotsOK
    <2> QED BY <1>0, <2>1, <2>2, <2>3 DEF Claim, ArtifactsTyped, ExtractedTyped, RestTyped,
            StoreTyped, ReqTyped, extracted, store
<1>3. CASE \E n \in Nodes, t \in Types : Release(n, t)
    <2>1. JobsTyped'
        <3>1. PICK n \in Nodes, t \in Types :
                /\ job' = [job EXCEPT ![n][t] = [@ EXCEPT !.state = "pending"]]
                /\ UNCHANGED failed
            BY <1>3 DEF Release
        <3>2. [job[n][t] EXCEPT !.state = "pending"] \in JobType
            BY <1>0 DEF JobsTyped, JobType
        <3> QED BY <1>0, <3>1, <3>2, SetJobTyped DEF JobsTyped
    <2> QED BY <1>0, <1>3, <2>1 DEF Release, SlotsOK, ArtifactsTyped, ExtractedTyped,
            RestTyped, StoreTyped, ReqTyped, WorkTyped, extracted, store
<1>4. CASE \E S \in SUBSET Nodes : Reprocess(S)
    <2>1. JobsTyped'
        BY <1>0, <1>4 DEF JobsTyped, Reprocess, JobType
    <2> QED BY <1>0, <1>4, <2>1 DEF Reprocess, SlotsOK, ArtifactsTyped, ExtractedTyped,
            RestTyped, StoreTyped, ReqTyped, WorkTyped, extracted, store
<1>5. CASE Crash
    <2>1. WorkTyped' /\ SlotsOK'
        BY <1>0, <1>5 DEF WorkTyped, SlotsOK, Crash, NoWork, PreviewSteps, MetadataSteps,
            Making
    <2>2. budget' \in 0 .. MaxFaults
        BY <1>5 DEF ConstantsOK, TypeOK, Crash, Inject
    <2>3. StoreTyped'
        BY <1>0, <1>5 DEF StoreTyped, Crash, EraseType, NotErasing
    <2> QED BY <1>0, <1>5, <2>1, <2>2, <2>3 DEF Crash, ArtifactsTyped, JobsTyped,
            ExtractedTyped, RestTyped, ReqTyped, db, queue, extracted
<1>6. CASE \E n \in Nodes : Trash(n)
    BY <1>0, <1>6 DEF SlotsOK, Trash, ArtifactsTyped, JobsTyped, ExtractedTyped, RestTyped,
        StoreTyped, ReqTyped, WorkTyped, queue, extracted, store
<1>7. CASE \E n \in Nodes : Erasing(n)
    <2>1. PICK n \in Nodes : Erasing(n)
        BY <1>7
    <2>2. UNCHANGED <<life, artifact, job, failed, record, facts, outdated, replaced, req, work>>
        BY <2>1, ErasingSpares
    <2>3. originals' \subseteq originals /\ objects' \subseteq objects
          /\ (UNCHANGED budget \/ \E fault \in AllFaults : Inject(fault))
        BY <2>1 DEF Erasing, ListKeys, DeleteOriginal, DeletionFails, DeleteArtifact, AllFaults
    <2>4. RestTyped'
        BY <1>0, <2>2, <2>3 DEF ConstantsOK, RestTyped, Inject
    <2>5. erasing' \in [Nodes -> EraseType]
        <3>1. {artifact[n][k].key : k \in Kinds} \ {None} \subseteq Keys
            BY <1>0 DEF ArtifactsTyped, ArtifactType
        <3>2. erasing[n] \in EraseType
            BY <1>0 DEF StoreTyped
        <3>3. \E e \in EraseType : erasing' = [erasing EXCEPT ![n] = e]
            BY <2>1, <3>1, <3>2 DEF Erasing, ListKeys, DeleteOriginal, DeletionFails,
                DeleteArtifact, EraseType, NotErasing
        <3> QED BY <1>0, <3>3 DEF StoreTyped
    <2> QED BY <1>0, <2>2, <2>3, <2>4, <2>5 DEF SlotsOK, ArtifactsTyped, JobsTyped,
            ExtractedTyped, StoreTyped, ReqTyped, WorkTyped
<1>8. CASE \E n \in Nodes : PurgeRows(n)
    <2>1. PICK n \in Nodes : PurgeRows(n)
        BY <1>8
    <2>2. ArtifactsTyped'
        BY <1>0, <2>1 DEF ArtifactsTyped, PurgeRows, NoArtifact, ArtifactType, ArtifactStates
    <2>3. JobsTyped'
        BY <1>0, <2>1 DEF JobsTyped, PurgeRows
    <2>4. ExtractedTyped'
        BY <1>0, <2>1 DEF ExtractedTyped, PurgeRows, NoRecord
    <2>5. StoreTyped'
        BY <1>0, <2>1 DEF StoreTyped, PurgeRows, EraseType, NotErasing
    <2> QED BY <1>0, <2>1, <2>2, <2>3, <2>4, <2>5 DEF SlotsOK, PurgeRows, RestTyped, ReqTyped,
            WorkTyped
<1>9. CASE UNCHANGED vars
    BY <1>9 DEF TypeOK, SlotsOK, vars, db, queue, extracted, store
<1> QED BY <1>1, <1>2, <1>3, <1>4, <1>5, <1>6, <1>7, <1>8, <1>9 DEF Queueing, Deleting

\* A handler that the queue starts or ends, or that dies, makes nothing.
LEMMA QueueingWork ==
    ASSUME TypeOK, Queueing \/ Crash
    PROVE  \A v \in Workers :
            work'[v] = work[v] \/ (work'[v].step \in {"idle", "open"} /\ work'[v].key = None)
<1>1. CASE \E w \in Workers : Report(w)
    BY <1>1 DEF TypeOK, Report, NoWork
<1>2. CASE \E w \in Workers, n \in Nodes, t \in Types : Claim(w, n, t)
    BY <1>2 DEF TypeOK, Claim, NoWork
<1>3. CASE Crash
    BY <1>3 DEF Crash, NoWork
<1>4. CASE UNCHANGED work
    BY <1>4
<1> QED BY <1>1, <1>2, <1>3, <1>4 DEF Queueing, Release, Reprocess

----------------------------------------------------------------------------
(* One handler per job                                                      *)

\* What the queue's part needs of a step: the handlers' jobs stay leased.
LEMMA OneWorkerHolds ==
    ASSUME ConstantsOK, TypeOK, SlotsOK, OneWorker, [Next]_vars
    PROVE  OneWorker'
<1>1. ASSUME NEW r \in Requests, Requesting(r)
      PROVE  OneWorker'
    <2>1. UNCHANGED <<life, work>>
        BY <1>1 DEF Requesting, GetArtifact, Serve, Create, Generating, RequestEnds, db
    <2>2. \A n \in Nodes, t \in Types :
            job[n][t].state = "leased" => job'[n][t].state = "leased"
        <3>1. UNCHANGED job \/ Enqueue(req[r].node, "preview")
            BY <1>1 DEF Requesting, GetArtifact, Serve, Create, Generating, RequestEnds, db,
                queue
        <3>2. req[r].node \in Nodes \cup {None}
            BY DEF TypeOK
        <3>3. CASE Exists(req[r].node) /\ ~Active(req[r].node, "preview") /\
                    Enqueue(req[r].node, "preview")
            <4>1. job[req[r].node]["preview"].state = "none"
                BY <3>3 DEF Active
            <4>2. job' = [job EXCEPT ![req[r].node]["preview"] =
                            [state |-> "pending", attempts |-> 0]]
                BY <3>3 DEF Enqueue
            <4> QED BY <4>1, <4>2 DEF TypeOK
        <3> QED BY <3>1, <3>3 DEF Enqueue
    <2> QED BY <2>1, <2>2 DEF TypeOK, SlotsOK, OneWorker, Exists
<1>2. ASSUME NEW w \in Workers, Working(w)
      PROVE  OneWorker'
    <2>1. Moves(w)
        BY <1>2, HandlerMoves
    <2>2. \A v \in Workers : /\ work'[v].node = work[v].node /\ work'[v].type = work[v].type
                             /\ work'[v].step = "idle" <=> work[v].step = "idle"
        BY <2>1 DEF TypeOK, Moves
    <2> QED BY <2>1, <2>2 DEF OneWorker, Moves, Exists
<1>3. ASSUME NEW w \in Workers, Report(w)
      PROVE  OneWorker'
    <2>1. /\ work[w].step # "idle" /\ work' = [work EXCEPT ![w] = NoWork] /\ UNCHANGED life
          /\ \A n \in Nodes, t \in Types :
                n # work[w].node \/ t # work[w].type => job'[n][t] = job[n][t]
        BY <1>3 DEF TypeOK, Report, queue
    <2>2. ASSUME NEW v \in Workers, work'[v].step # "idle", Exists(work[v].node)'
          PROVE  job'[work'[v].node][work'[v].type].state = "leased"
        <3>1. v # w /\ work'[v] = work[v] /\ Exists(work[v].node)
            BY <2>1, <2>2 DEF TypeOK, NoWork, Exists
        <3>2. work[v].node # work[w].node \/ work[v].type # work[w].type
            BY <2>1, <2>2, <3>1 DEF OneWorker
        <3>3. work[v].node \in Nodes /\ work[v].type \in Types
            BY <2>2, <3>1 DEF TypeOK, SlotsOK
        <3> QED BY <2>1, <2>2, <3>1, <3>2, <3>3 DEF OneWorker
    <2>3. ASSUME NEW u \in Workers, NEW v \in Workers, u # v, work'[u].step # "idle",
                 work'[u].node = work'[v].node, work'[u].type = work'[v].type
          PROVE  ~Exists(work[u].node)'
        <3>1. u # w /\ work'[u] = work[u] /\ work[u].node # None
            BY <2>1, <2>3 DEF TypeOK, SlotsOK, NoWork
        <3>2. v # w /\ work'[v] = work[v]
            BY <2>1, <2>3, <3>1 DEF TypeOK, NoWork
        <3> QED BY <2>1, <2>3, <3>1, <3>2 DEF OneWorker, Exists
    <2> QED BY <2>2, <2>3 DEF OneWorker
<1>4. ASSUME NEW w \in Workers, NEW n \in Nodes, NEW t \in Types, Claim(w, n, t)
      PROVE  OneWorker'
    <2>1. /\ job[n][t].state = "pending" /\ job'[n][t].state = "leased" /\ UNCHANGED life
          /\ \A m \in Nodes, l \in Types : m # n \/ l # t => job'[m][l] = job[m][l]
          /\ \A v \in Workers \ {w} : work'[v] = work[v]
          /\ work'[w].step # "idle" /\ work'[w].node = n /\ work'[w].type = t
        BY <1>4 DEF TypeOK, Claim, NoWork
    <2>2. \A v \in Workers : work[v].step # "idle" /\ Exists(work[v].node) =>
            work[v].node # n \/ work[v].type # t
        BY <2>1 DEF OneWorker
    <2>3. \A v \in Workers : work[v].step # "idle" =>
            work[v].node \in Nodes /\ work[v].type \in Types
        BY DEF TypeOK, SlotsOK
    <2>4. ASSUME NEW v \in Workers, work'[v].step # "idle", Exists(work[v].node)'
          PROVE  job'[work'[v].node][work'[v].type].state = "leased"
        BY <2>1, <2>3, <2>4 DEF OneWorker, Exists
    <2>5. ASSUME NEW u \in Workers, NEW v \in Workers, u # v, work'[u].step # "idle",
                 work'[u].node = work'[v].node, work'[u].type = work'[v].type
          PROVE  ~Exists(work[u].node)'
        <3>1. CASE u = w
            <4>1. work[v].node = n /\ work[v].type = t /\ work[v].step # "idle"
                BY <2>1, <2>5, <3>1 DEF ConstantsOK, SlotsOK
            <4> QED BY <2>1, <2>2, <3>1, <4>1 DEF Exists
        <3>2. CASE v = w
            BY <2>1, <2>2, <2>5, <3>2 DEF Exists
        <3>3. CASE u # w /\ v # w
            BY <2>1, <2>5, <3>3 DEF OneWorker, Exists
        <3> QED BY <3>1, <3>2, <3>3
    <2> QED BY <2>4, <2>5 DEF OneWorker
<1>5. ASSUME NEW n \in Nodes, NEW t \in Types, Release(n, t)
      PROVE  OneWorker'
    BY <1>5 DEF TypeOK, SlotsOK, OneWorker, Release, Exists
<1>6. ASSUME NEW S \in SUBSET Nodes, Reprocess(S)
      PROVE  OneWorker'
    <2>1. \A n \in Nodes, t \in Types :
            job[n][t].state = "leased" => job'[n][t].state = "leased"
        BY <1>6 DEF TypeOK, Reprocess, Active
    <2> QED BY <1>6, <2>1 DEF TypeOK, SlotsOK, OneWorker, Reprocess, Exists
<1>7. CASE Crash
    BY <1>7 DEF OneWorker, Crash, NoWork, Exists, db
<1>8. ASSUME NEW n \in Nodes, Trash(n) \/ Erasing(n)
      PROVE  OneWorker'
    <2>1. UNCHANGED <<work, job>> /\ \A m \in Nodes : Exists(m)' => Exists(m)
        <3>1. CASE Trash(n)
            BY <3>1 DEF TypeOK, Trash, Exists, queue
        <3>2. CASE Erasing(n)
            BY <3>2, ErasingSpares DEF Exists
        <3> QED BY <1>8, <3>1, <3>2
    <2> QED BY <2>1 DEF TypeOK, SlotsOK, OneWorker
<1>9. ASSUME NEW n \in Nodes, PurgeRows(n)
      PROVE  OneWorker'
    BY <1>9 DEF TypeOK, SlotsOK, OneWorker, PurgeRows, Exists
<1>10. CASE UNCHANGED vars
    BY <1>10 DEF OneWorker, Exists, vars, db, queue
<1> QED BY <1>1, <1>2, <1>3, <1>4, <1>5, <1>6, <1>7, <1>8, <1>9, <1>10, Steps
        DEF Queueing, Deleting

----------------------------------------------------------------------------
(* Keys                                                                     *)

\* What a step of a handler does to its key: it keeps it, takes that of the row,
\* or writes it into the row and is done with it.
HandsOn(w) ==
    LET n == work[w].node
        k == work[w].kind
        e == work'[w]
    IN \/ UNCHANGED artifact /\ e.key = None
       \/ /\ UNCHANGED artifact /\ e.key = work[w].key /\ e.kind = k
          /\ e.step \in Making => work[w].step \in Making
       \/ /\ UNCHANGED artifact /\ e.key = artifact[n][k].key /\ e.kind = k
          /\ work[w].step = "look"
       \/ \E s \in {"ready", "failed"} : SetArtifact(n, k, s, work[w].key) /\ e.key = None

\* Every step of a handler treats its key so.
LEMMA HandlerHandsOn ==
    ASSUME TypeOK, NEW w \in Workers, Working(w)
    PROVE  HandsOn(w)
<1> DEFINE e == work'[w]
           k == work[w].kind
<1>0. work \in [Workers -> WorkType] /\ work[w] \in WorkType
    BY DEF TypeOK, WorkType
<1>1. ASSUME NEW found, NextKind(w, found)
      PROVE  e.key = None
    BY <1>0, <1>1 DEF NextKind, WorkType
<1>2. ASSUME NEW step, Goto(w, step)
      PROVE  e.key = work[w].key /\ e.kind = k /\ e.step = step
    BY <1>0, <1>2 DEF Goto, WorkType
<1>3. CASE Open(w) \/ Generate(w) \/ Put(w) \/ StepFails(w) \/ Extracting(w)
    <2>1. /\ UNCHANGED artifact
          /\ \E step : Goto(w, step) /\ (step \in Making => work[w].step \in Making)
        BY <1>3 DEF Open, Generate, Put, StepFails, Extracting, Identify, Extract, Making,
            ExtractorFailed, RecordCompleted, ReplaceStreams, FillColumns, Then, Quiet, db
    <2> QED BY <1>2, <2>1 DEF HandsOn
<1>4. CASE Look(w)
    <2>1. UNCHANGED artifact
        BY <1>4 DEF Look, db
    <2>2. \/ Goto(w, "error") \/ NextKind(w, work[w].found)
          \/ work' = [work EXCEPT ![w] = [@ EXCEPT !.step = "generate",
                    !.key = artifact[work[w].node][k].key, !.found = TRUE]]
        BY <1>4 DEF Look
    <2>3. work[w].step = "look" /\ "error" \notin Making
        BY <1>4 DEF Look, Making
    <2>4. CASE Goto(w, "error") \/ NextKind(w, work[w].found)
        BY <1>1, <1>2, <2>1, <2>3, <2>4 DEF HandsOn
    <2>5. CASE work' = [work EXCEPT ![w] = [@ EXCEPT !.step = "generate",
                    !.key = artifact[work[w].node][k].key, !.found = TRUE]]
        <3>1. e.key = artifact[work[w].node][k].key /\ e.kind = k
            BY <1>0, <2>5 DEF WorkType
        <3> QED BY <2>1, <2>3, <3>1 DEF HandsOn
    <2> QED BY ONLY <2>2, <2>4, <2>5
<1>5. CASE Record(w)
    <2>1. work[w].step \in Making
        BY <1>5 DEF Record, Making
    <2> QED BY <1>1, <1>2, <1>5, <2>1 DEF Record, HandsOn
<1>6. CASE MarkFailed(w)
    BY <1>0, <1>6 DEF MarkFailed, HandsOn, WorkType
<1> QED BY <1>3, <1>4, <1>5, <1>6 DEF Working, Previewing

\* No key comes to name two artifacts: a request takes a fresh one, and a
\* handler that of the row it works for.
LEMMA KeysApartHolds ==
    ASSUME ConstantsOK, TypeOK, SlotsOK, KeysApart, [Next]_vars
    PROVE  KeysApart'
<1> USE DEF KeysApart
<1>1. ASSUME NEW r \in Requests, Requesting(r)
      PROVE  KeysApart'
    <2>1. UNCHANGED work
        BY <1>1 DEF Requesting, GetArtifact, Serve, Create, Generating, RequestEnds
    <2>2. CASE UNCHANGED artifact
        BY <2>1, <2>2
    <2>3. CASE Create(r) /\ artifact' # artifact
        <3>1. /\ FreeKeys # {} /\ req[r].node \in Nodes /\ req[r].kind \in Kinds
              /\ artifact' = [artifact EXCEPT ![req[r].node][req[r].kind] =
                                [state |-> "generating", key |-> NewKey]]
            BY <2>3 DEF TypeOK, SlotsOK, Create, SetArtifact
        <3>2. /\ \A n \in Nodes, k \in Kinds : artifact[n][k].key # NewKey
              /\ \A w \in Workers : work[w].key # NewKey
            BY <3>1, NewKeyFree DEF FreeKeys
        <3>3. \A n \in Nodes, k \in Kinds :
                \/ n = req[r].node /\ k = req[r].kind /\ artifact'[n][k].key = NewKey
                \/ ~(n = req[r].node /\ k = req[r].kind) /\ artifact'[n][k] = artifact[n][k]
            BY <3>1 DEF TypeOK
        <3> QED BY <2>1, <3>2, <3>3
    <2> QED BY <1>1, <2>2, <2>3 DEF Requesting, GetArtifact, Serve, Generating, RequestEnds, db
<1>2. ASSUME NEW w \in Workers, Working(w)
      PROVE  KeysApart'
    <2>1. Moves(w)
        BY <1>2, HandlerMoves
    <2> DEFINE n == work[w].node
               k == work[w].kind
               e == work'[w]
    <2>2. n \in Nodes /\ k \in Kinds /\ e.node = n /\ work' = [work EXCEPT ![w] = e]
        BY <2>1 DEF TypeOK, SlotsOK, Moves
    <2>3. HandsOn(w)
        BY <1>2, HandlerHandsOn
    <2>4. /\ \A v \in Workers : v # w => work'[v] = work[v]
          /\ work'[w] = e
        BY <2>2 DEF TypeOK
    <2> HIDE DEF e, n, k
    <2>5. ASSUME e.key = None \/ (e.key = work[w].key /\ e.kind = k)
          PROVE  \A v \in Workers : work'[v].key # None =>
                    /\ work'[v].key = work[v].key
                    /\ work'[v].node = work[v].node /\ work'[v].kind = work[v].kind
        BY <2>2, <2>4, <2>5 DEF n, k
    <2>6. ASSUME UNCHANGED artifact, e.key = None \/ (e.key = work[w].key /\ e.kind = k)
          PROVE  KeysApart'
        BY <2>5, <2>6
    <2>7. ASSUME UNCHANGED artifact, e.key = artifact[n][k].key, e.kind = k
          PROVE  KeysApart'
        <3>1. ASSUME NEW v \in Workers, NEW m \in Nodes, NEW l \in Kinds,
                     work'[v].key = artifact[m][l].key, work'[v].key # None
              PROVE  m = work'[v].node /\ l = work'[v].kind
            BY <2>2, <2>4, <2>7, <3>1
        <3>2. ASSUME NEW u \in Workers, NEW v \in Workers,
                     work'[u].key = work'[v].key, work'[u].key # None
              PROVE  work'[u].node = work'[v].node /\ work'[u].kind = work'[v].kind
            BY <2>2, <2>4, <2>7, <3>2
        <3> QED BY <2>7, <3>1, <3>2
    <2>8. ASSUME NEW s, SetArtifact(n, k, s, work[w].key), e.key = None
          PROVE  KeysApart'
        <3>1. \A m \in Nodes, l \in Kinds :
                \/ artifact'[m][l].key = artifact[m][l].key
                \/ m = n /\ l = k /\ artifact'[m][l].key = work[w].key
            BY <2>2, <2>8 DEF TypeOK, SetArtifact
        <3>2. \A m \in Nodes, l \in Kinds :
                work[w].key = artifact'[m][l].key => work[w].key = None \/ (m = n /\ l = k)
            BY <3>1 DEF n, k
        <3>3. ASSUME NEW m \in Nodes, NEW j \in Nodes, NEW l \in Kinds, NEW i \in Kinds,
                     artifact'[m][l].key = artifact'[j][i].key, artifact'[m][l].key # None
              PROVE  m = j /\ l = i
            BY <3>1, <3>2, <3>3
        <3>4. ASSUME NEW v \in Workers, NEW m \in Nodes, NEW l \in Kinds,
                     work'[v].key = artifact'[m][l].key, work'[v].key # None
              PROVE  m = work'[v].node /\ l = work'[v].kind
            <4>1. v # w /\ work'[v] = work[v]
                BY <2>4, <2>8, <3>4
            <4> QED BY <3>1, <3>4, <4>1 DEF n, k
        <3>5. ASSUME NEW u \in Workers, NEW v \in Workers,
                     work'[u].key = work'[v].key, work'[u].key # None
              PROVE  work'[u].node = work'[v].node /\ work'[u].kind = work'[v].kind
            BY <2>4, <2>8, <3>5
        <3> QED BY <3>3, <3>4, <3>5
    <2> QED BY <2>3, <2>6, <2>7, <2>8 DEF HandsOn, e, n, k
<1>3. ASSUME NEW w \in Workers, work' = [work EXCEPT ![w] = NoWork], UNCHANGED artifact
      PROVE  KeysApart'
    BY <1>3 DEF TypeOK, NoWork
<1>4. ASSUME NEW w \in Workers, NEW n \in Nodes, NEW t \in Types, Claim(w, n, t)
      PROVE  KeysApart'
    BY <1>4 DEF TypeOK, Claim, NoWork
<1>5. CASE Crash
    BY <1>5 DEF Crash, NoWork, db
<1>6. ASSUME NEW n \in Nodes, PurgeRows(n)
      PROVE  KeysApart'
    BY <1>6 DEF TypeOK, PurgeRows, NoArtifact
<1>7. CASE UNCHANGED <<artifact, work>>
    BY <1>7
<1> QED BY <1>1, <1>2, <1>3, <1>4, <1>5, <1>6, <1>7, Steps, ErasingSpares
        DEF Queueing, Deleting, Report, Release, Reprocess, Trash, vars, db

\* What a step of a handler does to the store: only Put adds a file, and then
\* the handler goes on to record it.
LEMMA HandlerStores ==
    ASSUME TypeOK, NEW w \in Workers, Working(w), ~Put(w)
    PROVE  UNCHANGED store /\ (work'[w].step # "record")
<1>0. work \in [Workers -> WorkType] /\ work[w] \in WorkType
    BY DEF TypeOK, WorkType
<1>1. ASSUME NEW s, s # "record", Goto(w, s)
      PROVE  work'[w].step # "record"
    BY <1>0, <1>1 DEF Goto, WorkType
<1>2. ASSUME NEW found, NextKind(w, found)
      PROVE  work'[w].step # "record"
    BY <1>0, <1>2 DEF NextKind, WorkType
<1>3. CASE Open(w) \/ Generate(w) \/ StepFails(w) \/ Extracting(w)
    <2>1. UNCHANGED store
        BY <1>3 DEF Open, Generate, StepFails, Extracting, Identify, Extract,
            ExtractorFailed, RecordCompleted, ReplaceStreams, FillColumns, Quiet
    <2>2. \E s : s # "record" /\ Goto(w, s)
        BY <1>3 DEF Open, Generate, StepFails, Extracting, Identify, Extract,
            ExtractorFailed, RecordCompleted, ReplaceStreams, FillColumns, Then
    <2> QED BY <1>1, <2>1, <2>2
<1>4. CASE Look(w)
    <2>1. CASE Goto(w, "error") \/ NextKind(w, work[w].found)
        BY <1>1, <1>2, <1>4, <2>1 DEF Look
    <2>2. CASE work' = [work EXCEPT ![w] = [@ EXCEPT !.step = "generate",
                    !.key = artifact[work[w].node][work[w].kind].key, !.found = TRUE]]
        BY <1>0, <1>4, <2>2 DEF Look, WorkType
    <2> QED BY <1>4, <2>1, <2>2 DEF Look
<1>5. CASE Record(w)
    BY <1>1, <1>2, <1>5 DEF Record
<1>6. CASE MarkFailed(w)
    BY <1>0, <1>6 DEF MarkFailed, WorkType
<1> QED BY <1>3, <1>4, <1>5, <1>6 DEF Working, Previewing

\* What is on the list of a deletion stays with its node: a request takes no key
\* that is on a list, and a handler that of its own row.
LEMMA ErasingHolds ==
    ASSUME ConstantsOK, TypeOK, SlotsOK, KeysApart, ErasingOK, [Next]_vars
    PROVE  ErasingOK'
<1> USE DEF ErasingOK
<1>0. \A n \in Nodes : erasing[n].keys \subseteq Keys /\ None \notin erasing[n].keys
    BY DEF ConstantsOK, TypeOK
<1>1. ASSUME NEW r \in Requests, Requesting(r)
      PROVE  ErasingOK'
    <2>1. UNCHANGED <<work, originals, erasing>>
        BY <1>1 DEF Requesting, GetArtifact, Serve, Create, Generating, RequestEnds, store
    <2>2. CASE UNCHANGED artifact
        BY <2>1, <2>2
    <2>3. CASE Create(r) /\ artifact' # artifact
        <3>1. /\ FreeKeys # {} /\ req[r].node \in Nodes /\ req[r].kind \in Kinds
              /\ artifact' = [artifact EXCEPT ![req[r].node][req[r].kind] =
                                [state |-> "generating", key |-> NewKey]]
            BY <2>3 DEF TypeOK, SlotsOK, Create, SetArtifact
        <3>2. \A n \in Nodes : NewKey \notin erasing[n].keys
            BY <3>1, NewKeyFree DEF FreeKeys
        <3>3. \A n \in Nodes, k \in Kinds :
                artifact'[n][k].key = NewKey \/ artifact'[n][k] = artifact[n][k]
            BY <3>1 DEF TypeOK
        <3> QED BY <2>1, <3>2, <3>3
    <2> QED BY <1>1, <2>2, <2>3 DEF Requesting, GetArtifact, Serve, Generating, RequestEnds, db
<1>2. ASSUME NEW w \in Workers, Working(w)
      PROVE  ErasingOK'
    <2> DEFINE n == work[w].node
               k == work[w].kind
    <2>1. Moves(w) /\ HandsOn(w)
        BY <1>2, HandlerMoves, HandlerHandsOn
    <2>2. UNCHANGED <<originals, erasing>>
        BY <1>2, HandlerStores DEF Put, store
    <2>3. /\ n \in Nodes /\ k \in Kinds /\ work'[w].node = n
          /\ \A v \in Workers : v # w => work'[v] = work[v]
        BY <2>1 DEF TypeOK, SlotsOK, Moves
    <2>4. \A m \in Nodes, l \in Kinds :
            \/ artifact'[m][l].key = artifact[m][l].key
            \/ m = n /\ artifact'[m][l].key = work[w].key
        <3>1. UNCHANGED artifact
                \/ \E s \in {"ready", "failed"} : SetArtifact(n, k, s, work[w].key)
            BY <2>1 DEF HandsOn
        <3>2. ASSUME NEW s, SetArtifact(n, k, s, work[w].key)
              PROVE  \A m \in Nodes, l \in Kinds :
                        \/ artifact'[m][l].key = artifact[m][l].key
                        \/ m = n /\ artifact'[m][l].key = work[w].key
            <4>1. /\ artifact'[n][k] = [state |-> s, key |-> work[w].key]
                  /\ \A m \in Nodes, l \in Kinds :
                        m # n \/ l # k => artifact'[m][l] = artifact[m][l]
                BY <2>3, <3>2, RowSet
            <4>2. artifact'[n][k].key = work[w].key
                BY <4>1
            <4> QED BY <4>1, <4>2
        <3> QED BY <3>1, <3>2
    <2>5. work'[w].key \in {None, work[w].key, artifact[n][k].key}
        BY <2>1 DEF HandsOn
    <2> HIDE DEF n, k
    <2>6. ASSUME NEW m \in Nodes, NEW key \in erasing[m].keys
          PROVE  /\ \A j \in Nodes, l \in Kinds : artifact'[j][l].key = key => j = m
                 /\ \A v \in Workers : work'[v].key = key => work'[v].node = m
        <3>1. \A j \in Nodes, l \in Kinds : artifact'[j][l].key = key => j = m
            BY <2>4, <2>6 DEF n
        <3>2. work'[w].key = key => work'[w].node = m
            BY <1>0, <2>3, <2>5, <2>6 DEF n
        <3> QED BY <2>3, <2>6, <3>1, <3>2
    <2> QED BY <2>2, <2>6
<1>3. ASSUME NEW n \in Nodes, Erasing(n)
      PROVE  ErasingOK'
    <2>1. /\ UNCHANGED <<artifact, work>> /\ originals' \subseteq originals
        BY <1>3, ErasingSpares DEF Erasing, ListKeys, DeleteOriginal, DeletionFails, DeleteArtifact
    <2>3. /\ erasing \in [Nodes -> EraseType] /\ erasing[n] \in EraseType
        BY DEF TypeOK, EraseType
    <2>4. /\ \A m \in Nodes : m # n => erasing'[m] = erasing[m]
          /\ \/ erasing'[n].keys \subseteq erasing[n].keys
             \/ erasing'[n].keys = {artifact[n][k].key : k \in Kinds} \ {None}
          /\ erasing'[n].step = "artifacts" => erasing[n].step = "artifacts" \/ n \notin originals'
        <3>1. CASE ListKeys(n)
            BY <2>3, <3>1 DEF ListKeys
        <3>2. CASE DeleteOriginal(n)
            BY <2>3, <3>2 DEF DeleteOriginal, EraseType
        <3>3. CASE DeletionFails(n)
            BY <2>3, <3>3 DEF DeletionFails, NotErasing
        <3>4. CASE \E key \in Keys : DeleteArtifact(n, key)
            BY <2>3, <3>4 DEF DeleteArtifact, EraseType
        <3> QED BY <1>3, <3>1, <3>2, <3>3, <3>4 DEF Erasing
    <2>2. ASSUME NEW key \in erasing'[n].keys
          PROVE  /\ \A m \in Nodes, k \in Kinds : artifact[m][k].key = key => m = n
                 /\ \A w \in Workers : work[w].key = key => work[w].node = n
        BY <2>2, <2>4 DEF KeysApart
    <2> QED BY <2>1, <2>2, <2>4
<1>4. ASSUME NEW n \in Nodes, PurgeRows(n)
      PROVE  ErasingOK'
    <2>1. /\ UNCHANGED <<originals, work>> /\ erasing'[n] = NotErasing
          /\ \A m \in Nodes : m # n => erasing'[m] = erasing[m] /\ artifact'[m] = artifact[m]
          /\ \A k \in Kinds : artifact'[n][k].key = None
        BY <1>4 DEF PurgeRows, TypeOK, NoArtifact
    <2> QED BY <1>0, <2>1 DEF NotErasing
<1>5. CASE Crash
    BY <1>5 DEF Crash, NotErasing
<1>6. CASE Queueing
    <2>1. UNCHANGED <<artifact, originals, erasing>>
        BY <1>6 DEF Queueing, Report, Claim, Release, Reprocess, store
    <2>2. \A v \in Workers : work'[v] = work[v] \/ work'[v].key = None
        BY <1>6, QueueingWork
    <2> QED BY <1>0, <2>1, <2>2
<1>7. CASE UNCHANGED <<artifact, store, work>>
    BY <1>7 DEF store
<1> QED BY <1>1, <1>2, <1>3, <1>4, <1>5, <1>6, <1>7, Steps DEF Deleting, Trash, vars, db

----------------------------------------------------------------------------
(* Stored files                                                             *)

\* What is recorded has been stored, and a deletion takes files of its own
\* node only.
LEMMA StoredHolds ==
    ASSUME ConstantsOK, TypeOK, SlotsOK, KeysApart, ErasingOK, PutOK, ReadyStored, [Next]_vars
    PROVE  PutOK' /\ ReadyStored'
<1>1. ASSUME NEW r \in Requests, Requesting(r)
      PROVE  PutOK' /\ ReadyStored'
    <2>1. UNCHANGED <<originals, objects, work>>
        BY <1>1 DEF Requesting, GetArtifact, Serve, Create, Generating, RequestEnds, store
    <2>2. UNCHANGED artifact \/ (/\ req[r].node \in Nodes /\ req[r].kind \in Kinds
                    /\ SetArtifact(req[r].node, req[r].kind, "generating", NewKey))
        BY <1>1 DEF TypeOK, SlotsOK, Requesting, GetArtifact, Serve, Create, Generating,
            RequestEnds, db
    <2>3. \A n \in Nodes, k \in Kinds :
            artifact'[n][k].state = "ready" => artifact'[n][k] = artifact[n][k]
        <3>1. CASE UNCHANGED artifact
            BY <3>1
        <3>2. ASSUME NEW m \in Nodes, NEW j \in Kinds, SetArtifact(m, j, "generating", NewKey)
              PROVE  \A n \in Nodes, k \in Kinds : artifact'[n][k].state = "ready" =>
                        artifact'[n][k] = artifact[n][k]
            BY <3>2 DEF TypeOK, SetArtifact
        <3> QED BY <2>2, <3>1, <3>2
    <2> QED BY <2>1, <2>3 DEF PutOK, ReadyStored
<1>2. ASSUME NEW w \in Workers, Working(w)
      PROVE  PutOK' /\ ReadyStored'
    <2>1. Moves(w)
        BY <1>2, HandlerMoves
    <2>2. CASE Put(w)
        <3>1. /\ objects' = objects \cup {work[w].key} /\ UNCHANGED <<artifact, originals>>
              /\ work'[w].key = work[w].key
              /\ \A v \in Workers \ {w} : work'[v] = work[v]
            BY <2>2 DEF TypeOK, Put, Goto, db
        <3> QED BY <3>1 DEF PutOK, ReadyStored
    <2>3. CASE ~Put(w)
        <3>1. UNCHANGED store /\ work'[w].step # "record"
            BY <1>2, <2>3, HandlerStores
        <3>2. PutOK'
            BY <2>1, <3>1 DEF TypeOK, Moves, PutOK, store
        <3>3. ReadyStored'
            <4>1. CASE UNCHANGED artifact
                BY <3>1, <4>1 DEF ReadyStored, store
            <4>2. ASSUME NEW s \in {"ready", "failed"},
                         SetArtifact(work[w].node, work[w].kind, s, work[w].key),
                         work[w].step \in {"record", "mark_failed"},
                         s = "ready" => work[w].step = "record"
                  PROVE  ReadyStored'
                <5>1. work[w].node \in Nodes /\ work[w].kind \in Kinds
                    BY <4>2 DEF TypeOK, SlotsOK
                <5>2. \A n \in Nodes, k \in Kinds :
                        \/ artifact'[n][k] = artifact[n][k]
                        \/ /\ n = work[w].node /\ k = work[w].kind
                           /\ artifact'[n][k] = [state |-> s, key |-> work[w].key]
                    BY <4>2, <5>1 DEF TypeOK, SetArtifact
                <5>3. s = "ready" => work[w].key \in objects \/ work[w].node \notin originals
                    BY <4>2 DEF PutOK
                <5> QED BY <3>1, <5>2, <5>3 DEF ReadyStored, store
            <4> QED BY <1>2, <2>3, <4>1, <4>2 DEF Working, Open, Extracting, Identify,
                    Extract, ExtractorFailed, RecordCompleted, ReplaceStreams, FillColumns,
                    Quiet, Previewing, Look, Generate, Record, MarkFailed, StepFails, db
        <3> QED BY <3>2, <3>3
    <2> QED BY <2>2, <2>3
<1>3. CASE Queueing \/ Crash
    <2>1. UNCHANGED <<originals, objects, artifact>>
        BY <1>3 DEF Queueing, Report, Claim, Release, Reprocess, Crash, db, store
    <2>2. \A v \in Workers : work'[v] = work[v] \/ work'[v].step # "record"
        BY <1>3, QueueingWork
    <2> QED BY <2>1, <2>2 DEF PutOK, ReadyStored
<1>4. ASSUME NEW n \in Nodes, Erasing(n)
      PROVE  PutOK' /\ ReadyStored'
    <2>1. UNCHANGED <<artifact, work>> /\ originals' \subseteq originals
        BY <1>4, ErasingSpares DEF Erasing, ListKeys, DeleteOriginal, DeletionFails, DeleteArtifact
    <2>2. CASE UNCHANGED objects
        BY <2>1, <2>2 DEF TypeOK, PutOK, ReadyStored
    <2>3. ASSUME NEW key \in Keys, DeleteArtifact(n, key)
          PROVE  PutOK' /\ ReadyStored'
        <3>1. /\ objects' = objects \ {key} /\ key \in erasing[n].keys /\ n \notin originals
              /\ UNCHANGED originals
            BY <2>3 DEF DeleteArtifact, ErasingOK
        <3> QED BY <2>1, <3>1 DEF PutOK, ReadyStored, ErasingOK
    <2> QED BY <1>4, <2>2, <2>3 DEF Erasing, ListKeys, DeleteOriginal, DeletionFails
<1>5. ASSUME NEW n \in Nodes, PurgeRows(n)
      PROVE  PutOK' /\ ReadyStored'
    BY <1>5 DEF TypeOK, PutOK, ReadyStored, PurgeRows, NoArtifact
<1>6. CASE UNCHANGED <<artifact, store, work>>
    BY <1>6 DEF PutOK, ReadyStored, store
<1> QED BY <1>1, <1>2, <1>3, <1>4, <1>5, <1>6, Steps DEF Deleting, Trash, vars, db

\* What a handler makes goes on being generated until it is done: the one job of
\* the file is the only one to settle its rows.
LEMMA MakingHolds ==
    ASSUME ConstantsOK, TypeOK, SlotsOK, OneWorker, MakingOK, [Next]_vars
    PROVE  MakingOK'
<1>0. \A w \in Workers : work[w].step \in Making =>
        /\ work[w].step # "idle" /\ work[w].type = "preview"
        /\ work[w].node \in Nodes /\ work[w].kind \in Kinds
    BY DEF TypeOK, SlotsOK, Making, PreviewSteps
<1>1. ASSUME NEW r \in Requests, Requesting(r)
      PROVE  MakingOK'
    <2>1. UNCHANGED <<life, work>>
        BY <1>1 DEF Requesting, GetArtifact, Serve, Create, Generating, RequestEnds, db
    <2>2. \A n \in Nodes, k \in Kinds :
            artifact'[n][k] = artifact[n][k] \/ artifact'[n][k].state = "generating"
        <3>1. UNCHANGED artifact
                \/ SetArtifact(req[r].node, req[r].kind, "generating", NewKey)
            BY <1>1 DEF Requesting, GetArtifact, Serve, Create, Generating, RequestEnds, db
        <3>2. UNCHANGED artifact \/ (req[r].node \in Nodes /\ req[r].kind \in Kinds)
            BY <1>1 DEF Requesting, GetArtifact, Serve, Create, Generating, RequestEnds, db,
                TypeOK, SlotsOK
        <3>3. ASSUME NEW m \in Nodes, NEW j \in Kinds, SetArtifact(m, j, "generating", NewKey)
              PROVE  \A n \in Nodes, k \in Kinds :
                        artifact'[n][k] = artifact[n][k] \/ artifact'[n][k].state = "generating"
            <4>1. /\ artifact'[m][j] = [state |-> "generating", key |-> NewKey]
                  /\ \A n \in Nodes, k \in Kinds :
                        n # m \/ k # j => artifact'[n][k] = artifact[n][k]
                BY <3>3, RowSet
            <4>2. artifact'[m][j].state = "generating"
                BY <4>1
            <4> QED BY <4>1, <4>2
        <3> QED BY <3>1, <3>2, <3>3
    <2>3. ASSUME NEW q \in Requests, req'[q].step = "create"
          PROVE  req'[q].saw \in {"none", "failed", "error"}
        <3>1. CASE req'[q] = req[q]
            BY <2>3, <3>1 DEF MakingOK
        <3>2. CASE req'[q] # req[q]
            <4>1. q = r
                BY <1>1, <3>2 DEF Requesting, GetArtifact, Serve, Create, Generating,
                    RequestEnds, TypeOK
            <4>2. CASE \E n \in Nodes, k \in Kinds : GetArtifact(r, n, k)
                BY <2>3, <4>1, <4>2 DEF GetArtifact, TypeOK, ArtifactStates
            <4>3. req \in [Requests -> ReqType] /\ req[r] \in ReqType
                BY DEF TypeOK, ReqType
            <4>4. CASE Serve(r)
                BY <2>3, <4>1, <4>4, ServeSets DEF NoReq
            <4>5. CASE Create(r) \/ Generating(r) \/ RequestEnds(r)
                BY <2>3, <4>1, <4>3, <4>5 DEF Create, Generating, RequestEnds, ReqType, NoReq
            <4> QED BY <1>1, <4>2, <4>4, <4>5 DEF Requesting
        <3> QED BY <3>1, <3>2
    <2> QED BY <1>0, <2>1, <2>2, <2>3 DEF MakingOK, Exists
<1>2. ASSUME NEW w \in Workers, Working(w)
      PROVE  MakingOK'
    <2> DEFINE n == work[w].node
               k == work[w].kind
    <2>1. Moves(w)
        BY <1>2, HandlerMoves
    <2>2. /\ UNCHANGED <<life, req>> /\ n \in Nodes /\ k \in Kinds /\ work'[w].node = n
          /\ \A v \in Workers : v # w => work'[v] = work[v]
        BY <2>1 DEF TypeOK, SlotsOK, Moves
    <2>3. CASE Record(w) \/ MarkFailed(w)
        <3>1. work[w].step \in Making
            BY <2>3 DEF Record, MarkFailed, Making
        <3>2. \A m \in Nodes : m # n => artifact'[m] = artifact[m]
            BY <2>2, <2>3 DEF Record, MarkFailed, SetArtifact, TypeOK
        <3>3. ASSUME NEW v \in Workers, v # w, work[v].step \in Making, Exists(work[v].node)
              PROVE  work[v].node # n
            BY <1>0, <3>1, <3>3 DEF OneWorker
        <3>4. work'[w].step \in Making => ~Exists(n)
            <4>1. CASE Record(w)
                BY <4>1, GotoSets, NextKindSets DEF Record, Making
            <4>2. CASE MarkFailed(w)
                BY <4>2 DEF MarkFailed, Making, TypeOK
            <4> QED BY <2>3, <4>1, <4>2
        <3> QED BY <1>0, <2>2, <3>2, <3>3, <3>4 DEF MakingOK, Exists
    <2>4. CASE ~(Record(w) \/ MarkFailed(w))
        <3>1. UNCHANGED artifact
            BY <1>2, <2>4 DEF Working, Open, Extracting, Identify, Extract, ExtractorFailed,
                RecordCompleted, ReplaceStreams, FillColumns, Quiet, Previewing, Look,
                Generate, Put, StepFails, db
        <3>2. work'[w].step \in Making /\ Exists(n) =>
                artifact[n][work'[w].kind].state = "generating"
            <4>1. CASE Look(w)
                <5>1. CASE Goto(w, "error") \/ NextKind(w, work[w].found)
                    BY <5>1, GotoSets, NextKindSets DEF Making
                <5>2. CASE ~(Goto(w, "error") \/ NextKind(w, work[w].found))
                    <6>1. work \in [Workers -> WorkType] /\ work[w] \in WorkType
                        BY DEF TypeOK, WorkType
                    <6>2. /\ artifact[n][k].state = "generating"
                          /\ work' = [work EXCEPT ![w] = [@ EXCEPT !.step = "generate",
                                !.key = artifact[n][k].key, !.found = TRUE]]
                        BY <4>1, <5>2 DEF Look
                    <6>3. work'[w].kind = k
                        BY <6>1, <6>2 DEF WorkType
                    <6> QED BY <6>2, <6>3
                <5> QED BY <5>1, <5>2
            <4>2. CASE Open(w) \/ Extracting(w)
                <5>1. \E s : s \notin Making /\ Goto(w, s)
                    BY <4>2 DEF Open, Extracting, Identify, Extract, ExtractorFailed,
                        RecordCompleted, ReplaceStreams, FillColumns, Then, Making
                <5> QED BY <5>1, GotoSets
            <4>3. CASE Generate(w) \/ Put(w) \/ StepFails(w)
                <5>1. \E s : Goto(w, s) /\ (s \in Making => work[w].step \in Making)
                    BY <4>3 DEF Generate, Put, StepFails, Making
                <5> QED BY <5>1, GotoSets DEF MakingOK
            <4> QED BY <1>2, <2>4, <4>1, <4>2, <4>3 DEF Working, Previewing
        <3> QED BY <2>2, <3>1, <3>2 DEF MakingOK, Exists
    <2> QED BY <2>3, <2>4
<1>3. CASE Queueing \/ Crash
    <2>1. UNCHANGED <<life, artifact, req>>
        BY <1>3 DEF Queueing, Report, Claim, Release, Reprocess, Crash, db
    <2>2. \A v \in Workers : work'[v] = work[v] \/ work'[v].step \in {"idle", "open"}
        BY <1>3, QueueingWork
    <2> QED BY <2>1, <2>2 DEF MakingOK, Making, Exists
<1>4. ASSUME NEW n \in Nodes, Trash(n) \/ Erasing(n)
      PROVE  MakingOK'
    <2>1. UNCHANGED <<artifact, req, work>> /\ \A m \in Nodes : Exists(m)' => Exists(m)
        <3>1. CASE Trash(n)
            BY <3>1 DEF TypeOK, Trash, Exists
        <3>2. CASE Erasing(n)
            BY <3>2, ErasingSpares DEF Exists
        <3> QED BY <1>4, <3>1, <3>2
    <2> QED BY <1>0, <2>1 DEF MakingOK
<1>5. ASSUME NEW n \in Nodes, PurgeRows(n)
      PROVE  MakingOK'
    <2>1. /\ UNCHANGED <<req, work>> /\ ~Exists(n)'
          /\ \A m \in Nodes : m # n =>
                (Exists(m)' <=> Exists(m)) /\ artifact'[m] = artifact[m]
        BY <1>5 DEF TypeOK, PurgeRows, Exists
    <2> QED BY <1>0, <2>1 DEF MakingOK
<1>6. CASE UNCHANGED vars
    BY <1>6 DEF MakingOK, Exists, vars, db
<1> QED BY <1>1, <1>2, <1>3, <1>4, <1>5, <1>6, Steps DEF Deleting

----------------------------------------------------------------------------
(* Extraction                                                               *)

\* What is written of a file does not hang on the steps of others.
LEMMA WrittenStays ==
    ASSUME NEW v \in Workers, Written(v), work'[v] = work[v],
           record'[work[v].node] = record[work[v].node],
           facts'[work[v].node] = facts[work[v].node]
    PROVE  Written(v)'
    BY DEF Written, Whole

\* Who extracts writes what its next step supposes.
LEMMA ExtractorWrites ==
    ASSUME ConstantsOK, TypeOK, SlotsOK, NEW w \in Workers, Extracting(w),
           Exists(work[w].node), Written(w)
    PROVE  /\ Written(w)'
           /\ \A m \in Nodes \ {work[w].node} : record'[m] = record[m] /\ facts'[m] = facts[m]
<1> DEFINE n == work[w].node
<1>0. /\ work \in [Workers -> WorkType] /\ work[w] \in WorkType /\ n \in Nodes
      /\ work[w].type = "metadata"
    BY DEF TypeOK, SlotsOK, WorkType, Extracting, Identify, Extract, ExtractorFailed,
        RecordCompleted, ReplaceStreams, FillColumns, MetadataSteps
<1>1. ASSUME NEW s, Goto(w, s)
      PROVE  work'[w].step = s /\ work'[w].node = n /\ work'[w].type = "metadata"
    BY <1>0, <1>1 DEF Goto, WorkType
<1>2. ASSUME NEW what \in {"mime", "base", "completed", "failed", "unsupported"},
             Persist(w, what)
      PROVE  /\ \A m \in Nodes \ {n} : record'[m] = record[m] /\ facts'[m] = facts[m]
             /\ what # "mime" => record'[n].mime = record[n].mime
             /\ what = "mime" => record'[n].mime = "completed"
             /\ what # "base" => facts'[n] = facts[n]
             /\ what = "base" => "base" \in facts'[n]
             /\ what \in {"mime", "base"} => record'[n].extractor = record[n].extractor
             /\ what \notin {"mime", "base"} => record'[n].extractor = what
    <2>0. /\ facts \in [Nodes -> SUBSET AllFacts]
          /\ record \in [Nodes -> [mime : {"none", "completed"},
                            extractor : {"none", "completed", "failed", "unsupported"}]]
        BY DEF TypeOK
    <2>1. CASE what = "mime"
        <3>1. record' = [record EXCEPT ![n].mime = "completed"] /\ UNCHANGED facts
            BY <1>2, <2>1 DEF Persist
        <3> QED BY <1>0, <2>0, <2>1, <3>1
    <2>2. CASE what = "base"
        BY <1>0, <1>2, <2>2 DEF TypeOK, Persist
    <2>3. CASE what \notin {"mime", "base"}
        <3>1. record' = [record EXCEPT ![n].extractor = what] /\ UNCHANGED facts
            BY <1>2, <2>3 DEF Persist
        <3> QED BY <1>0, <2>0, <2>3, <3>1
    <2> QED BY <2>1, <2>2, <2>3
<1> USE DEF Written, Whole, MetadataSteps
<1>4. CASE Identify(w)
    <2>1. PICK what \in {"mime", "base"} :
            /\ work[w].step = what /\ Persist(w, what)
            /\ Goto(w, IF what = "mime" THEN "base" ELSE "extract")
        BY <1>4 DEF Identify, Then
    <2>2. CASE what = "mime"
        BY <1>0, <1>1, <1>2, <2>1, <2>2
    <2>3. CASE what = "base"
        BY <1>0, <1>1, <1>2, <2>1, <2>3
    <2> QED BY <2>1, <2>2, <2>3
<1>5. CASE Extract(w)
    <2>1. CASE n \notin Special
        <3>1. Persist(w, "unsupported") /\ Goto(w, "ok") /\ work[w].step = "extract"
            BY <1>5, <2>1 DEF Extract, Then
        <3>2. /\ record'[n].mime = record[n].mime /\ record'[n].extractor = "unsupported"
              /\ facts'[n] = facts[n]
              /\ \A m \in Nodes \ {n} : record'[m] = record[m] /\ facts'[m] = facts[m]
            BY <1>2, <3>1
        <3> QED BY <1>0, <1>1, <2>1, <3>1, <3>2
    <2>2. CASE n \in Special
        <3>1. /\ UNCHANGED <<record, facts>> /\ work[w].step = "extract"
              /\ Goto(w, "completed") \/ Goto(w, "extractor_failed")
            BY <1>5, <2>2 DEF Extract, extracted
        <3> QED BY <1>0, <1>1, <3>1
    <2> QED BY <2>1, <2>2
<1>6. CASE RecordCompleted(w)
    <2>1. Persist(w, "completed") /\ Goto(w, "streams") /\ work[w].step = "completed"
        BY <1>6 DEF RecordCompleted, Then
    <2>2. /\ record'[n].mime = record[n].mime /\ record'[n].extractor = "completed"
          /\ facts'[n] = facts[n]
          /\ \A m \in Nodes \ {n} : record'[m] = record[m] /\ facts'[m] = facts[m]
        BY <1>2, <2>1
    <2> QED BY <1>0, <1>1, <2>1, <2>2
<1>7. CASE ReplaceStreams(w)
    <2>1. /\ work[w].step = "streams" /\ Goto(w, "columns") /\ UNCHANGED record
          /\ facts' = [facts EXCEPT ![n] = @ \cup {"streams"}]
        BY <1>7 DEF ReplaceStreams, Then
    <2> QED BY <1>0, <1>1, <2>1 DEF TypeOK
<1>8. CASE FillColumns(w)
    <2>1. /\ work[w].step = "columns" /\ Goto(w, "ok") /\ UNCHANGED record
          /\ facts' = [facts EXCEPT ![n] = @ \cup {"columns"}]
        BY <1>8 DEF FillColumns
    <2>2. facts'[n] = facts[n] \cup {"columns"} /\ facts[n] \subseteq AllFacts
        BY <1>0, <2>1 DEF TypeOK
    <2>3. facts'[n] = AllFacts
        BY <2>1, <2>2 DEF AllFacts
    <2> QED BY <1>0, <1>1, <2>1, <2>3 DEF TypeOK, AllFacts
<1>9. CASE ExtractorFailed(w)
    <2>1. Persist(w, "failed") /\ Goto(w, "error")
        BY <1>9 DEF ExtractorFailed
    <2>2. \A m \in Nodes \ {n} : record'[m] = record[m] /\ facts'[m] = facts[m]
        BY <1>2, <2>1
    <2> QED BY <1>0, <1>1, <2>1, <2>2
<1> QED BY <1>4, <1>5, <1>6, <1>7, <1>8, <1>9 DEF Extracting

\* Where the node is gone there is nothing to write.
LEMMA ExtractorOfGone ==
    ASSUME TypeOK, SlotsOK, NEW w \in Workers, Extracting(w), ~Exists(work[w].node)
    PROVE  UNCHANGED <<record, facts>>
<1> DEFINE n == work[w].node
<1>1. n \in Nodes
    BY DEF TypeOK, SlotsOK, Extracting, Identify, Extract, ExtractorFailed,
        RecordCompleted, ReplaceStreams, FillColumns
<1>2. facts' = [facts EXCEPT ![n] = facts[n]] \/ UNCHANGED facts
    BY DEF Extracting, Identify, Extract, ExtractorFailed, RecordCompleted, ReplaceStreams,
        FillColumns, Persist, extracted
<1>3. UNCHANGED record
    BY DEF Extracting, Identify, Extract, ExtractorFailed, RecordCompleted, ReplaceStreams,
        FillColumns, Persist, extracted
<1> QED BY <1>1, <1>2, <1>3 DEF TypeOK

\* The other handlers write nothing of the kind.
LEMMA PreviewWritesNone ==
    ASSUME ConstantsOK, TypeOK, SlotsOK, NEW w \in Workers, Working(w), ~Extracting(w)
    PROVE  UNCHANGED <<record, facts>> /\ (Written(w) => Written(w)')
<1>0. work \in [Workers -> WorkType] /\ work[w] \in WorkType /\ Moves(w)
    BY HandlerMoves DEF TypeOK, WorkType
<1>1. UNCHANGED <<record, facts>>
    BY DEF Working, Open, Previewing, Look, Generate, Put, Record, MarkFailed, StepFails,
        extracted, db
<1>2. CASE work[w].type = "preview"
    <2>1. work'[w].type = "preview" /\ work'[w].step \notin MetadataSteps
        BY <1>0, <1>2 DEF Moves, WorkType
    <2> QED BY <1>1, <2>1 DEF Written, MetadataSteps
<1>3. CASE work[w].type = "metadata"
    <2>1. \E s \in {"mime", "error", "mark_failed"} : Goto(w, s)
        <3>1. work[w].step \notin PreviewSteps
            BY <1>3 DEF SlotsOK
        <3> QED BY <1>3, <3>1 DEF Working, Open, Previewing, Look, Generate, Put, Record,
                MarkFailed, StepFails, PreviewSteps
    <2>2. work'[w].step \in {"mime", "error", "mark_failed"}
        BY <1>0, <2>1 DEF Goto, WorkType
    <2> QED BY <1>1, <2>2 DEF Written, MetadataSteps
<1> QED BY <1>0, <1>2, <1>3 DEF WorkType, Types

\* What is told of a file.
Told(n) ==
    IF Exists(n) THEN Active(n, "metadata") \/ "metadata" \in failed[n] \/ Whole(n)
    ELSE record[n] = NoRecord

\* The metadata job of a file is active, has failed, or has written all.
LEMMA ExtractionHolds ==
    ASSUME ConstantsOK, TypeOK, SlotsOK, OneWorker, ExtractionOK, [Next]_vars
    PROVE  ExtractionOK'
<1>0. /\ \A w \in Workers : work[w].step # "idle" /\ Exists(work[w].node) => Written(w)
      /\ \A n \in Nodes : Told(n)
      /\ \A w \in Workers : work[w].step # "idle" => work[w].node \in Nodes
    BY DEF TypeOK, SlotsOK, ExtractionOK, Told
<1>2. ASSUME UNCHANGED <<life, failed, record, facts, work>>,
             \A n \in Nodes : Active(n, "metadata") => Active(n, "metadata")'
      PROVE  ExtractionOK'
    BY <1>0, <1>2 DEF ExtractionOK, Told, Written, Exists, Whole
<1>3. ASSUME NEW r \in Requests, Requesting(r)
      PROVE  ExtractionOK'
    <2>1. UNCHANGED <<life, failed, record, facts, work>>
        BY <1>3 DEF Requesting, GetArtifact, Serve, Create, Generating, RequestEnds, db,
            queue, extracted
    <2>2. \A n \in Nodes : job'[n]["metadata"] = job[n]["metadata"]
        <3>1. UNCHANGED job \/ (req[r].step = "enqueue" /\ job' = [job EXCEPT
                    ![req[r].node]["preview"] = [state |-> "pending", attempts |-> 0]])
            BY <1>3 DEF Requesting, GetArtifact, Serve, Create, Generating, RequestEnds,
                Enqueue, db, queue
        <3>2. req[r].step = "enqueue" => req[r].node \in Nodes
            BY DEF TypeOK, SlotsOK
        <3>3. job \in [Nodes -> [Types -> JobType]]
            BY DEF TypeOK, JobType
        <3> QED BY <3>1, <3>2, <3>3 DEF Types
    <2> QED BY <1>2, <2>1, <2>2 DEF Active
<1>4. ASSUME NEW w \in Workers, Working(w)
      PROVE  ExtractionOK'
    <2>1. Moves(w)
        BY <1>4, HandlerMoves
    <2>2. /\ \A v \in Workers \ {w} : work'[v] = work[v]
          /\ work[w].step # "idle" /\ work'[w].node = work[w].node
          /\ UNCHANGED <<life, job, failed>>
        BY <2>1 DEF TypeOK, Moves
    <2>3. CASE Extracting(w) /\ Exists(work[w].node)
        <3>1. /\ Written(w)'
              /\ \A m \in Nodes \ {work[w].node} :
                    record'[m] = record[m] /\ facts'[m] = facts[m]
            BY <1>0, <2>2, <2>3, ExtractorWrites
        <3>2. ASSUME NEW v \in Workers, work'[v].step # "idle", Exists(work[v].node)'
              PROVE  Written(v)'
            <4>1. CASE v = w
                BY <3>1, <4>1
            <4>2. CASE v # w /\ work[v].node # work[w].node
                <5>1. Written(v) /\ work[v].node \in Nodes
                    BY <1>0, <2>2, <3>2, <4>2 DEF Exists
                <5> QED BY <2>2, <3>1, <4>2, <5>1, WrittenStays
            <4>3. CASE v # w /\ work[v].node = work[w].node
                <5>1. work[w].type = "metadata" /\ work[v].type # "metadata"
                    BY <2>2, <2>3, <4>3 DEF SlotsOK, OneWorker, MetadataSteps, Extracting,
                        Identify, Extract, ExtractorFailed, RecordCompleted, ReplaceStreams,
                        FillColumns
                <5>2. work'[v].type # "metadata" /\ work'[v].step \notin MetadataSteps
                    BY <2>2, <4>3, <5>1 DEF SlotsOK
                <5> QED BY <5>2 DEF Written, MetadataSteps
            <4> QED BY <4>1, <4>2, <4>3
        <3>3. ASSUME NEW m \in Nodes
              PROVE  Told(m)'
            <4>1. CASE m # work[w].node
                BY <1>0, <2>2, <3>1, <4>1 DEF Told, Exists, Active, Whole
            <4>2. CASE m = work[w].node
                <5>1. Active(m, "metadata")
                    BY <2>2, <2>3, <4>2 DEF SlotsOK, OneWorker, Active, MetadataSteps,
                        Extracting, Identify, Extract, ExtractorFailed, RecordCompleted,
                        ReplaceStreams, FillColumns
                <5> QED BY <2>2, <2>3, <4>2, <5>1 DEF Told, Exists, Active
            <4> QED BY <4>1, <4>2
        <3> QED BY <3>2, <3>3 DEF ExtractionOK, Told
    <2>4. CASE UNCHANGED <<record, facts>> /\ (Exists(work[w].node) => Written(w)')
        <3>1. ASSUME NEW v \in Workers, work'[v].step # "idle", Exists(work[v].node)'
              PROVE  Written(v)'
            BY <1>0, <2>2, <2>4, <3>1, WrittenStays DEF Exists
        <3>2. \A m \in Nodes : Told(m)'
            BY <1>0, <2>2, <2>4 DEF Told, Exists, Active, Whole
        <3> QED BY <3>1, <3>2 DEF ExtractionOK, Told
    <2> QED BY <1>0, <1>4, <2>2, <2>3, <2>4, ExtractorOfGone, PreviewWritesNone
<1>5. ASSUME NEW w \in Workers, Report(w)
      PROVE  ExtractionOK'
    <2> DEFINE n == work[w].node
               t == work[w].type
    <2>1. /\ UNCHANGED <<life, record, facts>> /\ work' = [work EXCEPT ![w] = NoWork]
          /\ work[w].step \in {"ok", "error"} /\ n \in Nodes /\ t \in Types
        BY <1>0, <1>5 DEF TypeOK, Report, extracted
    <2>2. ASSUME NEW v \in Workers, work'[v].step # "idle", Exists(work[v].node)'
          PROVE  Written(v)'
        <3>1. v # w /\ work'[v] = work[v]
            BY <2>1, <2>2 DEF TypeOK, NoWork
        <3> QED BY <1>0, <2>1, <2>2, <3>1, WrittenStays DEF Exists
    <2>3. ASSUME NEW m \in Nodes
          PROVE  Told(m)'
        <3>1. \/ Active(m, "metadata") => Active(m, "metadata")'
              \/ "metadata" \in failed'[m]
              \/ m = n /\ t = "metadata" /\ work[w].step = "ok"
            <4>1. CASE UNCHANGED job
                BY <4>1 DEF Active
            <4>2. CASE job' = [job EXCEPT ![n][t] = [@ EXCEPT !.state = "pending"]]
                BY <2>1, <4>2 DEF TypeOK, Active
            <4>3. CASE job' = [job EXCEPT ![n][t] = NoJob] /\ work[w].step = "ok"
                BY <2>1, <4>3 DEF TypeOK, Active
            <4>4. CASE /\ job' = [job EXCEPT ![n][t] = NoJob]
                       /\ failed' = [failed EXCEPT ![n] = @ \cup {t}]
                BY <2>1, <4>4 DEF TypeOK, Active
            <4> QED BY <1>5, <2>1, <4>1, <4>2, <4>3, <4>4 DEF Report, queue
        <3>2. "metadata" \in failed[m] => "metadata" \in failed'[m]
            <4>1. UNCHANGED failed \/ failed' = [failed EXCEPT ![n] = @ \cup {t}]
                BY <1>5 DEF Report, queue
            <4>2. failed \in [Nodes -> SUBSET Types]
                BY DEF TypeOK
            <4> QED BY <2>1, <4>1, <4>2
        <3>3. m = n /\ t = "metadata" /\ work[w].step = "ok" /\ Exists(m) => Whole(m)
            BY <1>0, <2>1 DEF Written
        <3>4. /\ Told(m) /\ record'[m] = record[m]
              /\ (Exists(m)' <=> Exists(m)) /\ (Whole(m)' <=> Whole(m))
            BY <1>0, <2>1 DEF Exists, Whole
        <3> QED BY <3>1, <3>2, <3>3, <3>4 DEF Told
    <2> QED BY <2>2, <2>3 DEF ExtractionOK, Told
<1>6. ASSUME NEW w \in Workers, NEW n \in Nodes, NEW t \in Types, Claim(w, n, t)
      PROVE  ExtractionOK'
    <2>1. /\ UNCHANGED <<life, failed, record, facts>>
          /\ \A v \in Workers \ {w} : work'[v] = work[v]
          /\ work'[w].step = "open"
          /\ \A m \in Nodes : Active(m, "metadata") => Active(m, "metadata")'
        BY <1>6 DEF TypeOK, Claim, NoWork, Active, extracted
    <2>2. Written(w)'
        BY <2>1 DEF Written, MetadataSteps
    <2>3. ASSUME NEW v \in Workers, work'[v].step # "idle", Exists(work[v].node)'
          PROVE  Written(v)'
        BY <1>0, <2>1, <2>2, <2>3, WrittenStays DEF Exists
    <2>4. \A m \in Nodes : Told(m)'
        BY <1>0, <2>1 DEF Told, Exists, Whole
    <2> QED BY <2>3, <2>4 DEF ExtractionOK, Told
<1>7. ASSUME NEW n \in Nodes, NEW t \in Types, Release(n, t)
      PROVE  ExtractionOK'
    <2>1. \A m \in Nodes : Active(m, "metadata") => Active(m, "metadata")'
        BY <1>7 DEF TypeOK, Release, Active
    <2> QED BY <1>2, <1>7, <2>1 DEF Release, extracted
<1>8. ASSUME NEW S \in SUBSET Nodes, Reprocess(S)
      PROVE  ExtractionOK'
    <2>1. \A m \in Nodes : Active(m, "metadata") => Active(m, "metadata")'
        BY <1>8 DEF TypeOK, Reprocess, Active, Types
    <2> QED BY <1>2, <1>8, <2>1 DEF Reprocess, extracted
<1>9. CASE Crash
    BY <1>0, <1>9 DEF ExtractionOK, Crash, NoWork, db, queue, extracted, Told, Exists, Active,
        Whole
<1>10. ASSUME NEW n \in Nodes, Trash(n) \/ Erasing(n)
       PROVE  ExtractionOK'
    <2>1. /\ UNCHANGED <<job, failed, record, facts, work>>
          /\ \A m \in Nodes : Exists(m)' <=> Exists(m)
        <3>1. CASE Trash(n)
            BY <3>1 DEF TypeOK, Trash, Exists, queue, extracted
        <3>2. CASE Erasing(n)
            BY <3>2, ErasingSpares DEF Exists
        <3> QED BY <1>10, <3>1, <3>2
    <2> QED BY <1>0, <2>1, WrittenStays DEF ExtractionOK, Told, Active, Whole
<1>11. ASSUME NEW n \in Nodes, PurgeRows(n)
       PROVE  ExtractionOK'
    <2>1. /\ ~Exists(n)' /\ record'[n] = NoRecord /\ UNCHANGED work
          /\ \A m \in Nodes \ {n} :
                /\ Exists(m)' <=> Exists(m)
                /\ record'[m] = record[m] /\ facts'[m] = facts[m]
                /\ job'[m] = job[m] /\ failed'[m] = failed[m]
        BY <1>11 DEF TypeOK, PurgeRows, Exists
    <2>2. ASSUME NEW v \in Workers, work'[v].step # "idle", Exists(work[v].node)'
          PROVE  Written(v)'
        <3>1. work[v].node # n /\ work'[v] = work[v] /\ work[v].node \in Nodes
            BY <1>0, <2>1, <2>2
        <3> QED BY <1>0, <2>1, <2>2, <3>1, WrittenStays
    <2>3. \A m \in Nodes : Told(m)'
        BY <1>0, <2>1 DEF Told, Active, Whole
    <2> QED BY <2>2, <2>3 DEF ExtractionOK, Told
<1>12. CASE UNCHANGED vars
    BY <1>0, <1>2, <1>12 DEF vars, db, queue, extracted, Active
<1> QED BY <1>3, <1>4, <1>5, <1>6, <1>7, <1>8, <1>9, <1>10, <1>11, <1>12, Steps
        DEF Queueing, Deleting

----------------------------------------------------------------------------
(* The theorems for all failures                                            *)

\* The initial states satisfy the invariant.
LEMMA InitHolds ==
    ASSUME ConstantsOK, Init
    PROVE  IInv
<1>1. TypeOK
    <2>1. NoArtifact \in ArtifactType /\ NoArtifact.state = "none" /\ NoArtifact.key = None
        BY DEF NoArtifact, ArtifactType, ArtifactStates
    <2>2. ArtifactsTyped
        BY <2>1 DEF Init, ArtifactsTyped
    <2>3. NoJob \in JobType /\ [NoJob EXCEPT !.state = "pending"] \in JobType
        BY DEF NoJob, JobType
    <2>4. JobsTyped
        BY <2>3 DEF Init, JobsTyped
    <2>5. ExtractedTyped
        BY DEF Init, ExtractedTyped, NoRecord, ConstantsOK
    <2>6. RestTyped
        BY DEF Init, RestTyped, ConstantsOK
    <2>7. StoreTyped /\ ReqTyped /\ WorkTyped
        BY DEF Init, StoreTyped, EraseType, NotErasing, ReqTyped, WorkTyped, ReqType, WorkType,
            ArtifactStates, NoReq, NoWork, Kinds, Types, WorkSteps
    <2> QED BY <2>2, <2>4, <2>5, <2>6, <2>7, TypeSplit DEF TypeParts
<1>2. SlotsOK /\ OneWorker /\ PutOK
    BY DEF Init, SlotsOK, OneWorker, PutOK, NoReq, NoWork, Making, PreviewSteps, MetadataSteps
<1>3. ExtractionOK
    <2>1. \A n \in Nodes : Exists(n)
        BY DEF Init, Exists
    <2>2. ASSUME NEW n \in Nodes
          PROVE  Active(n, "metadata") \/ Whole(n)
        <3>1. CASE n \in outdated
            BY <3>1 DEF Init, Whole, AllFacts
        <3>2. CASE n \notin outdated
            BY <3>2 DEF Init, Active, NoJob, Types
        <3> QED BY <3>1, <3>2
    <2> QED BY <2>1, <2>2 DEF Init, ExtractionOK, NoWork
<1>4. KeysApart /\ ErasingOK /\ MakingOK /\ ReadyStored
    BY DEF Init, KeysApart, ErasingOK, MakingOK, ReadyStored, NoArtifact, NoWork, NoReq,
        NotErasing, Making
<1> QED BY <1>1, <1>2, <1>3, <1>4 DEF IInv

\* Every step keeps it.
LEMMA NextHolds ==
    ASSUME ConstantsOK, IInv, [Next]_vars
    PROVE  IInv'
<1>1. TypeOK' /\ SlotsOK'
    BY Steps, TypeRequest, TypeWork, TypeOther DEF IInv
<1>2. OneWorker' /\ KeysApart' /\ ExtractionOK' /\ PutOK' /\ ReadyStored'
    BY OneWorkerHolds, KeysApartHolds, ExtractionHolds, StoredHolds DEF IInv
<1>3. ErasingOK' /\ MakingOK'
    BY ErasingHolds, MakingHolds DEF IInv
<1> QED BY <1>1, <1>2, <1>3 DEF IInv

\* So it always holds.
LEMMA Invariance == ASSUME ConstantsOK PROVE Spec => []IInv
    BY InitHolds, NextHolds, PTL DEF Spec

\* Every variable keeps to its type, for any number of files, requests, workers
\* and keys, and whatever fails.
THEOREM TypeCorrect == ASSUME ConstantsOK PROVE Spec => []TypeOK
<1>1. IInv => TypeOK
    BY DEF IInv
<1> QED BY <1>1, Invariance, PTL

\* An artifact whose row says that it is ready has its file as long as the
\* original of its node is there, whatever fails: generate_artifact stores it
\* before it records it, and no two artifacts share a key.
THEOREM ReadyStoredCorrect == ASSUME ConstantsOK PROVE Spec => []ReadyStored
<1>1. IInv => ReadyStored
    BY DEF IInv
<1> QED BY <1>1, Invariance, PTL

\* A file that processing_status tells to be ready has all that its extractor
\* can tell, whatever fails: the record is written before the streams and the
\* columns, but the job that writes them stays active until all are there.
THEOREM ReadyCompleteCorrect == ASSUME ConstantsOK PROVE Spec => []ReadyIsComplete
<1>1. IInv => ReadyIsComplete
    <2> SUFFICES ASSUME IInv, NEW n \in Nodes, ProcessingStatus(n) = "ready"
                 PROVE  Whole(n)
        BY DEF ReadyIsComplete, Whole
    <2>1. /\ \A t \in Types : ~Active(n, t)
          /\ failed[n] = {} /\ record[n].extractor # "failed"
          /\ \/ record[n].mime = "completed"
             \/ record[n].extractor \in {"completed", "unsupported"}
        BY DEF ProcessingStatus
    <2>2. Exists(n)
        BY <2>1 DEF IInv, ExtractionOK, NoRecord
    <2> QED BY <2>1, <2>2 DEF IInv, ExtractionOK, Types
<1> QED BY <1>1, Invariance, PTL

----------------------------------------------------------------------------
(* The theorems on what is served and what is left behind                   *)

\* A request that is about to give a row a key has the node and kind of one.
LEMMA CreateWrites ==
    ASSUME ConstantsOK, TypeOK, SlotsOK, NEW r \in Requests, Create(r), Exists(req[r].node),
           NEW n, n = req[r].node, NEW k, k = req[r].kind
    PROVE  /\ n \in Nodes /\ k \in Kinds /\ Exists(n) /\ req[r].step = "create"
           /\ NewKey \in FreeKeys
           /\ artifact'[n][k] = [state |-> "generating", key |-> NewKey]
           /\ \A m \in Nodes, l \in Kinds : m # n \/ l # k => artifact'[m][l] = artifact[m][l]
           /\ replaced' = (replaced \ {NewKey}) \cup ({artifact[n][k].key} \cap FilesKept)
<1>1. req[r].step = "create" /\ n \in Nodes /\ k \in Kinds
    BY DEF TypeOK, SlotsOK, Create
<1>2. /\ Exists(n) /\ FreeKeys # {} /\ SetArtifact(n, k, "generating", NewKey)
      /\ replaced' = (replaced \ {NewKey}) \cup ({artifact[n][k].key} \cap FilesKept)
    BY DEF Create
<1>3. artifact' = [artifact EXCEPT ![n][k] = [state |-> "generating", key |-> NewKey]]
    BY <1>2 DEF SetArtifact
<1>4. /\ artifact'[n][k] = [state |-> "generating", key |-> NewKey]
      /\ \A m \in Nodes, l \in Kinds : m # n \/ l # k => artifact'[m][l] = artifact[m][l]
    BY <1>1, <1>3 DEF TypeOK
<1> QED BY <1>1, <1>2, <1>4, NewKeyFree

\* A handler that changes a row is the only one that works on its file, has made
\* what the row says is being generated, and writes its own key.
LEMMA HandlerWrites ==
    ASSUME IInv, NEW w \in Workers, Working(w), ~UNCHANGED artifact,
           NEW n, n = work[w].node, NEW k, k = work[w].kind
    PROVE  /\ n \in Nodes /\ k \in Kinds /\ Exists(n) /\ work[w].step \in Making
           /\ artifact[n][k].state = "generating" /\ work'[w].key = None
           /\ work[w].type = "preview" /\ work[w].key # None /\ ~Put(w)
           /\ artifact'[n][k].key = work[w].key
           /\ \A m \in Nodes, l \in Kinds : m # n \/ l # k => artifact'[m][l] = artifact[m][l]
           /\ \A v \in Workers : v # w /\ work[v].step # "idle" /\ work[v].type = "preview" =>
                work[v].node # n
<1>0. TypeOK /\ SlotsOK /\ OneWorker /\ MakingOK
    BY DEF IInv
<1>1. Record(w) \/ MarkFailed(w)
    BY DEF Working, Open, Extracting, Identify, Extract, ExtractorFailed, RecordCompleted,
        ReplaceStreams, FillColumns, Quiet, Previewing, Look, Generate, Put, StepFails, db
<1>2. /\ work[w].step \in {"record", "mark_failed"} /\ Exists(n)
      /\ \E s : SetArtifact(n, k, s, work[w].key)
    BY <1>1 DEF Record, MarkFailed
<1>3. /\ work[w].step \in Making /\ work[w].step # "idle" /\ n \in Nodes /\ k \in Kinds
      /\ work[w].type = "preview" /\ work[w].key # None
    BY <1>0, <1>2 DEF TypeOK, SlotsOK, Making, PreviewSteps
<1>4. /\ artifact'[n][k].key = work[w].key
      /\ \A m \in Nodes, l \in Kinds : m # n \/ l # k => artifact'[m][l] = artifact[m][l]
    BY <1>0, <1>2, <1>3 DEF SetArtifact, TypeOK
<1>5. work'[w].key = None
    <2>1. CASE Record(w)
        BY <1>0, <1>2, <2>1, NextKindSets DEF Record
    <2>2. CASE MarkFailed(w)
        BY <1>0, <2>2 DEF MarkFailed, TypeOK
    <2> QED BY <1>1, <2>1, <2>2
<1>6. \A v \in Workers : v # w /\ work[v].step # "idle" /\ work[v].type = "preview" =>
        work[v].node # n
    BY <1>0, <1>2, <1>3 DEF OneWorker
<1> QED BY <1>0, <1>2, <1>3, <1>4, <1>5, <1>6 DEF MakingOK, Put

\* What was served as immutable changes only when a request makes it anew, one
\* that could not read it or that looked before it was ready: handlers settle
\* rows that are being generated and nothing else, and rows are purged after
\* the original.  Any failure, any number of requests side by side.
THEOREM StableCorrect == ASSUME ConstantsOK PROVE Spec => ArtifactStable
<1> DEFINE Kept == \A n \in originals, k \in Kinds :
            artifact[n][k].state = "ready" =>
                \/ artifact'[n][k] = artifact[n][k]
                \/ /\ artifact'[n][k].state = "generating" /\ artifact'[n][k].key \notin objects
                   /\ \E r \in Requests :
                        /\ req[r].step = "create" /\ req[r].node = n /\ req[r].kind = k
                        /\ req[r].saw \in {"none", "failed", "error"}
<1>1. ASSUME IInv, [Next]_vars
      PROVE  [Kept]_vars
    <2>0. TypeOK /\ SlotsOK /\ MakingOK /\ ErasingOK /\ originals \subseteq Nodes
        BY <1>1 DEF IInv, TypeOK
    <2>1. CASE UNCHANGED artifact
        BY <2>1
    <2>2. ASSUME NEW r \in Requests, Requesting(r), ~UNCHANGED artifact
          PROVE  Kept
        <3>1. PICK n, k : n = req[r].node /\ k = req[r].kind
            OBVIOUS
        <3>2. Create(r) /\ Exists(req[r].node)
            BY <2>2 DEF Create, Requesting, GetArtifact, Serve, Generating, RequestEnds, db
        <3>3. /\ n \in Nodes /\ k \in Kinds /\ req[r].step = "create" /\ NewKey \in FreeKeys
              /\ artifact'[n][k] = [state |-> "generating", key |-> NewKey]
              /\ \A m \in Nodes, l \in Kinds : m # n \/ l # k => artifact'[m][l] = artifact[m][l]
            BY <1>1, <2>0, <2>2, <3>1, <3>2, CreateWrites
        <3>4. NewKey \notin objects /\ req[r].saw \in {"none", "failed", "error"}
            BY <2>0, <3>3 DEF FreeKeys, MakingOK
        <3> QED BY <2>0, <3>1, <3>3, <3>4
    <2>3. ASSUME NEW w \in Workers, Working(w), ~UNCHANGED artifact
          PROVE  Kept
        <3>1. PICK n, k : n = work[w].node /\ k = work[w].kind
            OBVIOUS
        <3>2. /\ artifact[n][k].state = "generating"
              /\ \A m \in Nodes, l \in Kinds : m # n \/ l # k => artifact'[m][l] = artifact[m][l]
            BY <1>1, <2>3, <3>1, HandlerWrites
        <3> QED BY <2>0, <3>2
    <2>4. ASSUME NEW n \in Nodes, PurgeRows(n)
          PROVE  Kept
        <3>1. n \notin originals /\ \A m \in Nodes : m # n => artifact'[m] = artifact[m]
            BY <2>0, <2>4 DEF TypeOK, PurgeRows, ErasingOK
        <3> QED BY <2>0, <3>1
    <2>5. CASE Queueing \/ Crash \/ UNCHANGED vars
        BY <2>1, <2>5 DEF Queueing, Report, Claim, Release, Reprocess, Crash, vars, db
    <2>6. ASSUME NEW n \in Nodes, Trash(n) \/ Erasing(n)
          PROVE  UNCHANGED artifact
        <3>1. CASE Trash(n)
            BY <3>1 DEF Trash
        <3>2. CASE Erasing(n)
            BY <3>2, ErasingSpares
        <3> QED BY <2>6, <3>1, <3>2
    <2>7. CASE Deleting
        BY <2>1, <2>4, <2>6, <2>7 DEF Deleting
    <2>8. CASE \E r \in Requests : Requesting(r)
        BY <2>1, <2>2, <2>8
    <2>9. CASE \E w \in Workers : Working(w)
        BY <2>1, <2>3, <2>9
    <2> QED BY <1>1, <2>1, <2>5, <2>7, <2>8, <2>9, Steps
<1> QED BY <1>1, Invariance, PTL DEF Spec, ArtifactStable

\* Who works on a file without "late" finds it there.
LEMMA BusyIsThere ==
    ASSUME TypeOK, DeletionOK, NEW n \in Nodes, Busy(n)
    PROVE  n \in originals /\ Exists(n) /\ erasing[n].step = "idle"
    BY DEF TypeOK, DeletionOK, Exists

\* A key that a handler has is that of a file it works on, in its type.
LEMMA HolderBusy ==
    ASSUME IInv, KeysHeld, NEW w \in Workers, work[w].key # None
    PROVE  /\ work[w].node \in Nodes /\ work[w].kind \in Kinds /\ Busy(work[w].node)
           /\ work[w].step # "idle" /\ work[w].type = "preview"
    BY DEF IInv, TypeOK, SlotsOK, KeysHeld, Busy

\* A request that gives a row a new key has the old one remembered if there is a
\* file under it, or somebody about to store one.
LEMMA StrayRequest ==
    ASSUME ConstantsOK, "late" \notin Faults, IInv, StrayInv, NEW r \in Requests, Requesting(r)
    PROVE  StrayInv'
<1>0. TypeOK /\ SlotsOK /\ DeletionOK /\ KeysHeld /\ RowUnmade /\ NoStrayArtifact
    BY DEF IInv, StrayInv
<1>1. UNCHANGED <<life, work, originals, objects, erasing>>
    BY DEF Requesting, GetArtifact, Serve, Create, Generating, RequestEnds, db, store
<1>2. ASSUME NEW n \in Nodes, Busy(n)'
      PROVE  Busy(n) \/ life[n] = "here"
    <2>1. ASSUME NEW q \in Requests, req'[q].node = n
          PROVE  Busy(n) \/ life[n] = "here"
        <3>1. CASE q # r
            <4>1. req'[q] = req[q]
                BY <1>0, <3>1 DEF Requesting, GetArtifact, Serve, Create, Generating,
                    RequestEnds, TypeOK
            <4> QED BY <2>1, <4>1 DEF Busy
        <3>2. CASE q = r /\ \E m \in Nodes, k \in Kinds : GetArtifact(r, m, k)
            BY <1>0, <2>1, <3>2 DEF GetArtifact, TypeOK
        <3>3. CASE q = r /\ (Serve(r) \/ Create(r) \/ Generating(r) \/ RequestEnds(r))
            <4>1. req'[r].node \in {None, req[r].node}
                    <5>1. req \in [Requests -> ReqType] /\ req[r] \in ReqType
                    BY <1>0 DEF TypeOK, ReqType
                <5>2. CASE Serve(r)
                    BY <1>0, <5>2, ServeSets DEF NoReq
                <5>3. CASE Create(r)
                    BY <5>1, <5>3 DEF Create, ReqType, NoReq
                <5>4. CASE Generating(r) \/ RequestEnds(r)
                    BY <5>1, <5>4 DEF Generating, RequestEnds, NoReq
                <5> QED BY <3>3, <5>2, <5>3, <5>4
            <4> QED BY <2>1, <3>3, <4>1 DEF ConstantsOK, Busy
        <3> QED BY <3>1, <3>2, <3>3 DEF Requesting
    <2>2. ASSUME Active(n, "preview")', ~Active(n, "preview")
          PROVE  Busy(n)
        <3>1. Generating(r)
            BY <2>2 DEF Requesting, GetArtifact, Serve, Create, RequestEnds, Active, db, queue
        <3>2. req[r].node \in Nodes
            BY <1>0, <3>1 DEF Generating, TypeOK, SlotsOK
        <3>3. req[r].node = n
            <4>1. UNCHANGED job \/ job' = [job EXCEPT ![req[r].node]["preview"] =
                                            [state |-> "pending", attempts |-> 0]]
                BY <3>1 DEF Generating, Enqueue
            <4> QED BY <1>0, <2>2, <3>2, <4>1 DEF Active, TypeOK
        <3> QED BY <3>3 DEF Busy
    <2> QED BY <1>1, <1>2, <2>1, <2>2 DEF Busy
<1>3. CASE ~(Create(r) /\ Exists(req[r].node))
    <2>1. UNCHANGED <<artifact, replaced>>
        BY <1>3 DEF Requesting, GetArtifact, Serve, Create, Generating, RequestEnds, db, store
    <2>2. DeletionOK'
        BY <1>0, <1>1, <1>2, <2>1 DEF DeletionOK
    <2> QED BY <1>0, <1>1, <2>1, <2>2
            DEF StrayInv, KeysHeld, RowUnmade, NoStrayArtifact
<1>4. CASE Create(r) /\ Exists(req[r].node)
    <2>1. PICK n, k : n = req[r].node /\ k = req[r].kind
        OBVIOUS
    <2> DEFINE old == artifact[n][k].key
    <2>3. /\ n \in Nodes /\ k \in Kinds /\ req[r].step = "create" /\ NewKey \in FreeKeys
          /\ artifact'[n][k] = [state |-> "generating", key |-> NewKey]
          /\ \A m \in Nodes, l \in Kinds : m # n \/ l # k => artifact'[m][l] = artifact[m][l]
          /\ replaced' = (replaced \ {NewKey}) \cup ({old} \cap FilesKept)
        BY <1>0, <1>4, <2>1, CreateWrites
    <2>4. Busy(n)
        BY <2>1 DEF Busy
    <2>5. /\ NewKey \in Keys /\ NewKey \notin objects
          /\ \A w \in Workers : work[w].key # NewKey
        BY <2>3 DEF FreeKeys
    <2> HIDE DEF old
    <2>6. DeletionOK'
        <3>1. n \in originals /\ erasing[n].step = "idle"
            BY <1>0, <2>3, <2>4, BusyIsThere
        <3> QED BY <1>0, <1>1, <1>2, <2>3, <3>1 DEF DeletionOK
    <2>7. KeysHeld'
        <3>1. ASSUME NEW w \in Workers, work[w].key # None
              PROVE  \/ artifact'[work[w].node][work[w].kind].key = work[w].key
                     \/ work[w].key \in replaced'
            <4>1. work[w].node \in Nodes /\ work[w].kind \in Kinds /\ work[w].key \in Keys
                BY <1>0, <3>1, HolderBusy DEF TypeOK
            <4>2. CASE work[w].key \in replaced
                BY <2>3, <2>5, <4>2
            <4>3. CASE artifact[work[w].node][work[w].kind].key = work[w].key
                <5>1. CASE work[w].node = n /\ work[w].kind = k
                    <6>1. work[w].key = old /\ work[w].key \in FilesKept
                        BY <4>1, <4>3, <5>1 DEF FilesKept, old
                    <6> QED BY <2>3, <6>1
                <5>2. CASE ~(work[w].node = n /\ work[w].kind = k)
                    BY <2>3, <4>1, <4>3, <5>2
                <5> QED BY <5>1, <5>2
            <4> QED BY <1>0, <3>1, <4>2, <4>3 DEF KeysHeld
        <3> QED BY <1>0, <1>1, <3>1 DEF KeysHeld
    <2>8. RowUnmade'
        <3>1. ASSUME NEW w \in Workers, work[w].step \in Making
              PROVE  LET key == artifact'[work[w].node][work[w].kind].key IN
                     key = work[w].key \/ key \notin objects
            <4>1. work[w].node \in Nodes /\ work[w].kind \in Kinds
                BY <1>0, <3>1 DEF TypeOK, SlotsOK, Making
            <4> QED BY <1>0, <2>3, <2>5, <3>1, <4>1 DEF RowUnmade
        <3> QED BY <1>1, <3>1 DEF RowUnmade
    <2>9. NoStrayArtifact'
        <3>1. ASSUME NEW key \in objects
              PROVE  key \in replaced' \/ \E m \in Nodes, l \in Kinds : artifact'[m][l].key = key
            <4>1. CASE key \in replaced
                BY <2>3, <2>5, <4>1
            <4>2. ASSUME NEW m \in Nodes, NEW l \in Kinds, artifact[m][l].key = key
                  PROVE  key \in replaced' \/ artifact'[m][l].key = key
                <5>1. CASE m = n /\ l = k
                    <6>1. key = old /\ key \in FilesKept
                        BY <1>0, <4>2, <5>1 DEF FilesKept, TypeOK, old
                    <6> QED BY <2>3, <6>1
                <5>2. CASE ~(m = n /\ l = k)
                    BY <2>3, <4>2, <5>2
                <5> QED BY <5>1, <5>2
            <4> QED BY <1>0, <4>1, <4>2 DEF NoStrayArtifact
        <3> QED BY <1>1, <3>1 DEF NoStrayArtifact
    <2> QED BY <2>6, <2>7, <2>8, <2>9 DEF StrayInv
<1> QED BY <1>3, <1>4

\* A handler stores under the key that its row has or has lost to a request, and
\* what its row has instead has no file when it takes it out.
LEMMA StrayWork ==
    ASSUME ConstantsOK, IInv, StrayInv, NEW w \in Workers, Working(w)
    PROVE  StrayInv'
<1> DEFINE n == work[w].node
           k == work[w].kind
<1>0. /\ TypeOK /\ SlotsOK /\ OneWorker /\ KeysApart
      /\ DeletionOK /\ KeysHeld /\ RowUnmade /\ NoStrayArtifact
    BY DEF IInv, StrayInv
<1>1. Moves(w) /\ HandsOn(w)
    BY <1>0, HandlerMoves, HandlerHandsOn
<1>2. /\ UNCHANGED <<life, job, req, originals>> /\ n \in Nodes /\ k \in Kinds
      /\ work[w].step # "idle" /\ work'[w].step # "idle"
      /\ work'[w].node = n /\ work'[w].type = work[w].type
      /\ \A v \in Workers : v # w => work'[v] = work[v]
    BY <1>0, <1>1 DEF TypeOK, SlotsOK, Moves
<1>3. UNCHANGED <<erasing, replaced>>
    BY <1>0, HandlerStores DEF Put, store
<1>4. \A m \in Nodes : Busy(m)' <=> Busy(m)
    BY <1>2 DEF Busy, Active
<1> HIDE DEF n, k
<1>5. CASE UNCHANGED <<artifact, objects>>
    <2>1. DeletionOK'
        BY <1>0, <1>2, <1>3, <1>4, <1>5 DEF DeletionOK
    <2>2. \/ work'[w].key = None
          \/ work'[w].key = work[w].key /\ work'[w].kind = k
          \/ work'[w].key = artifact[n][k].key /\ work'[w].kind = k
        BY <1>1 DEF HandsOn, n, k
    <2>3. work[w].type = "preview" \/ work'[w].key = None \/ work'[w].key = work[w].key
        BY <1>0, <1>1 DEF HandsOn, SlotsOK, PreviewSteps
    <2>4. KeysHeld'
        <3>1. work'[w].key # None =>
                /\ work'[w].type = "preview"
                /\ artifact[n][work'[w].kind].key = work'[w].key \/ work'[w].key \in replaced
            BY <1>0, <1>2, <2>2, <2>3 DEF KeysHeld, n, k
        <3>2. ASSUME NEW v \in Workers, work'[v].key # None
              PROVE  /\ work'[v].step # "idle" /\ work'[v].type = "preview"
                     /\ \/ artifact[work'[v].node][work'[v].kind].key = work'[v].key
                        \/ work'[v].key \in replaced
            BY <1>0, <1>2, <3>1, <3>2 DEF KeysHeld
        <3> QED BY <1>3, <1>5, <3>2 DEF KeysHeld
    <2>5. RowUnmade'
        <3>1. ASSUME work'[w].step \in Making
              PROVE  \/ artifact[n][work'[w].kind].key = work'[w].key
                     \/ artifact[n][work'[w].kind].key \notin objects
            <4>1. work'[w].key # None
                BY <1>1, <3>1 DEF Moves
            <4>2. \/ work'[w].key = artifact[n][k].key
                  \/ work'[w].key = work[w].key /\ work[w].step \in Making
                BY <1>1, <1>5, <3>1, <4>1, HandlerWrites DEF HandsOn, n, k
            <4> QED BY <1>0, <2>2, <4>1, <4>2 DEF RowUnmade, n, k
        <3> QED BY <1>0, <1>2, <1>5, <3>1 DEF RowUnmade
    <2>6. NoStrayArtifact'
        BY <1>0, <1>3, <1>5 DEF NoStrayArtifact
    <2> QED BY <2>1, <2>4, <2>5, <2>6 DEF StrayInv
<1>6. CASE Put(w)
    <2>1. /\ work[w].step = "put" /\ objects' = objects \cup {work[w].key}
          /\ UNCHANGED artifact /\ work'[w].kind = k /\ work'[w].key = work[w].key
        BY <1>0, <1>6 DEF Put, Goto, TypeOK, db, k
    <2>2. work[w].key # None /\ work[w].type = "preview" /\ Busy(n)
        BY <1>0, <2>1, HolderBusy DEF SlotsOK, Making, PreviewSteps, n
    <2>3. Exists(n) /\ erasing[n].step = "idle"
        BY <1>0, <1>2, <2>2, BusyIsThere
    <2>4. \A m \in Nodes, l \in Kinds : artifact[m][l].key = work[w].key => m = n /\ l = k
        BY <1>0, <2>2 DEF KeysApart, n, k
    <2>5. DeletionOK'
        BY <1>0, <1>2, <1>3, <1>4, <2>1, <2>3, <2>4 DEF DeletionOK
    <2>6. KeysHeld'
        BY <1>0, <1>2, <1>3, <2>1 DEF KeysHeld, n, k
    <2>7. RowUnmade'
        <3>1. ASSUME NEW v \in Workers, v # w, work[v].step \in Making
              PROVE  work[v].node # n /\ work[v].node \in Nodes /\ work[v].kind \in Kinds
            BY <1>0, <1>2, <2>2, <2>3, <3>1
               DEF OneWorker, TypeOK, SlotsOK, Making, PreviewSteps, n
        <3>2. ASSUME NEW v \in Workers, v # w, work[v].step \in Making
              PROVE  LET key == artifact[work[v].node][work[v].kind].key IN
                     key = work[v].key \/ key \notin objects'
            BY <1>0, <2>1, <2>4, <3>1, <3>2 DEF RowUnmade
        <3>3. artifact[n][k].key = work[w].key \/ artifact[n][k].key \notin objects'
            BY <1>0, <2>1 DEF RowUnmade, Making, n, k
        <3> QED BY <1>2, <2>1, <3>2, <3>3 DEF RowUnmade
    <2>8. NoStrayArtifact'
        <3>1. work[w].key \in replaced \/ artifact[n][k].key = work[w].key
            BY <1>0, <2>2 DEF KeysHeld, n, k
        <3> QED BY <1>0, <1>2, <1>3, <2>1, <3>1 DEF NoStrayArtifact
    <2> QED BY <2>5, <2>6, <2>7, <2>8 DEF StrayInv
<1>7. CASE ~UNCHANGED artifact
    <2>1. /\ Exists(n) /\ work[w].step \in Making /\ work[w].type = "preview"
          /\ work'[w].key = None /\ work[w].key # None /\ ~Put(w)
          /\ artifact'[n][k].key = work[w].key
          /\ \A m \in Nodes, l \in Kinds : m # n \/ l # k => artifact'[m][l] = artifact[m][l]
          /\ \A v \in Workers : v # w /\ work[v].step # "idle" /\ work[v].type = "preview" =>
                work[v].node # n
        BY <1>7, HandlerWrites DEF n, k
    <2>2. UNCHANGED objects
        BY <1>0, <2>1, HandlerStores DEF store
    <2>3. erasing[n].step = "idle"
        BY <1>0, <1>2, <2>1, HolderBusy, BusyIsThere DEF n
    <2>4. \A v \in Workers : v # w /\ (work[v].key # None \/ work[v].step \in Making) =>
            work[v].node # n /\ work[v].node \in Nodes /\ work[v].kind \in Kinds
        BY <1>0, <2>1 DEF KeysHeld, TypeOK, SlotsOK, Making, PreviewSteps
    <2>5. DeletionOK'
        BY <1>0, <1>2, <1>3, <1>4, <2>1, <2>2, <2>3 DEF DeletionOK
    <2>6. KeysHeld'
        BY <1>0, <1>2, <1>3, <2>1, <2>4 DEF KeysHeld
    <2>7. RowUnmade'
        <3>1. work'[w].step \notin Making
            BY <1>1, <2>1 DEF Moves
        <3>2. ASSUME NEW v \in Workers, v # w, work[v].step \in Making
              PROVE  LET key == artifact'[work[v].node][work[v].kind].key IN
                     key = work[v].key \/ key \notin objects
            BY <1>0, <2>1, <2>4, <3>2 DEF RowUnmade
        <3> QED BY <1>2, <2>2, <3>1, <3>2 DEF RowUnmade
    <2>8. NoStrayArtifact'
        <3>1. artifact[n][k].key = work[w].key \/ artifact[n][k].key \notin objects
            BY <1>0, <2>1 DEF RowUnmade, n, k
        <3>2. ASSUME NEW key \in objects, NEW m \in Nodes, NEW l \in Kinds,
                     artifact[m][l].key = key
              PROVE  artifact'[m][l].key = key
            BY <2>1, <3>1, <3>2
        <3> QED BY <1>0, <1>3, <2>2, <3>2 DEF NoStrayArtifact
    <2> QED BY <2>5, <2>6, <2>7, <2>8 DEF StrayInv
<1>8. UNCHANGED objects \/ Put(w)
    BY <1>0, HandlerStores DEF store
<1> QED BY <1>5, <1>6, <1>7, <1>8

\* The queue moves on, or the worker process dies.
LEMMA StrayQueue ==
    ASSUME ConstantsOK, IInv, StrayInv, Queueing \/ Crash
    PROVE  StrayInv'
<1>0. TypeOK /\ SlotsOK /\ DeletionOK /\ KeysHeld /\ RowUnmade /\ NoStrayArtifact
    BY DEF IInv, StrayInv
<1>1. /\ UNCHANGED <<life, artifact, originals, objects, replaced, req>>
      /\ UNCHANGED erasing \/ \A n \in Nodes : erasing'[n].step = "idle"
    <2>1. CASE Queueing
        BY <2>1 DEF Queueing, Report, Claim, Release, Reprocess, store
    <2>2. CASE Crash
        BY <2>2 DEF Crash, NotErasing, db
    <2> QED BY <2>1, <2>2
<1>2. \A v \in Workers :
        work'[v] = work[v] \/ (work'[v].step \in {"idle", "open"} /\ work'[v].key = None)
    BY <1>0, QueueingWork
<1>3. ASSUME NEW n \in Nodes, Busy(n)'
      PROVE  Busy(n)
    <2>1. ASSUME NEW w \in Workers, Report(w)
          PROVE  Busy(n)
        <3>1. /\ \A v \in Workers : work'[v].node = n => work'[v] = work[v]
              /\ work[w].node \in Nodes /\ work[w].type \in Types
            BY <1>0, <2>1 DEF ConstantsOK, TypeOK, SlotsOK, Report, NoWork
        <3>2. Active(n, "preview")' => Active(n, "preview")
            <4>1. CASE UNCHANGED job
                BY <4>1 DEF Active
            <4>2. CASE job' = [job EXCEPT ![work[w].node][work[w].type] = NoJob]
                BY <1>0, <3>1, <4>2 DEF TypeOK, Active, NoJob, Types
            <4>3. CASE /\ job[work[w].node][work[w].type].state = "leased"
                       /\ job' = [job EXCEPT ![work[w].node][work[w].type].state = "pending"]
                BY <1>0, <3>1, <4>3 DEF TypeOK, Active, Types
            <4> QED BY <2>1, <4>1, <4>2, <4>3 DEF Report, queue
        <3> QED BY <1>1, <1>3, <3>1, <3>2 DEF Busy
    <2>2. ASSUME NEW w \in Workers, NEW m \in Nodes, NEW t \in Types, Claim(w, m, t)
          PROVE  Busy(n)
        <3>1. /\ job[m][t].state = "pending" /\ work'[w].node = m /\ work'[w].type = t
              /\ \A v \in Workers : v # w => work'[v] = work[v]
              /\ Active(n, "preview")' => Active(n, "preview")
            BY <1>0, <2>2 DEF TypeOK, Claim, NoWork, Active, Types
        <3> QED BY <1>1, <1>3, <3>1 DEF Busy, Active
    <2>3. ASSUME NEW m \in Nodes, NEW t \in Types, Release(m, t)
          PROVE  Busy(n)
        <3>1. UNCHANGED work /\ (Active(n, "preview")' => Active(n, "preview"))
            BY <1>0, <2>3 DEF TypeOK, Release, Active, Types
        <3> QED BY <1>1, <1>3, <3>1 DEF Busy
    <2>4. ASSUME NEW S \in SUBSET Nodes, Reprocess(S)
          PROVE  Busy(n)
        <3>1. UNCHANGED work /\ (Active(n, "preview")' => Active(n, "preview"))
            BY <1>0, <2>4 DEF TypeOK, Reprocess, Active, Types
        <3> QED BY <1>1, <1>3, <3>1 DEF Busy
    <2>5. CASE Crash
        BY <1>1, <1>3, <2>5 DEF ConstantsOK, Busy, Active, Crash, NoWork, db, queue
    <2> QED BY <2>1, <2>2, <2>3, <2>4, <2>5 DEF Queueing
<1>4. DeletionOK'
    BY <1>0, <1>1, <1>3 DEF DeletionOK
<1>5. KeysHeld'
    BY <1>0, <1>1, <1>2 DEF KeysHeld
<1>6. RowUnmade'
    BY <1>0, <1>1, <1>2 DEF RowUnmade, Making
<1>7. NoStrayArtifact'
    BY <1>0, <1>1 DEF NoStrayArtifact
<1> QED BY <1>4, <1>5, <1>6, <1>7 DEF StrayInv

\* A deletion waits until nobody works on the file, and deletes all that is
\* stored of it before its rows go.
LEMMA StrayDelete ==
    ASSUME ConstantsOK, "late" \notin Faults, IInv, StrayInv, Deleting
    PROVE  StrayInv'
<1>0. /\ TypeOK /\ SlotsOK /\ ErasingOK
      /\ DeletionOK /\ KeysHeld /\ RowUnmade /\ NoStrayArtifact
    BY DEF IInv, StrayInv
<1>1. ASSUME NEW n \in Nodes, Trash(n)
      PROVE  StrayInv'
    <2>1. /\ UNCHANGED <<artifact, job, originals, objects, erasing, replaced, req, work>>
          /\ \A m \in Nodes : life'[m] = life[m] \/ life'[m] = "trashed"
        BY <1>0, <1>1 DEF TypeOK, Trash, queue, store
    <2>2. DeletionOK'
        BY <1>0, <2>1 DEF DeletionOK, Busy, Active
    <2> QED BY <1>0, <2>1, <2>2 DEF StrayInv, KeysHeld, RowUnmade, NoStrayArtifact
<1>2. ASSUME NEW n \in Nodes, Erasing(n)
      PROVE  StrayInv'
    <2>1. /\ UNCHANGED <<life, artifact, job, replaced, req, work>>
          /\ \A m \in Nodes : m # n => erasing'[m] = erasing[m]
          /\ objects' \subseteq objects /\ originals \ {n} \subseteq originals'
          /\ originals' \subseteq originals
        BY <1>0, <1>2, ErasingSpares DEF Erasing, ListKeys, DeleteOriginal, DeletionFails,
            DeleteArtifact, TypeOK
    <2>2. /\ life[n] # "here" /\ ~Busy(n)
          /\ life[n] = "gone" => n \notin originals'
          /\ erasing'[n].step # "idle" => \A k \in Kinds :
                artifact[n][k].key \in objects' => artifact[n][k].key \in erasing'[n].keys
        <3>1. CASE ListKeys(n)
            <4>1. /\ life[n] = "trashed" /\ ~Busy(n)
                  /\ erasing'[n].keys = {artifact[n][k].key : k \in Kinds} \ {None}
                BY <1>0, <3>1 DEF ListKeys, TypeOK
            <4>2. None \notin objects'
                BY <1>0, <2>1 DEF ConstantsOK, TypeOK
            <4> QED BY <4>1, <4>2
        <3>2. CASE DeleteOriginal(n)
            <4>1. /\ erasing[n].step # "idle" /\ erasing'[n].keys = erasing[n].keys
                  /\ UNCHANGED objects
                BY <1>0, <3>2 DEF DeleteOriginal, TypeOK
            <4> QED BY <1>0, <2>1, <4>1 DEF DeletionOK
        <3>3. CASE DeletionFails(n)
            BY <1>0, <2>1, <3>3 DEF DeletionFails, DeletionOK, TypeOK, NotErasing
        <3>4. CASE \E key \in Keys : DeleteArtifact(n, key)
            <4>1. PICK key \in Keys : DeleteArtifact(n, key)
                BY <3>4
            <4>2. /\ erasing[n].step # "idle" /\ objects' = objects \ {key}
                  /\ erasing'[n].keys = erasing[n].keys \ {key}
                BY <1>0, <4>1 DEF DeleteArtifact, TypeOK
            <4> QED BY <1>0, <2>1, <4>2 DEF DeletionOK
        <3> QED BY <1>2, <3>1, <3>2, <3>3, <3>4 DEF Erasing
    <2>3. \A m \in Nodes : Busy(m)' <=> Busy(m)
        BY <2>1 DEF Busy, Active
    <2>4. DeletionOK'
        BY <1>0, <2>1, <2>2, <2>3 DEF DeletionOK
    <2> QED BY <1>0, <2>1, <2>4 DEF StrayInv, KeysHeld, RowUnmade, NoStrayArtifact
<1>3. ASSUME NEW n \in Nodes, PurgeRows(n)
      PROVE  StrayInv'
    <2>1. /\ UNCHANGED <<originals, objects, replaced, req, work>>
          /\ n \notin originals /\ ~Busy(n) /\ life'[n] = "gone"
          /\ erasing'[n].step = "idle" /\ ~Active(n, "preview")'
          /\ \A k \in Kinds : artifact'[n][k].key = None /\ artifact[n][k].key \notin objects
          /\ \A m \in Nodes : m # n =>
                /\ life'[m] = life[m] /\ erasing'[m] = erasing[m]
                /\ artifact'[m] = artifact[m] /\ job'[m] = job[m]
        <3>1. /\ UNCHANGED <<originals, objects, replaced, req, work>> /\ life'[n] = "gone"
              /\ erasing[n].step = "artifacts" /\ erasing[n].keys = {}
              /\ erasing'[n].step = "idle" /\ \A k \in Kinds : artifact'[n][k].key = None
              /\ \A m \in Nodes : m # n =>
                    /\ life'[m] = life[m] /\ erasing'[m] = erasing[m]
                    /\ artifact'[m] = artifact[m] /\ job'[m] = job[m]
            BY <1>0, <1>3 DEF TypeOK, PurgeRows, NotErasing, NoArtifact
        <3>2. ~Active(n, "preview")'
            BY <1>0, <1>3 DEF TypeOK, PurgeRows, NoJob, Active, Types
        <3>3. n \notin originals /\ ~Busy(n) /\ \A k \in Kinds : artifact[n][k].key \notin objects
            BY <1>0, <3>1 DEF ErasingOK, DeletionOK
        <3> QED BY <3>1, <3>2, <3>3
    <2>2. \A m \in Nodes : Busy(m)' => Busy(m)
        BY <2>1 DEF Busy, Active
    <2>3. DeletionOK'
        BY <1>0, <2>1, <2>2 DEF DeletionOK
    <2>4. \A w \in Workers : work[w].key # None \/ work[w].step \in Making =>
            work[w].node \in Nodes /\ work[w].node # n
        BY <1>0, <2>1 DEF TypeOK, SlotsOK, KeysHeld, Making, PreviewSteps, Busy
    <2>5. KeysHeld' /\ RowUnmade'
        BY <1>0, <2>1, <2>4 DEF KeysHeld, RowUnmade
    <2>6. NoStrayArtifact'
        BY <1>0, <2>1 DEF NoStrayArtifact
    <2> QED BY <2>3, <2>5, <2>6 DEF StrayInv
<1> QED BY <1>1, <1>2, <1>3 DEF Deleting

\* Every step keeps it, and it holds initially.
LEMMA StrayHolds ==
    ASSUME ConstantsOK, "late" \notin Faults, IInv, StrayInv, [Next]_vars
    PROVE  StrayInv'
<1>1. CASE UNCHANGED vars
    BY <1>1 DEF StrayInv, DeletionOK, Busy, Active, KeysHeld, RowUnmade, NoStrayArtifact, vars,
        db, queue, store
<1> QED BY <1>1, Steps, StrayRequest, StrayWork, StrayQueue, StrayDelete

LEMMA StrayInit ==
    ASSUME ConstantsOK, Init
    PROVE  StrayInv
    BY DEF Init, StrayInv, DeletionOK, KeysHeld, RowUnmade, NoStrayArtifact, NoWork, Making,
        NotErasing

\* Every file in artifacts/ is named by a row, or was taken out of its row by a
\* request while it was stored or being made.  Retries, failed tools and stores,
\* crashes, requests side by side, dropped or misread, and deletions that break
\* off leave nothing else behind.  Assumed is that no preview of a file is
\* requested or made while its deletion runs ("late"), which the code permits.
THEOREM NoStrayCorrect ==
    ASSUME ConstantsOK, "late" \notin Faults PROVE Spec => []NoStrayArtifact
<1>1. StrayInv => NoStrayArtifact
    BY DEF StrayInv
<1> QED BY <1>1, InitHolds, NextHolds, StrayInit, StrayHolds, PTL DEF Spec

----------------------------------------------------------------------------
(* What the queue promises (QueueContract)                                  *)

Items == Types \X Nodes

\* An item that is idle has no attempts; a node that is gone has no jobs and
\* gets none.
JobsClear ==
    /\ \A n \in Nodes, t \in Types :
        job[n][t].state = "none" \/ ~Exists(n) => job[n][t] = NoJob
    /\ \A n \in outdated : Exists(n)

\* What of a job does not change when its handler goes on.
LEMMA HandlerSpares ==
    ASSUME NEW w \in Workers, Working(w)
    PROVE  /\ UNCHANGED <<life, job, failed>> /\ outdated' \subseteq outdated
           /\ work[w].step \notin {"idle", "ok", "error"}
<1> USE DEF db, queue, extracted, store, Quiet
<1>1. CASE Open(w) \/ StepFails(w)
    BY <1>1 DEF Open, StepFails
<1>2. CASE Previewing(w)
    BY <1>2 DEF Previewing, Look, Generate, Put, Record, MarkFailed
<1>3. CASE Extracting(w)
    BY <1>3 DEF Extracting, Identify, Extract, ExtractorFailed, RecordCompleted,
        ReplaceStreams, FillColumns, Persist
<1> QED BY <1>1, <1>2, <1>3 DEF Working

\* Jobs of purged nodes do not come back.
LEMMA JobsClearHolds ==
    ASSUME ConstantsOK, TypeOK, SlotsOK, OneWorker, JobsClear, [Next]_vars
    PROVE  JobsClear'
<1> USE DEF JobsClear, NoJob
<1>1. ASSUME NEW r \in Requests, Requesting(r)
      PROVE  JobsClear'
    <2>1. UNCHANGED <<life, outdated>>
        BY <1>1 DEF Requesting, GetArtifact, Serve, Create, Generating, RequestEnds, db,
            extracted
    <2>2. UNCHANGED job \/ Enqueue(req[r].node, "preview")
        BY <1>1 DEF Requesting, GetArtifact, Serve, Create, Generating, RequestEnds, db, queue
    <2>3. CASE UNCHANGED job
        BY <2>1, <2>3 DEF Exists
    <2>4. CASE Exists(req[r].node) /\ Enqueue(req[r].node, "preview")
        <3>1. \A n \in Nodes, t \in Types :
                job'[n][t] = job[n][t] \/ (Exists(n) /\ job'[n][t].state = "pending")
            BY <2>4 DEF Enqueue, TypeOK
        <3> QED BY <2>1, <3>1 DEF Exists
    <2> QED BY <2>2, <2>3, <2>4 DEF Enqueue
<1>2. ASSUME NEW w \in Workers, Working(w)
      PROVE  JobsClear'
    BY <1>2, HandlerSpares DEF Exists
<1>3. ASSUME NEW w \in Workers, Report(w)
      PROVE  JobsClear'
    <2>1. UNCHANGED <<life, outdated>>
        BY <1>3 DEF Report, extracted
    <2>2. \A n \in Nodes, t \in Types :
            \/ job'[n][t] = job[n][t] \/ job'[n][t] = NoJob
            \/ job[n][t].state = "leased" /\ job'[n][t].state = "pending"
        <3>1. work[w].node \in Nodes /\ work[w].type \in Types
            BY <1>3 DEF Report, SlotsOK, TypeOK
        <3>2. \/ UNCHANGED job
              \/ job' = [job EXCEPT ![work[w].node][work[w].type] = NoJob]
              \/ /\ job[work[w].node][work[w].type].state = "leased"
                 /\ job' = [job EXCEPT ![work[w].node][work[w].type].state = "pending"]
            BY <1>3 DEF Report, queue
        <3>3. PICK m \in Nodes, l \in Types : m = work[w].node /\ l = work[w].type
            BY <3>1
        <3>4. \A n \in Nodes, t \in Types : n # m \/ t # l => job'[n][t] = job[n][t]
            BY <3>2, <3>3 DEF TypeOK
        <3>5. \/ job'[m][l] = job[m][l] \/ job'[m][l] = NoJob
              \/ job[m][l].state = "leased" /\ job'[m][l].state = "pending"
            BY <3>2, <3>3 DEF TypeOK
        <3> QED BY <3>4, <3>5
    <2>3. outdated \subseteq Nodes
        BY DEF TypeOK
    <2> QED BY <2>1, <2>2, <2>3 DEF Exists
<1>4. ASSUME NEW w \in Workers, NEW n \in Nodes, NEW t \in Types, Claim(w, n, t)
      PROVE  JobsClear'
    <2>1. /\ UNCHANGED <<life, outdated>> /\ job[n][t].state = "pending"
          /\ job'[n][t].state = "leased"
          /\ \A m \in Nodes, l \in Types : m # n \/ l # t => job'[m][l] = job[m][l]
        BY <1>4 DEF Claim, TypeOK, extracted
    <2> QED BY <2>1 DEF Exists
<1>5. ASSUME NEW n \in Nodes, NEW t \in Types, Release(n, t)
      PROVE  JobsClear'
    <2>1. /\ UNCHANGED <<life, outdated>> /\ job[n][t].state = "leased"
          /\ job'[n][t].state = "pending"
          /\ \A m \in Nodes, l \in Types : m # n \/ l # t => job'[m][l] = job[m][l]
        BY <1>5 DEF Release, TypeOK, extracted
    <2> QED BY <2>1 DEF Exists
<1>6. ASSUME NEW S \in SUBSET Nodes, Reprocess(S)
      PROVE  JobsClear'
    <2>1. \A n \in Nodes, t \in Types :
            job'[n][t] = job[n][t] \/ (n \in outdated /\ job'[n][t].state = "pending")
        BY <1>6 DEF Reprocess, TypeOK
    <2> QED BY <1>6, <2>1 DEF Reprocess, Exists, extracted
<1>7. CASE Crash \/ UNCHANGED vars
    BY <1>7 DEF Crash, Exists, vars, db, queue, extracted
<1>8. ASSUME NEW n \in Nodes, Trash(n) \/ Erasing(n)
      PROVE  JobsClear'
    <2>1. UNCHANGED <<job, outdated>> /\ \A m \in Nodes : Exists(m)' <=> Exists(m)
        <3>1. CASE Trash(n)
            BY <3>1 DEF TypeOK, Trash, Exists, queue, extracted
        <3>2. CASE Erasing(n)
            BY <3>2, ErasingSpares DEF Exists
        <3> QED BY <1>8, <3>1, <3>2
    <2> QED BY <2>1 DEF TypeOK
<1>9. ASSUME NEW n \in Nodes, PurgeRows(n)
      PROVE  JobsClear'
    <2>1. /\ outdated' = outdated \ {n} /\ \A m \in Nodes \ {n} : Exists(m)' <=> Exists(m)
          /\ \A m \in Nodes, t \in Types :
                job'[m][t] = IF m = n THEN NoJob ELSE job[m][t]
        BY <1>9 DEF PurgeRows, Exists, TypeOK
    <2> QED BY <2>1 DEF TypeOK
<1> QED BY <1>1, <1>2, <1>3, <1>4, <1>5, <1>6, <1>7, <1>8, <1>9, Steps DEF Queueing, Deleting

QInv == IInv /\ JobsClear

\* Where nothing that the mapping reads has changed, the queue stutters.
LEMMA QueueStutters ==
    ASSUME UNCHANGED <<job, failed>>,
           \A w \in Workers : Doing(w)' = Doing(w) /\ Verdict(w)' = Verdict(w)
    PROVE  UNCHANGED Queue!vars
    BY DEF Queue!vars, Phase

\* A worker that is where it was, with its node where it was, does what it did.
LEMMA SameWork ==
    ASSUME NEW w \in Workers, work'[w] = work[w], UNCHANGED life
    PROVE  Doing(w)' = Doing(w) /\ Verdict(w)' = Verdict(w)
    BY DEF Doing, Verdict, Exists

\* What a worker does is an item that is running, and nobody else does it.
LEMMA Holding ==
    ASSUME QInv, NEW w \in Workers, NEW i \in Doing(w)
    PROVE  /\ i \in Items /\ i = <<work[w].type, work[w].node>> /\ Doing(w) = {i}
           /\ Exists(work[w].node) /\ job[work[w].node][work[w].type].state = "leased"
           /\ \A v \in Workers : i \in Doing(v) => v = w
<1>1. work[w].step # "idle" /\ Exists(work[w].node) /\ i = <<work[w].type, work[w].node>>
      /\ Doing(w) = {i}
    BY DEF Doing
<1>2. i \in Items
    BY <1>1 DEF QInv, IInv, SlotsOK, TypeOK, Items
<1>3. ASSUME NEW v \in Workers, i \in Doing(v)
      PROVE  v = w
    <2>1. work[v].step # "idle" /\ i = <<work[v].type, work[v].node>>
        BY <1>3 DEF Doing
    <2> QED BY <1>1, <2>1 DEF QInv, IInv, OneWorker
<1> QED BY <1>1, <1>2, <1>3 DEF QInv, IInv, OneWorker

\* Asking for a preview puts its job in, or nothing.
LEMMA RequestKeeps ==
    ASSUME QInv, NEW r \in Requests, Requesting(r)
    PROVE  Queue!Next \/ UNCHANGED Queue!vars
<1>1. UNCHANGED <<work, life, failed>>
    BY DEF Requesting, GetArtifact, Serve, Create, Generating, RequestEnds, db, queue
<1>2. \A w \in Workers : Doing(w)' = Doing(w) /\ Verdict(w)' = Verdict(w)
    BY <1>1, SameWork
<1>3. UNCHANGED job \/ Generating(r)
    BY DEF Requesting, GetArtifact, Serve, Create, RequestEnds, db, queue
<1>4. CASE UNCHANGED job
    BY <1>1, <1>2, <1>4, QueueStutters
<1>5. CASE Generating(r) /\ ~UNCHANGED job
    <2>1. PICK n \in Nodes : n = req[r].node
        BY <1>5 DEF Generating, SlotsOK, QInv, IInv, TypeOK
    <2> DEFINE i == <<"preview", n>>
    <2>2. /\ job[n]["preview"].state = "none"
          /\ job' = [job EXCEPT ![n]["preview"] = [state |-> "pending", attempts |-> 0]]
        BY <1>5, <2>1 DEF Generating, Enqueue, Active
    <2>3. /\ job'[n]["preview"] = [state |-> "pending", attempts |-> 0]
          /\ \A m \in Nodes, t \in Types : m # n \/ t # "preview" => job'[m][t] = job[m][t]
        BY <2>2 DEF QInv, IInv, TypeOK, Types
    <2>4. i \in Items /\ Phase(i) = "idle" /\ Phase(i)' = "queued"
        BY <2>1, <2>2, <2>3 DEF Items, Types, Phase
    <2>5. job[n]["preview"].attempts = 0
        BY <2>1, <2>2 DEF QInv, JobsClear, NoJob, Types
    <2>6. \A h \in Items :
            /\ h # i => Phase(h)' = Phase(h)
            /\ job'[h[2]][h[1]].attempts = job[h[2]][h[1]].attempts
        <3>1. \A t \in Types, m \in Nodes :
                /\ <<t, m>> # i => job'[m][t] = job[m][t]
                /\ job'[m][t].attempts = job[m][t].attempts
            BY <2>3, <2>5
        <3>2. \A h \in Items : h[1] \in Types /\ h[2] \in Nodes /\ h = <<h[1], h[2]>>
            BY DEF Items
        <3> QED BY <3>1, <3>2 DEF Phase
    <2>7. Queue!Enqueue({i})
        BY ONLY <1>1, <1>2, <2>4, <2>6 DEF Queue!Enqueue, Queue!Items, Items
    <2> QED BY <2>4, <2>7 DEF Queue!Next, Queue!Items, Items
<1> QED BY <1>3, <1>4, <1>5

\* A handler goes on, or comes to its verdict.
LEMMA WorkKeeps ==
    ASSUME ConstantsOK, QInv, NEW w \in Workers, Working(w)
    PROVE  Queue!Next \/ UNCHANGED Queue!vars
<1>1. /\ UNCHANGED <<life, job, failed>> /\ work[w].step \notin {"idle", "ok", "error"}
      /\ work'[w].node = work[w].node /\ work'[w].type = work[w].type
      /\ work'[w].step # "idle"
      /\ \A v \in Workers \ {w} : work'[v] = work[v]
    BY HandlerSpares, HandlerMoves DEF Moves, QInv, IInv, TypeOK
<1>2. \A v \in Workers \ {w} : Doing(v)' = Doing(v) /\ Verdict(v)' = Verdict(v)
    BY <1>1, SameWork
<1>3. Doing(w)' = Doing(w) /\ Verdict(w) = "none"
    BY <1>1 DEF Doing, Verdict, Exists
<1>4. CASE Verdict(w)' = "none"
    BY <1>1, <1>2, <1>3, <1>4, QueueStutters
<1>5. CASE Verdict(w)' # "none"
    <2>1. PICK v \in {"ok", "error"} : Verdict(w)' = v /\ Doing(w)' # {}
        BY <1>5 DEF Verdict
    <2>2. \A i \in Items :
            /\ Phase(i)' = Phase(i)
            /\ job'[i[2]][i[1]].attempts = job[i[2]][i[1]].attempts
        BY <1>1 DEF Phase
    <2>3. Queue!Judge(w, v)
        BY ONLY <1>1, <1>2, <1>3, <2>1, <2>2 DEF Queue!Judge, Items
    <2> QED BY <2>3 DEF Queue!Next
<1> QED BY <1>4, <1>5

\* An item is as before if its job is.
LEMMA SameItem ==
    ASSUME NEW i \in Items, job'[i[2]][i[1]] = job[i[2]][i[1]]
    PROVE  /\ Phase(i)' = Phase(i)
           /\ job'[i[2]][i[1]].attempts = job[i[2]][i[1]].attempts
    BY DEF Phase

\* The parts of an item.
LEMMA Parts == \A i \in Items : i[1] \in Types /\ i[2] \in Nodes /\ i = <<i[1], i[2]>>
    BY DEF Items

\* A claim starts its item.
LEMMA ClaimKeeps ==
    ASSUME QInv, NEW w \in Workers, NEW n \in Nodes, NEW t \in Types, Claim(w, n, t)
    PROVE  Queue!Next
<1> DEFINE i == <<t, n>>
<1>1. /\ work[w].step = "idle" /\ job[n][t].state = "pending" /\ UNCHANGED <<life, failed>>
      /\ job'[n][t] = [state |-> "leased", attempts |-> job[n][t].attempts + 1]
      /\ \A m \in Nodes, l \in Types : m # n \/ l # t => job'[m][l] = job[m][l]
      /\ work'[w] = [NoWork EXCEPT !.step = "open", !.node = n, !.type = t]
      /\ \A v \in Workers \ {w} : work'[v] = work[v]
    BY DEF Claim, QInv, IInv, TypeOK
<1>2. i \in Items /\ Phase(i) = "queued" /\ Phase(i)' = "running"
    BY <1>1 DEF Items, Phase
<1>3. job'[n][t].attempts = job[n][t].attempts + 1
    BY <1>1
<1>4. \A h \in Items : h # i =>
        Phase(h)' = Phase(h) /\ job'[h[2]][h[1]].attempts = job[h[2]][h[1]].attempts
    BY <1>1, Parts, SameItem
<1>5. Exists(n)
    BY <1>1 DEF QInv, JobsClear, NoJob
<1>6. Doing(w) = {} /\ Verdict(w) = "none" /\ Verdict(w)' = "none"
    BY <1>1 DEF Doing, Verdict, NoWork
<1>7. Doing(w)' = {i}
    BY <1>1, <1>5 DEF Doing, NoWork, Exists
<1>8. \A v \in Workers \ {w} : Doing(v)' = Doing(v) /\ Verdict(v)' = Verdict(v)
    BY <1>1, SameWork
<1>9. \A v \in Workers : i \notin Doing(v)
    BY <1>1, Holding
<1>10. i[1] = t /\ i[2] = n
    OBVIOUS
<1>11. Queue!Start(w, i)
    <2>1. Queue!Nobody(i)
        BY <1>9 DEF Queue!Nobody
    <2>2. [h \in Items |-> Phase(h)]' = [[h \in Items |-> Phase(h)] EXCEPT ![i] = "running"]
        BY ONLY <1>2, <1>4
    <2>3. [h \in Items |-> job[h[2]][h[1]].attempts]'
            = [[h \in Items |-> job[h[2]][h[1]].attempts] EXCEPT ![i] = @ + 1]
        BY ONLY <1>2, <1>3, <1>4, <1>10
    <2>4. [v \in Workers |-> Doing(v)]' = [[v \in Workers |-> Doing(v)] EXCEPT ![w] = {i}]
        BY ONLY <1>7, <1>8
    <2>5. [v \in Workers |-> Verdict(v)]' = [v \in Workers |-> Verdict(v)]
        BY ONLY <1>6, <1>8
    <2> QED BY ONLY <1>1, <1>2, <1>6, <2>1, <2>2, <2>3, <2>4, <2>5 DEF Queue!Start, Items
<1> QED BY <1>2, <1>11 DEF Queue!Next, Queue!Items, Items

\* What a worker reports ends its item, or puts it back.
LEMMA ReportKeeps ==
    ASSUME ConstantsOK, QInv, NEW w \in Workers, Report(w)
    PROVE  Queue!Next \/ UNCHANGED Queue!vars
<1>1. /\ work[w].step \in {"ok", "error"} /\ UNCHANGED life
      /\ work'[w] = NoWork /\ \A v \in Workers \ {w} : work'[v] = work[v]
    BY DEF Report, QInv, IInv, TypeOK
<1>2. PICK n \in Nodes, t \in Types : n = work[w].node /\ t = work[w].type
    BY <1>1 DEF QInv, IInv, SlotsOK, TypeOK
<1> DEFINE i == <<t, n>>
<1>3. \A v \in Workers \ {w} : Doing(v)' = Doing(v) /\ Verdict(v)' = Verdict(v)
    BY <1>1, SameWork
<1>4. Doing(w)' = {} /\ Verdict(w)' = "none"
    BY <1>1 DEF Doing, Verdict, NoWork
<1>5. CASE ~Exists(n)
    <2>1. Doing(w) = {} /\ Verdict(w) = "none"
        BY <1>2, <1>5 DEF Doing, Verdict
    <2>2. job[n][t].state = "none"
        BY <1>5 DEF QInv, JobsClear, NoJob
    <2>3. UNCHANGED <<job, failed>>
        BY <1>2, <2>2 DEF Report, queue
    <2> QED BY <1>3, <1>4, <2>1, <2>3, QueueStutters
<1>6. CASE Exists(n)
    <2>1. Doing(w) = {i} /\ Verdict(w) = work[w].step
        BY <1>1, <1>2, <1>6 DEF Doing, Verdict
    <2>2. i \in Items /\ job[n][t].state = "leased" /\ i[1] = t /\ i[2] = n
        BY <1>1, <1>2, <1>6 DEF QInv, IInv, OneWorker, Items
    <2>3. Phase(i) = "running"
        BY <2>2 DEF Phase
    <2> DEFINE last == job[n][t].attempts >= MaxAttempts
               ok   == job' = [job EXCEPT ![n][t] = NoJob] /\ UNCHANGED failed
                        /\ work[w].step = "ok"
               late == job' = [job EXCEPT ![n][t] = NoJob]
                        /\ failed' = [failed EXCEPT ![n] = @ \cup {t}]
                        /\ work[w].step = "error" /\ last
               back == job' = [job EXCEPT ![n][t].state = "pending"] /\ UNCHANGED failed
                        /\ work[w].step = "error" /\ ~last
    <2>4. ok \/ late \/ back
        BY <1>1, <1>2, <2>2 DEF Report
    <2>5. \A v \in Workers :
            /\ Doing(v)' = Doing(v) \ {i}
            /\ Verdict(v)' = IF Doing(v) \subseteq {i} THEN "none" ELSE Verdict(v)
        <3>1. ASSUME NEW v \in Workers \ {w}
              PROVE  /\ Doing(v)' = Doing(v) \ {i}
                     /\ Verdict(v)' = IF Doing(v) \subseteq {i} THEN "none" ELSE Verdict(v)
            <4>1. i \notin Doing(v)
                BY <2>1, Holding
            <4>2. Doing(v) = {} => Verdict(v) = "none"
                BY DEF Verdict
            <4> QED BY <1>3, <4>1, <4>2
        <3> QED BY <1>4, <2>1, <3>1
    <2>6. CASE ok \/ late
        <3>1. /\ job'[n][t] = NoJob
              /\ \A m \in Nodes, l \in Types : m # n \/ l # t => job'[m][l] = job[m][l]
            BY <2>6 DEF QInv, IInv, TypeOK
        <3>2. Phase(i)' = "idle" /\ job'[i[2]][i[1]].attempts = 0
            BY <2>2, <3>1 DEF Phase, NoJob
        <3>3. \A h \in Items : h # i =>
                Phase(h)' = Phase(h) /\ job'[h[2]][h[1]].attempts = job[h[2]][h[1]].attempts
            BY <3>1, Parts, SameItem
        <3>4. Queue!End({i})
            BY ONLY <2>5, <3>2, <3>3 DEF Queue!End, Queue!LetGo, Queue!Items, Items
        <3>5. CASE ok
            <4>1. Queue!Finish(i)
                BY ONLY <2>1, <2>2, <2>3, <3>4, <3>5 DEF Queue!Finish, Queue!Reported, Items
            <4> QED BY <2>2, <4>1 DEF Queue!Next, Queue!Items, Items
        <3>6. CASE late
            <4>0. /\ failed'[n] = failed[n] \cup {t}
                  /\ \A m \in Nodes : m # n => failed'[m] = failed[m]
                BY <3>6 DEF QInv, IInv, TypeOK
            <4>1. {h \in Items : h[1] \in failed'[h[2]]}
                    = {h \in Items : h[1] \in failed[h[2]]} \cup {i}
                BY <2>2, <4>0, Parts
            <4>2. Queue!GiveUp(i)
                BY ONLY <2>1, <2>2, <2>3, <3>4, <3>6, <4>1
                   DEF Queue!GiveUp, Queue!Reported, Items
            <4> QED BY <2>2, <4>2 DEF Queue!Next, Queue!Items, Items
        <3> QED BY <2>6, <3>5, <3>6
    <2>7. CASE back
        <3>0. job[n][t].attempts < MaxAttempts
            BY <2>7 DEF QInv, IInv, TypeOK, ConstantsOK
        <3>1. /\ job'[n][t].state = "pending" /\ job'[n][t].attempts = job[n][t].attempts
              /\ \A m \in Nodes, l \in Types : m # n \/ l # t => job'[m][l] = job[m][l]
            BY <2>7 DEF QInv, IInv, TypeOK
        <3>2. Phase(i)' = "queued"
            BY <3>1 DEF Phase
        <3>3. \A h \in Items :
                /\ h # i => Phase(h)' = Phase(h)
                /\ job'[h[2]][h[1]].attempts = job[h[2]][h[1]].attempts
            BY <3>1, Parts, SameItem
        <3>4. Queue!Retry(i)
            BY ONLY <2>1, <2>2, <2>3, <2>5, <2>7, <3>0, <3>2, <3>3
               DEF Queue!Retry, Queue!Reported, Queue!LetGo, Queue!Items, Items
        <3> QED BY <2>2, <3>4 DEF Queue!Next, Queue!Items, Items
    <2> QED BY <2>4, <2>6, <2>7
<1> QED BY <1>5, <1>6

\* The lease of a job that no worker runs any more: its item goes back.
LEMMA ReleaseKeeps ==
    ASSUME QInv, NEW n \in Nodes, NEW t \in Types, Release(n, t)
    PROVE  Queue!Next
<1> DEFINE i == <<t, n>>
<1>1. /\ job[n][t].state = "leased" /\ UNCHANGED <<life, failed, work>>
      /\ job'[n][t].state = "pending" /\ job'[n][t].attempts = job[n][t].attempts
      /\ \A m \in Nodes, l \in Types : m # n \/ l # t => job'[m][l] = job[m][l]
    BY DEF Release, QInv, IInv, TypeOK
<1>2. i \in Items /\ Phase(i) = "running" /\ Phase(i)' = "queued"
    BY <1>1 DEF Items, Phase
<1>3. \A h \in Items :
        /\ h # i => Phase(h)' = Phase(h)
        /\ job'[h[2]][h[1]].attempts = job[h[2]][h[1]].attempts
    BY <1>1, Parts, SameItem
<1>4. \A w \in Workers : Doing(w)' = Doing(w) /\ Verdict(w)' = Verdict(w)
    BY <1>1, SameWork
<1>5. \A w \in Workers : i \notin Doing(w)
    BY DEF Release, Doing
<1>6. Queue!Reclaim({i})
    BY ONLY <1>1, <1>2, <1>3, <1>4, <1>5 DEF Queue!Reclaim, Queue!Nobody, Queue!Items, Items
<1> QED BY <1>2, <1>6 DEF Queue!Next, Queue!Items, Items

\* Reprocessing puts the metadata jobs in of the nodes that have none.
LEMMA ReprocessKeeps ==
    ASSUME QInv, NEW S \in SUBSET Nodes, Reprocess(S)
    PROVE  Queue!Next
<1> DEFINE I == {i \in Items : i[2] \in S /\ i[1] = "metadata" /\ ~Active(i[2], i[1])}
<1>1. UNCHANGED <<life, failed, work>>
    BY DEF Reprocess
<1>2. \A i \in Items : i \in I =>
        /\ job[i[2]][i[1]] = NoJob
        /\ job'[i[2]][i[1]] = [state |-> "pending", attempts |-> 0]
    BY Parts DEF Reprocess, Active, QInv, JobsClear
<1>3. \A i \in Items \ I : job'[i[2]][i[1]] = job[i[2]][i[1]]
    BY Parts DEF Reprocess
<1>4. \A i \in I : Phase(i) = "idle" /\ Phase(i)' = "queued"
    BY <1>2 DEF Phase, NoJob
<1>5. \A i \in Items :
        /\ i \notin I => Phase(i)' = Phase(i)
        /\ job'[i[2]][i[1]].attempts = job[i[2]][i[1]].attempts
    BY <1>2, <1>3, SameItem DEF NoJob
<1>6. \A w \in Workers : Doing(w)' = Doing(w) /\ Verdict(w)' = Verdict(w)
    BY <1>1, SameWork
<1>7. I \in SUBSET Items
    OBVIOUS
<1>8. Queue!Enqueue(I)
    BY ONLY <1>1, <1>4, <1>5, <1>6, <1>7 DEF Queue!Enqueue, Queue!Items, Items
<1> QED BY <1>7, <1>8 DEF Queue!Next, Queue!Items, Items

\* A crash leaves the items as they were and nobody at them.
LEMMA CrashKeeps ==
    ASSUME Crash
    PROVE  Queue!Next
<1>1. UNCHANGED <<job, failed>> /\ \A w \in Workers : work'[w] = NoWork
    BY DEF Crash, db, queue
<1>2. \A w \in Workers : Doing(w)' = {} /\ Verdict(w)' = "none"
    BY <1>1 DEF Doing, Verdict, NoWork
<1>3. \A i \in Items : Phase(i)' = Phase(i)
    BY <1>1 DEF Phase
<1>4. Queue!Abandon(Workers)
    BY ONLY <1>1, <1>2, <1>3 DEF Queue!Abandon, Items
<1> QED BY <1>4 DEF Queue!Next

\* A node that is purged takes its items along.
LEMMA PurgeKeeps ==
    ASSUME QInv, NEW n \in Nodes, PurgeRows(n)
    PROVE  Queue!Next
<1> DEFINE S == {i \in Items : i[2] = n}
<1>1. /\ UNCHANGED work /\ life'[n] = "gone" /\ failed'[n] = {}
      /\ \A m \in Nodes : m # n => life'[m] = life[m] /\ failed'[m] = failed[m]
      /\ \A t \in Types : job'[n][t] = NoJob
      /\ \A m \in Nodes, t \in Types : m # n => job'[m][t] = job[m][t]
    BY DEF PurgeRows, QInv, IInv, TypeOK
<1>2. \A i \in Items : IF i \in S THEN Phase(i)' = "idle" /\ job'[i[2]][i[1]].attempts = 0
        ELSE Phase(i)' = Phase(i) /\ job'[i[2]][i[1]].attempts = job[i[2]][i[1]].attempts
    <2>1. \A i \in Items : i \in S => Phase(i)' = "idle" /\ job'[i[2]][i[1]].attempts = 0
        BY <1>1, Parts DEF Phase, NoJob
    <2>2. \A i \in Items : i \notin S =>
            Phase(i)' = Phase(i) /\ job'[i[2]][i[1]].attempts = job[i[2]][i[1]].attempts
        BY <1>1, Parts, SameItem
    <2> QED BY <2>1, <2>2
<1>3. ASSUME NEW w \in Workers
      PROVE  /\ Doing(w)' = Doing(w) \ S
             /\ Verdict(w)' = IF Doing(w) \subseteq S THEN "none" ELSE Verdict(w)
    <2>1. CASE work[w].step = "idle" \/ ~Exists(work[w].node)
        <3>1. Doing(w) = {} /\ Verdict(w) = "none"
            BY <2>1 DEF Doing, Verdict
        <3>2. Doing(w)' = {}
            <4>1. work[w].step # "idle" => work[w].node \in Nodes
                BY DEF QInv, IInv, SlotsOK, TypeOK
            <4>2. work[w].step # "idle" => life'[work[w].node] = "gone"
                BY <1>1, <2>1, <4>1 DEF Exists
            <4> QED BY <1>1, <4>2 DEF Doing, Exists
        <3>3. Verdict(w)' = "none"
            BY <3>2 DEF Verdict
        <3> QED BY <3>1, <3>2, <3>3
    <2>2. CASE work[w].step # "idle" /\ Exists(work[w].node) /\ work[w].node = n
        <3>1. Doing(w)' = {} /\ Verdict(w)' = "none"
            BY <1>1, <2>2 DEF Doing, Verdict, Exists
        <3>2. Doing(w) \subseteq S
            <4>1. Doing(w) = {<<work[w].type, n>>} /\ work[w].type \in Types
                BY <2>2 DEF Doing, QInv, IInv, TypeOK
            <4> QED BY <4>1 DEF Items
        <3> QED BY <3>1, <3>2
    <2>3. CASE work[w].step # "idle" /\ Exists(work[w].node) /\ work[w].node # n
        <3>1. work[w].node \in Nodes
            BY <2>3 DEF QInv, IInv, SlotsOK, TypeOK
        <3>2. Doing(w)' = Doing(w) /\ Verdict(w)' = Verdict(w)
            BY <1>1, <2>3, <3>1 DEF Doing, Verdict, Exists
        <3>3. Doing(w) = {<<work[w].type, work[w].node>>}
            BY <2>3 DEF Doing
        <3>4. <<work[w].type, work[w].node>> \notin S
            BY <2>3
        <3> QED BY <3>2, <3>3, <3>4
    <2> QED BY <2>1, <2>2, <2>3
<1>4. {i \in Items : i[1] \in failed'[i[2]]}
        = {i \in {h \in Items : h[1] \in failed[h[2]]} : i[2] # n}
    BY <1>1, Parts
<1>5. Queue!Cancel(n)
    BY ONLY <1>2, <1>3, <1>4
       DEF Queue!Cancel, Queue!End, Queue!LetGo, Queue!Items, Items
<1> QED BY <1>5 DEF Queue!Next

\* Every step of the system is one of the queue, or none.
LEMMA QueueStep == ConstantsOK /\ QInv /\ [Next]_vars => [Queue!Next]_(Queue!vars)
<1> SUFFICES ASSUME ConstantsOK, QInv, [Next]_vars
             PROVE  Queue!Next \/ UNCHANGED Queue!vars
    OBVIOUS
<1>1. ASSUME NEW n \in Nodes, Trash(n) \/ Erasing(n)
      PROVE  UNCHANGED Queue!vars
    <2>1. UNCHANGED <<job, failed, work>>
        BY <1>1, ErasingSpares DEF Trash, queue
    <2>2. \A m \in Nodes : Exists(m)' <=> Exists(m)
        BY <1>1, ErasingSpares DEF Trash, Exists, QInv, IInv, TypeOK
    <2>3. \A w \in Workers : work[w].step # "idle" => work[w].node \in Nodes
        BY DEF QInv, IInv, SlotsOK, TypeOK
    <2>4. \A w \in Workers : Doing(w)' = Doing(w) /\ Verdict(w)' = Verdict(w)
        BY <2>1, <2>2, <2>3 DEF Doing, Verdict, Exists
    <2> QED BY <2>1, <2>4, QueueStutters
<1>2. CASE UNCHANGED vars
    <2>1. UNCHANGED <<life, job, failed, work>>
        BY <1>2 DEF vars, db, queue
    <2> QED BY <2>1, SameWork, QueueStutters
<1> QED BY <1>1, <1>2, Steps, RequestKeeps, WorkKeeps, ClaimKeeps, ReportKeeps, ReleaseKeeps,
        ReprocessKeeps, CrashKeeps, PurgeKeeps DEF Queueing, Deleting

\* At first nobody works, and some files wait for their metadata job.
LEMMA QueueInit == ConstantsOK /\ Init => JobsClear /\ Queue!Init
<1> SUFFICES ASSUME ConstantsOK, Init PROVE JobsClear /\ Queue!Init
    OBVIOUS
<1>1. \A n \in Nodes : life[n] = "here" /\ failed[n] = {}
    BY DEF Init
<1>2. \A n \in Nodes, t \in Types :
        job[n][t] = NoJob \/ job[n][t] = [state |-> "pending", attempts |-> 0]
    BY DEF Init, NoJob
<1>3. \A w \in Workers : Doing(w) = {} /\ Verdict(w) = "none"
    BY DEF Init, NoWork, Doing, Verdict
<1>4. JobsClear
    <2>1. \A n \in Nodes, t \in Types : job[n][t].state = "none" => job[n][t] = NoJob
        BY <1>2 DEF NoJob
    <2>2. outdated \subseteq Nodes
        BY DEF Init, ConstantsOK
    <2> QED BY <1>1, <2>1, <2>2 DEF JobsClear, Exists
<1>5. \A i \in Items : Phase(i) \in {"idle", "queued"} /\ job[i[2]][i[1]].attempts = 0
    BY <1>2, Parts DEF Phase, NoJob
<1>6. \A i \in Items : i[1] \notin failed[i[2]]
    BY <1>1, Parts
<1>7. Queue!Init
    BY ONLY <1>3, <1>5, <1>6 DEF Queue!Init, Queue!Items, Items
<1> QED BY <1>4, <1>7

\* The queue that previews and metadata use, one active job for each node and
\* type and no leases, keeps the promises that the table, the leases and the
\* processors of Jobs keep as well: an item waits once, one worker does it, it
\* ends as that worker says, after at most MaxAttempts errors or with its node.
THEOREM ContractCorrect == ASSUME ConstantsOK PROVE Spec => KeepsContract
<1>1. IInv /\ JobsClear /\ [Next]_vars => JobsClear'
    BY JobsClearHolds DEF IInv
<1>2. IInv /\ JobsClear => QInv
    BY DEF QInv
<1>3. QInv /\ [Next]_vars => [Queue!Next]_(Queue!vars)
    BY QueueStep
<1> QED BY <1>1, <1>2, <1>3, QueueInit, Invariance, PTL DEF Spec, KeepsContract, Queue!Spec

=============================================================================
