--------------------------- MODULE UploadsProofs ---------------------------
(***************************************************************************)
(* Proofs about Uploads, for every number of sessions, requests, names and *)
(* bytes and for every combination of faults.                              *)
(*                                                                         *)
(* The inductive invariant is Inv.  It adds to the type invariant what the *)
(* handlers' locals mean (SlotsOK), that a session under creation has no    *)
(* other handler (CreateOK), who owns an object of originals/ (KeysOK) and   *)
(* that a ledger is finite and empty before its session exists (LedgerOK).  *)
(***************************************************************************)
EXTENDS Uploads, FiniteSetTheorems, TLAPS

Moved == {"fin_commit", "fin_undo", "fin_undo_gone"}
InChunk == {"chunk_open", "chunk_write", "chunk_record"}

SlotsOK ==
    \A r \in Requests :
        /\ pc[r] # "idle" => of[r] \in Sessions
        /\ pc[r] \in InChunk => range[r].lo <= range[r].hi
        /\ pc[r] = "chunk_write" => fd[r] \in Inodes
        /\ pc[r] \in Moved => key[r] \in Keys

TypeInv == TypeOK /\ SlotsOK

LocalsOK ==
    /\ pc \in [Requests -> Steps]
    /\ of \in [Requests -> Sessions \cup {None}]
    /\ range \in [Requests -> ByteRange]
    /\ fd \in [Requests -> Inodes \cup {None}]
    /\ found \in [Requests -> Found]
    /\ key \in [Requests -> Keys \cup {None}]
    /\ SlotsOK

----------------------------------------------------------------------------
(* Type correctness                                                         *)

\* The initial tables, directories and request slots are well typed.
LEMMA TypeInit == Init => TypeInv
BY ConstantsOK DEF Init, TypeInv, TypeOK, SlotsOK, States, Steps, ByteRange,
    Found, NoRange, NotFound, InChunk, Moved

\* Updating a set-valued function at one point.
LEMMA UpdateSet ==
    ASSUME NEW I, NEW S, NEW f \in [I -> SUBSET S], NEW i \in I, NEW v \in SUBSET S
    PROVE  [f EXCEPT ![i] = v] \in [I -> SUBSET S]
OBVIOUS

\* A slot that is freed is well typed.
LEMMA FinishLocals ==
    ASSUME LocalsOK, NEW r \in Requests, Finish(r)
    PROVE  LocalsOK'
BY DEF LocalsOK, SlotsOK, Finish, Goto, Steps, ByteRange, Found, NoRange,
    NotFound, InChunk, Moved

\* Every step keeps the types and what the handlers' locals mean.
LEMMA TypeStep == TypeInv /\ [Next]_vars => TypeInv'
<1> SUFFICES ASSUME TypeInv, [Next]_vars PROVE TypeInv'
  OBVIOUS
<1> USE ConstantsOK DEF TypeInv, TypeOK, SlotsOK, States, Steps, ByteRange, Found, File, NoRange,
      NotFound, InChunk, Moved, Begin, Goto, Finish, db, fs, rows, locals, others
<1>1. ASSUME NEW r \in Requests, NEW s \in Sessions, NEW n \in Names, NEW size \in Sizes, CreateUpload(r, s, n, size)
      PROVE  TypeInv'
  BY <1>1 DEF CreateUpload
<1>2. ASSUME NEW r \in Requests, CreateSession(r)
      PROVE  TypeInv'
  BY <1>2 DEF CreateSession
<1>3. ASSUME NEW r \in Requests, CreateSessionFails(r)
      PROVE  TypeInv'
  BY <1>3 DEF CreateSessionFails
<1>4. ASSUME NEW r \in Requests, NEW s \in Sessions, NEW c \in Ranges, NEW total \in Totals, ChunkStart(r, s, c, total)
      PROVE  TypeInv'
  BY <1>4 DEF ChunkStart, MayStart, Ranges
<1>5. ASSUME NEW r \in Requests, ChunkOpen(r)
      PROVE  TypeInv'
  <2>1. CASE staging[of[r]] # None
    <3>1. staging[of[r]] \in Inodes
      BY <1>5, <2>1 DEF ChunkOpen
    <3>. QED  BY <1>5, <2>1, <3>1 DEF ChunkOpen
  <2>2. CASE staging[of[r]] = None
    <3>1. PICK i \in Inodes : /\ staging' = [staging EXCEPT ![of[r]] = i]
                             /\ data' = [data EXCEPT ![i] = {}]
                             /\ fd' = [fd EXCEPT ![r] = i]
      BY <1>5, <2>2 DEF ChunkOpen
    <3>. QED  BY <1>5, <2>2, <3>1 DEF ChunkOpen
  <2>. QED  BY <2>1, <2>2
<1>6. ASSUME NEW r \in Requests, ChunkWrite(r)
      PROVE  TypeInv'
  <2>1. PICK m \in range[r].lo - 1 .. range[r].hi :
          /\ data' = [data EXCEPT ![fd[r]] = @ \cup (range[r].lo .. m)]
          /\ \/ /\ Goto(r, "chunk_record")
                /\ fd' = [fd EXCEPT ![r] = None]
                /\ UNCHANGED <<of, range, found, key>>
             \/ Finish(r)
    BY <1>6 DEF ChunkWrite
  <2>2. range[r].lo .. m \subseteq Nat
    BY <1>6 DEF ChunkWrite
  <2>3. data' \in [Inodes -> SUBSET Nat]
    BY <1>6, <2>1, <2>2 DEF ChunkWrite
  <2>4. CASE Finish(r)
    BY <1>6, <2>3, <2>4, FinishLocals DEF ChunkWrite, LocalsOK
  <2>5. CASE /\ Goto(r, "chunk_record")
             /\ fd' = [fd EXCEPT ![r] = None]
             /\ UNCHANGED <<of, range, found, key>>
    <3>1. pc[r] = "chunk_write" /\ LocalsOK
      BY <1>6 DEF ChunkWrite, LocalsOK
    <3>2. LocalsOK'
      BY <2>5, <3>1 DEF LocalsOK
    <3>. QED  BY <1>6, <2>3, <3>2 DEF ChunkWrite, LocalsOK
  <2>. QED  BY <2>1, <2>4, <2>5
<1>7. ASSUME NEW r \in Requests, RecordChunk(r)
      PROVE  TypeInv'
  <2>1. range[r].hi - range[r].lo + 1 \in Nat /\ range[r] \in ByteRange
    BY <1>7 DEF RecordChunk
  <2>2. of[r] \in Sessions
    BY <1>7 DEF RecordChunk
  <2>3. received' \in [Sessions -> Nat]
    <3>1. \/ UNCHANGED received
          \/ received' = [received EXCEPT
                              ![of[r]] = @ + (range[r].hi - range[r].lo + 1)]
      BY <1>7 DEF RecordChunk
    <3>. QED  BY <2>1, <2>2, <3>1
  <2>4. chunks' \in [Sessions -> SUBSET ByteRange]
    <3>1. UNCHANGED chunks \/ chunks' = [chunks EXCEPT ![of[r]] = @ \cup {range[r]}]
      BY <1>7 DEF RecordChunk
    <3>2. chunks[of[r]] \cup {range[r]} \in SUBSET ByteRange
      BY <2>1, <2>2
    <3>3. [chunks EXCEPT ![of[r]] = @ \cup {range[r]}]
            \in [Sessions -> SUBSET ByteRange]
      BY <2>2, <3>2, UpdateSet
    <3>. QED  BY <3>1, <3>3
  <2>5. LocalsOK'
    BY <1>7, FinishLocals DEF RecordChunk, LocalsOK
  <2>. QED  BY <1>7, <2>3, <2>4, <2>5 DEF RecordChunk, LocalsOK
<1>8. ASSUME NEW r \in Requests, NEW s \in Sessions, FinalizeRead(r, s)
      PROVE  TypeInv'
  BY <1>8 DEF FinalizeRead, MayStart
<1>9. ASSUME NEW r \in Requests, FinalizeChecksum(r)
      PROVE  TypeInv'
  <2>1. CASE Finish(r)
    BY <1>9, <2>1, FinishLocals DEF FinalizeChecksum, LocalsOK
  <2>2. CASE staging[of[r]] # None
    <3>1. of[r] \in Sessions /\ pc[r] = "fin_sum"
      BY <1>9 DEF FinalizeChecksum
    <3>2. data[staging[of[r]]] \in SUBSET Nat /\ found[r].size \in Nat
      BY <2>2, <3>1
    <3>3. /\ found' = [found EXCEPT ![r] = [size |-> found[r].size,
                                            sum |-> data[staging[of[r]]]]]
          /\ Goto(r, "fin_move")
          /\ UNCHANGED <<of, range, fd, key>>
      BY <1>9, <2>2 DEF FinalizeChecksum
    <3>4. found' \in [Requests -> Found]
      BY <3>2, <3>3
    <3>5. LocalsOK'
      BY <3>1, <3>3, <3>4 DEF LocalsOK
    <3>. QED  BY <1>9, <3>5 DEF FinalizeChecksum, LocalsOK
  <2>. QED  BY <1>9, <2>1, <2>2 DEF FinalizeChecksum
<1>10. ASSUME NEW r \in Requests, FinalizeMove(r)
       PROVE  TypeInv'
  <2>1. CASE Finish(r) /\ UNCHANGED <<staging, originals>>
    BY <1>10, <2>1, FinishLocals DEF FinalizeMove, LocalsOK
  <2>2. CASE staging[of[r]] # None
    <3>1. of[r] \in Sessions /\ staging[of[r]] \in Inodes
      BY <1>10, <2>2 DEF FinalizeMove
    <3>2. PICK k \in Keys : /\ originals' = [originals EXCEPT ![k] = staging[of[r]]]
                           /\ key' = [key EXCEPT ![r] = k]
      BY <1>10, <2>2 DEF FinalizeMove
    <3>3. originals' \in [Keys -> Inodes \cup {None}]
      BY <3>1, <3>2
    <3>4. /\ staging' = [staging EXCEPT ![of[r]] = None]
          /\ Goto(r, "fin_commit")
          /\ UNCHANGED <<of, range, fd, found>>
      BY <1>10, <2>2 DEF FinalizeMove
    <3>5. LocalsOK'
      BY <3>1, <3>2, <3>4 DEF LocalsOK
    <3>. QED  BY <1>10, <3>3, <3>4, <3>5 DEF FinalizeMove, LocalsOK
  <2>. QED  BY <1>10, <2>1, <2>2 DEF FinalizeMove
<1>11. ASSUME NEW r \in Requests, FinalizeReplay(r)
       PROVE  TypeInv'
  BY <1>11 DEF FinalizeReplay
<1>12. ASSUME NEW r \in Requests, FinalizeRefuse(r)
       PROVE  TypeInv'
  <2>1. of[r] \in Sessions /\ key[r] \in Keys
    BY <1>12 DEF FinalizeRefuse
  <2>2. UNCHANGED <<db, fs, of, range, fd, found, key, others>>
    BY <1>12 DEF FinalizeRefuse
  <2>3. CASE Goto(r, "fin_undo")
    BY <2>1, <2>2, <2>3
  <2>4. CASE Goto(r, "fin_undo_gone")
    BY <2>1, <2>2, <2>4
  <2>. QED  BY <1>12, <2>3, <2>4 DEF FinalizeRefuse
<1>13. ASSUME NEW r \in Requests, FinalizePublish(r)
       PROVE  TypeInv'
  BY <1>13 DEF FinalizePublish
<1>14. ASSUME NEW r \in Requests, FinalizeUndo(r)
       PROVE  TypeInv'
  <2>1. of[r] \in Sessions /\ key[r] \in Keys /\ pc[r] \in Moved
    BY <1>14 DEF FinalizeUndo, AfterUndo
  <2>2. staging' \in [Sessions -> Inodes \cup {None}]
    BY <1>14, <2>1 DEF FinalizeUndo, AfterUndo
  <2>3. originals' \in [Keys -> Inodes \cup {None}]
    BY <1>14, <2>1 DEF FinalizeUndo, AfterUndo
  <2>4. CASE Finish(r)
    BY <1>14, <2>2, <2>3, <2>4, FinishLocals DEF FinalizeUndo, AfterUndo, LocalsOK
  <2>5. CASE /\ Goto(r, "fin_discard")
             /\ key' = [key EXCEPT ![r] = None]
             /\ UNCHANGED <<of, range, fd, found>>
    <3>1. LocalsOK'
      BY <2>1, <2>5 DEF LocalsOK
    <3>. QED  BY <1>14, <2>2, <2>3, <3>1 DEF FinalizeUndo, AfterUndo, LocalsOK
  <2>. QED  BY <1>14, <2>4, <2>5 DEF FinalizeUndo, AfterUndo
<1>14a. ASSUME NEW r \in Requests, FinalizeUndoFails(r)
       PROVE  TypeInv'
  <2>1. of[r] \in Sessions /\ key[r] \in Keys /\ pc[r] \in Moved
    BY <1>14a DEF FinalizeUndoFails, AfterUndo
  <2>2. staging' \in [Sessions -> Inodes \cup {None}]
    BY <1>14a, <2>1 DEF FinalizeUndoFails, AfterUndo
  <2>3. originals' \in [Keys -> Inodes \cup {None}]
    BY <1>14a, <2>1 DEF FinalizeUndoFails, AfterUndo
  <2>4. CASE Finish(r)
    BY <1>14a, <2>2, <2>3, <2>4, FinishLocals DEF FinalizeUndoFails, AfterUndo, LocalsOK
  <2>5. CASE /\ Goto(r, "fin_discard")
             /\ key' = [key EXCEPT ![r] = None]
             /\ UNCHANGED <<of, range, fd, found>>
    <3>1. LocalsOK'
      BY <2>1, <2>5 DEF LocalsOK
    <3>. QED  BY <1>14a, <2>2, <2>3, <3>1 DEF FinalizeUndoFails, AfterUndo, LocalsOK
  <2>. QED  BY <1>14a, <2>4, <2>5 DEF FinalizeUndoFails, AfterUndo
<1>15. ASSUME NEW r \in Requests, FinalizeDiscard(r)
       PROVE  TypeInv'
  BY <1>15 DEF FinalizeDiscard
<1>16. ASSUME NEW r \in Requests, Drop(r)
       PROVE  TypeInv'
  BY <1>16 DEF Drop
<1>17. ASSUME NEW s \in Sessions, CancelSession(s)
       PROVE  TypeInv'
  BY <1>17 DEF CancelSession
<1>18. ASSUME NEW s \in Sessions, CancelDelete(s)
       PROVE  TypeInv'
  BY <1>18 DEF CancelDelete
<1>19. ASSUME NEW s \in Sessions, DropCancel(s)
       PROVE  TypeInv'
  BY <1>19 DEF DropCancel
<1>20. ASSUME SweepList
       PROVE  TypeInv'
  BY <1>20 DEF SweepList
<1>21. ASSUME NEW s \in Sessions, SweepDelete(s)
       PROVE  TypeInv'
  BY <1>21 DEF SweepDelete
<1>22. ASSUME NEW s \in Sessions, SweepSkip(s)
       PROVE  TypeInv'
  BY <1>22, SMTT(30) DEF SweepSkip
<1>23. ASSUME NEW s \in Sessions, SweepExpire(s)
       PROVE  TypeInv'
  BY <1>23, SMTT(30) DEF SweepExpire
<1>24. ASSUME SweepAbort
       PROVE  TypeInv'
  BY <1>24 DEF SweepAbort
<1>25. ASSUME NEW s \in Sessions, DeadlinePasses(s)
       PROVE  TypeInv'
  BY <1>25 DEF DeadlinePasses
<1>26. ASSUME NEW n \in Names, OtherNodeTakesName(n)
       PROVE  TypeInv'
  <2>1. taken' \subseteq Names
    BY <1>26 DEF OtherNodeTakesName
  <2>2. UNCHANGED <<rows, chunks, files, fs, pc, locals, others>>
    BY <1>26 DEF OtherNodeTakesName
  <2>. HIDE <1>26
  <2>. QED
    BY <2>1, <2>2
<1>27. ASSUME NEW n \in Names, OtherNodeFreesName(n)
       PROVE  TypeInv'
  <2>1. taken' \subseteq Names
    BY <1>27 DEF OtherNodeFreesName
  <2>2. UNCHANGED <<rows, chunks, files, fs, pc, locals, others>>
    BY <1>27 DEF OtherNodeFreesName
  <2>. HIDE <1>27
  <2>. QED
    BY <2>1, <2>2
<1>28. CASE UNCHANGED vars
  BY <1>28 DEF vars
<1>. HIDE ConstantsOK DEF TypeInv, TypeOK, SlotsOK, States, Steps, ByteRange, Found, File, NoRange,
      NotFound, InChunk, Moved, Begin, Goto, Finish, db, fs, rows, locals, others
<1>. QED
  BY <1>1, <1>2, <1>3, <1>4, <1>5, <1>6, <1>7, <1>8, <1>9, <1>10, <1>11, <1>12, <1>13, <1>14, <1>14a, <1>15, <1>16, <1>17, <1>18, <1>19, <1>20, <1>21, <1>22, <1>23, <1>24, <1>25, <1>26, <1>27, <1>28
  DEF Next, Handler, Cancel, Sweep

----------------------------------------------------------------------------
(* Steps by what they do to the database                                    *)

\* Only creating, recording, publishing, cancelling and expiring change the
\* session rows and the ledger; every other step leaves them alone.
LEMMA DbSteps ==
    ASSUME [Next]_vars
    PROVE  \/ \E r \in Requests, s \in Sessions, n \in Names, size \in Sizes :
                  CreateUpload(r, s, n, size)
           \/ \E r \in Requests :
                  CreateSession(r) \/ RecordChunk(r) \/ FinalizePublish(r)
           \/ \E s \in Sessions : CancelSession(s) \/ SweepExpire(s)
           \/ \E n \in Names : OtherNodeTakesName(n) \/ OtherNodeFreesName(n)
           \/ UNCHANGED <<state, name, expected, received, chunks, files, taken>>
BY DEF Next, Handler, Cancel, Sweep, vars, db, rows, CreateSessionFails,
    ChunkStart, ChunkOpen, ChunkWrite, FinalizeRead, FinalizeChecksum,
    FinalizeMove, FinalizeReplay, FinalizeRefuse, FinalizeUndo, FinalizeUndoFails, FinalizeDiscard,
    Drop, CancelDelete, DropCancel, SweepList, SweepDelete, SweepSkip, SweepAbort,
    DeadlinePasses

----------------------------------------------------------------------------
(* Sessions under creation                                                  *)

\* A session that is being created has no row yet and no other handler.
CreateOK ==
    \A r \in Requests : pc[r] = "create" =>
        /\ state[of[r]] = "none"
        /\ \A q \in Requests \ {r} : of[q] # of[r]

\* A session that is being created has no other handler and no row.
LEMMA CreateStep == TypeInv /\ CreateOK /\ [Next]_vars => CreateOK'
<1> SUFFICES ASSUME TypeInv, CreateOK, [Next]_vars PROVE CreateOK'
  OBVIOUS
<1> USE ConstantsOK DEF TypeInv, TypeOK, SlotsOK, CreateOK, Begin, Goto, Finish, db,
      fs, rows, locals, others
<1>1. ASSUME NEW r \in Requests, NEW s \in Sessions, NEW n \in Names, NEW size \in Sizes, CreateUpload(r, s, n, size)
      PROVE  CreateOK'
  BY <1>1 DEF CreateUpload, FreshSession
<1>2. ASSUME NEW r \in Requests, CreateSession(r)
      PROVE  CreateOK'
  BY <1>2 DEF CreateSession
<1>3. ASSUME NEW r \in Requests, CreateSessionFails(r)
      PROVE  CreateOK'
  BY <1>3 DEF CreateSessionFails
<1>4. ASSUME NEW r \in Requests, NEW s \in Sessions, NEW c \in Ranges, NEW total \in Totals, ChunkStart(r, s, c, total)
      PROVE  CreateOK'
  BY <1>4 DEF ChunkStart, MayStart, Ranges
<1>5. ASSUME NEW r \in Requests, ChunkOpen(r)
      PROVE  CreateOK'
  BY <1>5 DEF ChunkOpen
<1>6. ASSUME NEW r \in Requests, ChunkWrite(r)
      PROVE  CreateOK'
  BY <1>6 DEF ChunkWrite
<1>7. ASSUME NEW r \in Requests, RecordChunk(r)
      PROVE  CreateOK'
  BY <1>7 DEF RecordChunk
<1>8. ASSUME NEW r \in Requests, NEW s \in Sessions, FinalizeRead(r, s)
      PROVE  CreateOK'
  BY <1>8 DEF FinalizeRead, MayStart
<1>9. ASSUME NEW r \in Requests, FinalizeChecksum(r)
      PROVE  CreateOK'
  BY <1>9 DEF FinalizeChecksum
<1>10. ASSUME NEW r \in Requests, FinalizeMove(r)
       PROVE  CreateOK'
  BY <1>10 DEF FinalizeMove
<1>11. ASSUME NEW r \in Requests, FinalizeReplay(r)
       PROVE  CreateOK'
  BY <1>11 DEF FinalizeReplay
<1>12. ASSUME NEW r \in Requests, FinalizeRefuse(r)
       PROVE  CreateOK'
  BY <1>12 DEF FinalizeRefuse
<1>13. ASSUME NEW r \in Requests, FinalizePublish(r)
       PROVE  CreateOK'
  BY <1>13 DEF FinalizePublish
<1>14. ASSUME NEW r \in Requests, FinalizeUndo(r)
       PROVE  CreateOK'
  BY <1>14 DEF FinalizeUndo, AfterUndo, Moved
<1>14a. ASSUME NEW r \in Requests, FinalizeUndoFails(r)
       PROVE  CreateOK'
  BY <1>14a DEF FinalizeUndoFails, AfterUndo, Moved
<1>15. ASSUME NEW r \in Requests, FinalizeDiscard(r)
       PROVE  CreateOK'
  BY <1>15 DEF FinalizeDiscard
<1>16. ASSUME NEW r \in Requests, Drop(r)
       PROVE  CreateOK'
  BY <1>16 DEF Drop
<1>17. ASSUME NEW s \in Sessions, CancelSession(s)
       PROVE  CreateOK'
  BY <1>17 DEF CancelSession
<1>18. ASSUME NEW s \in Sessions, CancelDelete(s)
       PROVE  CreateOK'
  BY <1>18 DEF CancelDelete
<1>19. ASSUME NEW s \in Sessions, DropCancel(s)
       PROVE  CreateOK'
  BY <1>19 DEF DropCancel
<1>20. ASSUME SweepList
       PROVE  CreateOK'
  BY <1>20 DEF SweepList
<1>21. ASSUME NEW s \in Sessions, SweepDelete(s)
       PROVE  CreateOK'
  BY <1>21 DEF SweepDelete
<1>22. ASSUME NEW s \in Sessions, SweepSkip(s)
       PROVE  CreateOK'
  BY <1>22 DEF SweepSkip
<1>23. ASSUME NEW s \in Sessions, SweepExpire(s)
       PROVE  CreateOK'
  BY <1>23 DEF SweepExpire
<1>24. ASSUME SweepAbort
       PROVE  CreateOK'
  BY <1>24 DEF SweepAbort
<1>25. ASSUME NEW s \in Sessions, DeadlinePasses(s)
       PROVE  CreateOK'
  BY <1>25 DEF DeadlinePasses
<1>26. ASSUME NEW n \in Names, OtherNodeTakesName(n)
       PROVE  CreateOK'
  BY <1>26 DEF OtherNodeTakesName
<1>27. ASSUME NEW n \in Names, OtherNodeFreesName(n)
       PROVE  CreateOK'
  BY <1>27 DEF OtherNodeFreesName
<1>28. CASE UNCHANGED vars
  BY <1>28 DEF vars
<1>. QED
  BY <1>1, <1>2, <1>3, <1>4, <1>5, <1>6, <1>7, <1>8, <1>9, <1>10, <1>11, <1>12, <1>13, <1>14, <1>14a, <1>15, <1>16, <1>17, <1>18, <1>19, <1>20, <1>21, <1>22, <1>23, <1>24, <1>25, <1>26, <1>27, <1>28
  DEF Next, Handler, Cancel, Sweep

----------------------------------------------------------------------------
(* Who owns an object of originals/                                         *)

\* A finalize that has moved the bytes holds the only reference to them, and
\* what is published is there.
KeysOK ==
    /\ \A r \in Requests :
        /\ pc[r] \in Moved =>
            /\ originals[key[r]] # None
            /\ \A f \in files : f.key # key[r]
            /\ \A q \in Requests \ {r} : key[q] # key[r]
        /\ pc[r] \notin Moved => key[r] = None
    /\ PublishedStored

\* An object of originals/ keeps its owner: the handler that moved it there
\* until the transaction, the published file from then on.
LEMMA KeysStep == TypeInv /\ KeysOK /\ [Next]_vars => KeysOK'
<1> SUFFICES ASSUME TypeInv, KeysOK, [Next]_vars PROVE KeysOK'
  OBVIOUS
<1> USE ConstantsOK DEF TypeInv, TypeOK, SlotsOK, KeysOK, PublishedStored, Moved,
      Begin, Goto, Finish, db, fs, rows, locals, others, File
<1>1. ASSUME NEW r \in Requests, NEW s \in Sessions, NEW n \in Names, NEW size \in Sizes, CreateUpload(r, s, n, size)
      PROVE  KeysOK'
  BY <1>1 DEF CreateUpload
<1>2. ASSUME NEW r \in Requests, CreateSession(r)
      PROVE  KeysOK'
  BY <1>2 DEF CreateSession
<1>3. ASSUME NEW r \in Requests, CreateSessionFails(r)
      PROVE  KeysOK'
  BY <1>3 DEF CreateSessionFails
<1>4. ASSUME NEW r \in Requests, NEW s \in Sessions, NEW c \in Ranges, NEW total \in Totals, ChunkStart(r, s, c, total)
      PROVE  KeysOK'
  BY <1>4 DEF ChunkStart, MayStart, Ranges
<1>5. ASSUME NEW r \in Requests, ChunkOpen(r)
      PROVE  KeysOK'
  BY <1>5 DEF ChunkOpen
<1>6. ASSUME NEW r \in Requests, ChunkWrite(r)
      PROVE  KeysOK'
  BY <1>6 DEF ChunkWrite
<1>7. ASSUME NEW r \in Requests, RecordChunk(r)
      PROVE  KeysOK'
  BY <1>7 DEF RecordChunk
<1>8. ASSUME NEW r \in Requests, NEW s \in Sessions, FinalizeRead(r, s)
      PROVE  KeysOK'
  BY <1>8 DEF FinalizeRead, MayStart
<1>9. ASSUME NEW r \in Requests, FinalizeChecksum(r)
      PROVE  KeysOK'
  BY <1>9 DEF FinalizeChecksum
<1>10. ASSUME NEW r \in Requests, FinalizeMove(r)
       PROVE  KeysOK'
  BY <1>10 DEF FinalizeMove, FreshKey
<1>11. ASSUME NEW r \in Requests, FinalizeReplay(r)
       PROVE  KeysOK'
  BY <1>11 DEF FinalizeReplay
<1>12. ASSUME NEW r \in Requests, FinalizeRefuse(r)
       PROVE  KeysOK'
  BY <1>12 DEF FinalizeRefuse
<1>13. ASSUME NEW r \in Requests, FinalizePublish(r)
       PROVE  KeysOK'
  BY <1>13 DEF FinalizePublish
<1>14. ASSUME NEW r \in Requests, FinalizeUndo(r)
       PROVE  KeysOK'
  BY <1>14 DEF FinalizeUndo, AfterUndo
<1>14a. ASSUME NEW r \in Requests, FinalizeUndoFails(r)
       PROVE  KeysOK'
  BY <1>14a DEF FinalizeUndoFails, AfterUndo
<1>15. ASSUME NEW r \in Requests, FinalizeDiscard(r)
       PROVE  KeysOK'
  BY <1>15 DEF FinalizeDiscard
<1>16. ASSUME NEW r \in Requests, Drop(r)
       PROVE  KeysOK'
  BY <1>16 DEF Drop
<1>17. ASSUME NEW s \in Sessions, CancelSession(s)
       PROVE  KeysOK'
  BY <1>17 DEF CancelSession
<1>18. ASSUME NEW s \in Sessions, CancelDelete(s)
       PROVE  KeysOK'
  BY <1>18 DEF CancelDelete
<1>19. ASSUME NEW s \in Sessions, DropCancel(s)
       PROVE  KeysOK'
  BY <1>19 DEF DropCancel
<1>20. ASSUME SweepList
       PROVE  KeysOK'
  BY <1>20 DEF SweepList
<1>21. ASSUME NEW s \in Sessions, SweepDelete(s)
       PROVE  KeysOK'
  BY <1>21 DEF SweepDelete
<1>22. ASSUME NEW s \in Sessions, SweepSkip(s)
       PROVE  KeysOK'
  BY <1>22 DEF SweepSkip
<1>23. ASSUME NEW s \in Sessions, SweepExpire(s)
       PROVE  KeysOK'
  BY <1>23 DEF SweepExpire
<1>24. ASSUME SweepAbort
       PROVE  KeysOK'
  BY <1>24 DEF SweepAbort
<1>25. ASSUME NEW s \in Sessions, DeadlinePasses(s)
       PROVE  KeysOK'
  BY <1>25 DEF DeadlinePasses
<1>26. ASSUME NEW n \in Names, OtherNodeTakesName(n)
       PROVE  KeysOK'
  BY <1>26 DEF OtherNodeTakesName
<1>27. ASSUME NEW n \in Names, OtherNodeFreesName(n)
       PROVE  KeysOK'
  BY <1>27 DEF OtherNodeFreesName
<1>28. CASE UNCHANGED vars
  BY <1>28 DEF vars
<1>. QED
  BY <1>1, <1>2, <1>3, <1>4, <1>5, <1>6, <1>7, <1>8, <1>9, <1>10, <1>11, <1>12, <1>13, <1>14, <1>14a, <1>15, <1>16, <1>17, <1>18, <1>19, <1>20, <1>21, <1>22, <1>23, <1>24, <1>25, <1>26, <1>27, <1>28
  DEF Next, Handler, Cancel, Sweep

----------------------------------------------------------------------------
(* Publication                                                              *)

\* Completing a session and inserting its file are one step, and no other
\* step adds a file or takes a name that a file has.
LEMMA PublishedOnceStep ==
    TypeInv /\ CreateOK /\ KeysOK /\ PublishedOnce /\ [Next]_vars => PublishedOnce'
<1> SUFFICES ASSUME TypeInv, CreateOK, KeysOK, PublishedOnce, [Next]_vars
             PROVE  PublishedOnce'
  OBVIOUS
<1> USE DEF TypeInv, TypeOK, SlotsOK, PublishedOnce, File, States
<1>1. ASSUME NEW r \in Requests, NEW s \in Sessions, NEW n \in Names,
             NEW size \in Sizes, CreateUpload(r, s, n, size)
      PROVE  PublishedOnce'
  <2>1. \A f \in files : name'[f.session] = name[f.session]
    BY <1>1 DEF CreateUpload, FreshSession
  <2>. QED  BY <1>1, <2>1 DEF CreateUpload
<1>2. ASSUME NEW r \in Requests, CreateSession(r)
      PROVE  PublishedOnce'
  BY <1>2 DEF CreateSession, CreateOK
<1>3. ASSUME NEW r \in Requests, RecordChunk(r)
      PROVE  PublishedOnce'
  BY <1>3 DEF RecordChunk
<1>4. ASSUME NEW r \in Requests, FinalizePublish(r)
      PROVE  PublishedOnce'
  <2>1. PICK s \in Sessions, new \in File :
          /\ s = of[r] /\ new.session = s /\ new.key = key[r]
          /\ files' = files \cup {new}
          /\ state[s] = "active" /\ state' = [state EXCEPT ![s] = "completed"]
          /\ ~NameTaken(name[s])
          /\ UNCHANGED <<name, taken>>
    <3>1. of[r] \in Sessions /\ key[r] \in Keys /\ found[r] \in Found
      BY <1>4 DEF FinalizePublish, Moved
    <3>2. [session |-> of[r], key |-> key[r], size |-> found[r].size,
           sum |-> found[r].sum] \in File
      BY <3>1 DEF Found
    <3>. QED  BY <1>4, <3>1, <3>2 DEF FinalizePublish
  <2>2. /\ \A f \in files : f.key # new.key
        /\ \A f \in files : name[f.session] # name[s]
        /\ name[s] \notin taken
    BY <1>4, <2>1 DEF FinalizePublish, KeysOK, Moved, NameTaken
  <2>3. \A f \in files : f.session # s
    BY <2>1
  <2>. QED  BY <2>1, <2>2, <2>3
<1>5. ASSUME NEW s \in Sessions, CancelSession(s)
      PROVE  PublishedOnce'
  BY <1>5 DEF CancelSession
<1>6. ASSUME NEW s \in Sessions, SweepExpire(s)
      PROVE  PublishedOnce'
  BY <1>6 DEF SweepExpire
<1>7. ASSUME NEW n \in Names, OtherNodeTakesName(n) \/ OtherNodeFreesName(n)
      PROVE  PublishedOnce'
  BY <1>7 DEF OtherNodeTakesName, OtherNodeFreesName, NameTaken, rows
<1>. QED
  BY <1>1, <1>2, <1>3, <1>4, <1>5, <1>6, <1>7, DbSteps

----------------------------------------------------------------------------
(* The ledger                                                               *)

\* A ledger is empty until its session exists, and it covers finitely many
\* positions, as many as received_bytes says.
LedgerOK ==
    /\ LedgerExact
    /\ \A s \in Sessions : IsFiniteSet(Covered(s))
    /\ \A s \in Sessions : state[s] = "none" => chunks[s] = {}

\* Recording a range that meets no other adds its length to the cover.
LEMMA CoverGrows ==
    ASSUME TypeInv, NEW s \in Sessions, NEW c \in ByteRange, c.lo <= c.hi,
           ~Overlapping(s, c), IsFiniteSet(Covered(s)),
           chunks'[s] = chunks[s] \cup {c}
    PROVE  /\ Covered(s)' = Covered(s) \cup (c.lo .. c.hi)
           /\ IsFiniteSet(Covered(s)')
           /\ Cardinality(Covered(s)') = Cardinality(Covered(s)) + (c.hi - c.lo + 1)
<1>1. Covered(s)' = Covered(s) \cup (c.lo .. c.hi)
  BY DEF Covered
<1>2. Covered(s) \cap (c.lo .. c.hi) = {}
  <2>1. ASSUME NEW n \in Covered(s), n \in c.lo .. c.hi
        PROVE  FALSE
    <3>1. PICK d \in chunks[s] : n \in d.lo .. d.hi
      BY DEF Covered
    <3>2. d \in ByteRange
      BY DEF TypeInv, TypeOK
    <3>3. Overlaps(d, c)
      BY <2>1, <3>1, <3>2 DEF Overlaps, ByteRange
    <3>. QED  BY <3>3 DEF Overlapping
  <2>. QED  BY <2>1
<1>3. IsFiniteSet(c.lo .. c.hi) /\ Cardinality(c.lo .. c.hi) = c.hi - c.lo + 1
  BY FS_Interval DEF ByteRange
<1>4. /\ IsFiniteSet(Covered(s) \cup (c.lo .. c.hi))
      /\ Cardinality(Covered(s) \cup (c.lo .. c.hi)) =
           Cardinality(Covered(s)) + Cardinality(c.lo .. c.hi)
             - Cardinality(Covered(s) \cap (c.lo .. c.hi))
  BY <1>3, FS_Union
<1>5. Cardinality(Covered(s) \cap (c.lo .. c.hi)) = 0
  BY <1>2, FS_EmptySet
<1>6. Cardinality(Covered(s)) \in Nat
  BY FS_CardinalityType
<1>. QED  BY <1>1, <1>3, <1>4, <1>5, <1>6 DEF ByteRange

\* A step that leaves ledger, counter and states alone keeps LedgerOK.
LEMMA LedgerFrame ==
    ASSUME LedgerOK, UNCHANGED <<chunks, received>>,
           \A s \in Sessions : state'[s] = "none" => state[s] = "none"
    PROVE  LedgerOK'
BY DEF LedgerOK, LedgerExact, LedgerDisjoint, LedgerCounts, Covered

\* Recording a chunk keeps the ledger exact; nothing else touches it.
LEMMA LedgerStep == TypeInv /\ LedgerOK /\ [Next]_vars => LedgerOK'
<1> SUFFICES ASSUME TypeInv, LedgerOK, [Next]_vars PROVE LedgerOK'
  OBVIOUS
<1>1. ASSUME NEW r \in Requests, RecordChunk(r)
      PROVE  LedgerOK'
  <2>1. PICK s \in Sessions, c \in ByteRange : /\ s = of[r] /\ c = range[r]
                                              /\ c.lo <= c.hi
                                              /\ UNCHANGED state
    BY <1>1 DEF RecordChunk, TypeInv, TypeOK, SlotsOK, InChunk
  <2>2. CASE UNCHANGED <<chunks, received>>
    BY <2>1, <2>2, LedgerFrame
  <2>3. CASE /\ state[s] = "active"
             /\ ~Overlapping(s, c)
             /\ chunks' = [chunks EXCEPT ![s] = @ \cup {c}]
             /\ received' = [received EXCEPT ![s] = @ + (c.hi - c.lo + 1)]
    <3>1. /\ chunks'[s] = chunks[s] \cup {c}
          /\ received'[s] = received[s] + (c.hi - c.lo + 1)
          /\ \A t \in Sessions \ {s} : chunks'[t] = chunks[t]
                                       /\ received'[t] = received[t]
      BY <2>1, <2>3 DEF TypeInv, TypeOK
    <3>2. /\ IsFiniteSet(Covered(s)')
          /\ Cardinality(Covered(s)') = Cardinality(Covered(s)) + (c.hi - c.lo + 1)
      BY <2>1, <2>3, <3>1, CoverGrows DEF LedgerOK
    <3>3. \A t \in Sessions \ {s} : Covered(t)' = Covered(t)
      BY <3>1 DEF Covered
    <3>4. LedgerDisjoint'
      <4>1. ASSUME NEW t \in Sessions, NEW a \in chunks'[t], NEW b \in chunks'[t],
                   Overlaps(a, b)
            PROVE  a = b
        <5>1. CASE t # s
          BY <3>1, <4>1, <5>1 DEF LedgerOK, LedgerExact, LedgerDisjoint
        <5>2. CASE t = s
          <6>1. chunks[s] \subseteq ByteRange
            BY <2>1 DEF TypeInv, TypeOK
          <6>2. a \in ByteRange /\ b \in ByteRange
            BY <2>1, <3>1, <5>2, <6>1
          <6>3. Overlaps(b, a)
            BY <4>1, <6>2 DEF Overlaps, ByteRange
          <6>4. a \in chunks[s] \/ a = c
            BY <3>1, <5>2
          <6>5. b \in chunks[s] \/ b = c
            BY <3>1, <5>2
          <6>. QED
            BY <2>1, <2>3, <4>1, <6>3, <6>4, <6>5
            DEF Overlapping, LedgerOK, LedgerExact, LedgerDisjoint
        <5>. QED  BY <5>1, <5>2
      <4>. QED  BY <4>1 DEF LedgerDisjoint, Overlaps
    <3>5. LedgerCounts'
      BY <2>1, <3>1, <3>2, <3>3 DEF LedgerOK, LedgerExact, LedgerCounts
    <3>6. \A t \in Sessions : IsFiniteSet(Covered(t)')
      BY <3>2, <3>3 DEF LedgerOK
    <3>7. \A t \in Sessions : state'[t] = "none" => chunks'[t] = {}
      BY <2>1, <2>3, <3>1 DEF LedgerOK
    <3>. QED  BY <3>4, <3>5, <3>6, <3>7 DEF LedgerOK, LedgerExact
  <2>. QED  BY <1>1, <2>1, <2>2, <2>3 DEF RecordChunk
<1>2. ASSUME ~\E r \in Requests : RecordChunk(r)
      PROVE  /\ UNCHANGED <<chunks, received>>
             /\ \A s \in Sessions : state'[s] = "none" => state[s] = "none"
  BY <1>2, DbSteps DEF TypeInv, TypeOK, CreateUpload, CreateSession,
     FinalizePublish, CancelSession, SweepExpire, OtherNodeTakesName,
     OtherNodeFreesName, rows
<1>. QED  BY <1>1, <1>2, LedgerFrame

----------------------------------------------------------------------------
(* The inductive invariant                                                  *)

Inv == TypeInv /\ CreateOK /\ KeysOK /\ PublishedOnce /\ LedgerOK

\* Inv holds at first.
LEMMA InvInit == Init => Inv
<1> SUFFICES ASSUME Init PROVE Inv
  OBVIOUS
<1>1. TypeInv
  BY TypeInit
<1>2. CreateOK /\ KeysOK /\ PublishedOnce
  BY DEF Init, CreateOK, KeysOK, PublishedOnce, PublishedStored, Moved
<1>3. \A s \in Sessions : chunks[s] = {} /\ Covered(s) = {} /\ received[s] = 0
  BY DEF Init, Covered
<1>4. LedgerOK
  BY <1>3, FS_EmptySet DEF LedgerOK, LedgerExact, LedgerDisjoint, LedgerCounts
<1>. QED  BY <1>1, <1>2, <1>4 DEF Inv

\* Inv is inductive.
LEMMA InvStep == Inv /\ [Next]_vars => Inv'
BY TypeStep, CreateStep, KeysStep, PublishedOnceStep, LedgerStep DEF Inv

\* The inductive invariant holds in every reachable state of the handlers,
\* the sweep and their environment.
THEOREM Invariant == Spec => []Inv
BY InvInit, InvStep, PTL DEF Spec

\* Every reachable state is well typed.
THEOREM TypeCorrect == Spec => []TypeOK
<1>1. Inv => TypeOK
  BY DEF Inv, TypeInv
<1>. QED  BY Invariant, <1>1, PTL

\* Whatever chunk requests race on a session, its recorded ranges are disjoint
\* and received_bytes is the number of positions they cover.
THEOREM LedgerCorrect == Spec => []LedgerExact
<1>1. Inv => LedgerExact
  BY DEF Inv, LedgerOK
<1>. QED  BY Invariant, <1>1, PTL

\* A session is completed exactly when one file was published for it, and no
\* two active nodes of the folder share a name or a storage key.
THEOREM PublishCorrect == Spec => []PublishedOnce
<1>1. Inv => PublishedOnce
  BY DEF Inv
<1>. QED  BY Invariant, <1>1, PTL

\* No handler, sweep, crash or error takes the bytes of a published file away.
THEOREM StoredCorrect == Spec => []PublishedStored
<1>1. Inv => PublishedStored
  BY DEF Inv, KeysOK
<1>. QED  BY Invariant, <1>1, PTL

\* A completed, cancelled or expired session keeps its state and its ledger.
THEOREM TerminalCorrect == Spec => TerminalForever
<1>1. ASSUME Inv, [Next]_vars
      PROVE  \A s \in Sessions :
                state[s] \in {"completed", "cancelled", "expired"} =>
                    state'[s] = state[s] /\ chunks'[s] = chunks[s]
  <2> USE <1>1 DEF Inv, TypeInv, TypeOK, SlotsOK, CreateOK
  <2> TAKE s \in Sessions
  <2> HAVE state[s] \in {"completed", "cancelled", "expired"}
  <2>1. CASE UNCHANGED <<state, name, expected, received, chunks, files, taken>>
    BY <2>1
  <2>2. CASE \E r \in Requests :
                CreateSession(r) \/ RecordChunk(r) \/ FinalizePublish(r)
    BY <2>2 DEF CreateSession, RecordChunk, FinalizePublish
  <2>3. CASE \E t \in Sessions : CancelSession(t) \/ SweepExpire(t)
    BY <2>3 DEF CancelSession, SweepExpire
  <2>4. CASE \E r \in Requests, t \in Sessions, n \in Names, size \in Sizes :
                CreateUpload(r, t, n, size)
    BY <2>4 DEF CreateUpload
  <2>5. CASE \E n \in Names : OtherNodeTakesName(n) \/ OtherNodeFreesName(n)
    BY <2>5 DEF OtherNodeTakesName, OtherNodeFreesName, rows
  <2>. QED  BY <2>1, <2>2, <2>3, <2>4, <2>5, DbSteps
<1>2. ASSUME Inv, UNCHANGED vars
      PROVE  \A s \in Sessions : state'[s] = state[s] /\ chunks'[s] = chunks[s]
  BY <1>2 DEF vars, db, rows
<1>. QED  BY Invariant, <1>1, PTL DEF Spec, TerminalForever

----------------------------------------------------------------------------
(* Completeness of a published file's ledger                                *)

\* With totals on every chunk, no range of a session of known size passes its
\* end, and a session completes with received_bytes at its size.
FitsOK ==
    /\ \A s \in Sessions : expected[s] \in Nat =>
        /\ \A c \in chunks[s] : c.hi < expected[s]
        /\ state[s] = "completed" => received[s] = expected[s]
    /\ \A r \in Requests : pc[r] \in InChunk =>
        expected[of[r]] \in Nat /\ range[r].hi < expected[of[r]]

\* With totals on every chunk, no recorded or pending range passes the
\* announced size.
LEMMA FitsStep ==
    ASSUME Totals \subseteq {TRUE}, Inv, FitsOK, [Next]_vars
    PROVE  FitsOK'
<1> USE ConstantsOK DEF Inv, TypeInv, TypeOK, SlotsOK, FitsOK, InChunk, Begin, Goto,
      Finish, db, fs, rows, locals, others
<1>1. ASSUME NEW r \in Requests, NEW s \in Sessions, NEW n \in Names, NEW size \in Sizes, CreateUpload(r, s, n, size)
      PROVE  FitsOK'
  BY <1>1 DEF CreateUpload, FreshSession, LedgerOK
<1>2. ASSUME NEW r \in Requests, CreateSession(r)
      PROVE  FitsOK'
  BY <1>2 DEF CreateSession, CreateOK, LedgerOK
<1>3. ASSUME NEW r \in Requests, CreateSessionFails(r)
      PROVE  FitsOK'
  BY <1>3 DEF CreateSessionFails
<1>4. ASSUME NEW r \in Requests, NEW s \in Sessions, NEW c \in Ranges, NEW total \in Totals, ChunkStart(r, s, c, total)
      PROVE  FitsOK'
  BY <1>4 DEF ChunkStart, MayStart, Ranges
<1>5. ASSUME NEW r \in Requests, ChunkOpen(r)
      PROVE  FitsOK'
  BY <1>5 DEF ChunkOpen
<1>6. ASSUME NEW r \in Requests, ChunkWrite(r)
      PROVE  FitsOK'
  BY <1>6 DEF ChunkWrite
<1>7. ASSUME NEW r \in Requests, RecordChunk(r)
      PROVE  FitsOK'
  BY <1>7 DEF RecordChunk
<1>8. ASSUME NEW r \in Requests, NEW s \in Sessions, FinalizeRead(r, s)
      PROVE  FitsOK'
  BY <1>8 DEF FinalizeRead, MayStart
<1>9. ASSUME NEW r \in Requests, FinalizeChecksum(r)
      PROVE  FitsOK'
  BY <1>9 DEF FinalizeChecksum
<1>10. ASSUME NEW r \in Requests, FinalizeMove(r)
       PROVE  FitsOK'
  BY <1>10 DEF FinalizeMove
<1>11. ASSUME NEW r \in Requests, FinalizeReplay(r)
       PROVE  FitsOK'
  BY <1>11 DEF FinalizeReplay
<1>12. ASSUME NEW r \in Requests, FinalizeRefuse(r)
       PROVE  FitsOK'
  BY <1>12 DEF FinalizeRefuse
<1>13. ASSUME NEW r \in Requests, FinalizePublish(r)
       PROVE  FitsOK'
  BY <1>13 DEF FinalizePublish, SizeReached
<1>14. ASSUME NEW r \in Requests, FinalizeUndo(r)
       PROVE  FitsOK'
  BY <1>14 DEF FinalizeUndo, AfterUndo, Moved
<1>14a. ASSUME NEW r \in Requests, FinalizeUndoFails(r)
       PROVE  FitsOK'
  BY <1>14a DEF FinalizeUndoFails, AfterUndo, Moved
<1>15. ASSUME NEW r \in Requests, FinalizeDiscard(r)
       PROVE  FitsOK'
  BY <1>15 DEF FinalizeDiscard
<1>16. ASSUME NEW r \in Requests, Drop(r)
       PROVE  FitsOK'
  BY <1>16 DEF Drop
<1>17. ASSUME NEW s \in Sessions, CancelSession(s)
       PROVE  FitsOK'
  BY <1>17 DEF CancelSession
<1>18. ASSUME NEW s \in Sessions, CancelDelete(s)
       PROVE  FitsOK'
  BY <1>18 DEF CancelDelete
<1>19. ASSUME NEW s \in Sessions, DropCancel(s)
       PROVE  FitsOK'
  BY <1>19 DEF DropCancel
<1>20. ASSUME SweepList
       PROVE  FitsOK'
  BY <1>20 DEF SweepList
<1>21. ASSUME NEW s \in Sessions, SweepDelete(s)
       PROVE  FitsOK'
  BY <1>21 DEF SweepDelete
<1>22. ASSUME NEW s \in Sessions, SweepSkip(s)
       PROVE  FitsOK'
  BY <1>22 DEF SweepSkip
<1>23. ASSUME NEW s \in Sessions, SweepExpire(s)
       PROVE  FitsOK'
  BY <1>23 DEF SweepExpire
<1>24. ASSUME SweepAbort
       PROVE  FitsOK'
  BY <1>24 DEF SweepAbort
<1>25. ASSUME NEW s \in Sessions, DeadlinePasses(s)
       PROVE  FitsOK'
  BY <1>25 DEF DeadlinePasses
<1>26. ASSUME NEW n \in Names, OtherNodeTakesName(n)
       PROVE  FitsOK'
  BY <1>26 DEF OtherNodeTakesName
<1>27. ASSUME NEW n \in Names, OtherNodeFreesName(n)
       PROVE  FitsOK'
  BY <1>27 DEF OtherNodeFreesName
<1>28. CASE UNCHANGED vars
  BY <1>28 DEF vars
<1>. QED
  BY <1>1, <1>2, <1>3, <1>4, <1>5, <1>6, <1>7, <1>8, <1>9, <1>10, <1>11, <1>12, <1>13, <1>14, <1>14a, <1>15, <1>16, <1>17, <1>18, <1>19, <1>20, <1>21, <1>22, <1>23, <1>24, <1>25, <1>26, <1>27, <1>28
  DEF Next, Handler, Cancel, Sweep

\* A ledger that has as many bytes as its file covers all of it.
LEMMA FullLedger ==
    ASSUME Inv, FitsOK, NEW s \in Sessions, expected[s] \in Nat,
           received[s] = expected[s]
    PROVE  Covered(s) = 0 .. expected[s] - 1
<1>1. Covered(s) \subseteq 0 .. expected[s] - 1
  <2>1. chunks[s] \subseteq ByteRange
    BY DEF Inv, TypeInv, TypeOK
  <2>. QED  BY <2>1 DEF FitsOK, Covered, ByteRange
<1>2. Cardinality(Covered(s)) = expected[s]
  BY DEF Inv, LedgerOK, LedgerExact, LedgerCounts
<1>3. /\ IsFiniteSet(0 .. expected[s] - 1)
      /\ Cardinality(0 .. expected[s] - 1) = expected[s]
  <2>1. expected[s] - 1 \in Int /\ 0 \in Int
    OBVIOUS
  <2>2. /\ IsFiniteSet(0 .. expected[s] - 1)
        /\ Cardinality(0 .. expected[s] - 1) =
             IF 0 > expected[s] - 1 THEN 0 ELSE expected[s] - 1 - 0 + 1
    BY <2>1, FS_Interval
  <2>. QED  BY <2>2
<1>. QED  BY <1>1, <1>2, <1>3, FS_Subset

\* With totals on every chunk a session of known size completes only when its
\* ledger covers the file from the first byte to the last.
THEOREM CompleteCorrect ==
    ASSUME Totals \subseteq {TRUE}
    PROVE  Spec => []CompleteLedger
<1>1. Init => FitsOK
  BY DEF Init, FitsOK, InChunk
<1>2. Inv /\ FitsOK /\ [Next]_vars => FitsOK'
  BY FitsStep
<1>3. ASSUME Inv, FitsOK
      PROVE  CompleteLedger
  <2> SUFFICES ASSUME NEW s \in Sessions, state[s] = "completed",
                      expected[s] # Unknown
               PROVE  Covered(s) = 0 .. expected[s] - 1
    BY DEF CompleteLedger
  <2>1. expected[s] \in Nat /\ received[s] = expected[s]
    BY <1>3 DEF Inv, TypeInv, TypeOK, FitsOK
  <2>. QED  BY <1>3, <2>1, FullLedger
<1>. QED  BY Invariant, <1>1, <1>2, <1>3, PTL DEF Spec

=============================================================================
