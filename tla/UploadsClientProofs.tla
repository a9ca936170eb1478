----------------------- MODULE UploadsClientProofs -----------------------
(***************************************************************************)
(* Proofs about Uploads when one client at a time works on a session and no *)
(* session grows old: what is published is intact, what is missing can be   *)
(* sent, and the handlers implement UploadContract.  Any number of sessions *)
(* are in flight, statements and deletions may fail, a DELETE may arrive at *)
(* any moment.  If chunks carry the total, clients hang up anywhere and the *)
(* rename back may fail; with neither, no object is left behind and all is  *)
(* resumable.                                                              *)
(*                                                                         *)
(* To the invariant of UploadsProofs, ClientInv adds that no two handlers   *)
(* share a session (Solo), that every file has one name (PlacesOK), what is *)
(* known of the bytes at each step of a chunk or a finalize (BytesOK), that *)
(* nothing lies past the bound (BoundOK), and, with totals, that ranges lie  *)
(* below the announced size (FitsOK).                                       *)
(***************************************************************************)
EXTENDS UploadsProofs

\* A finalize may end between its rename and the rename back, or fail to do the
\* second.
MayStrand == Faults \cap {"disconnect", "rename_error"} # {}

\* One client at a time works on a session, and the session is not reaped under
\* it; if a finalize can strand the bytes, the chunks carry the total.
InTurn ==
    /\ ~Shared /\ "expiry" \notin Faults
    /\ MayStrand => Totals \subseteq {TRUE}

\* One client at a time, nobody hangs up and no rename back fails.
OneClient == ~Shared /\ Faults \subseteq {"db_error", "storage_error"}

----------------------------------------------------------------------------
(* The invariant                                                            *)

Gone == {"fin_undo_gone", "fin_discard"}

\* No two handlers share a session; a handler outlives its session only by a
\* cancel.
Solo ==
    /\ overdue = {}
    /\ sweep = [todo |-> {}, cur |-> None]
    /\ \A s \in cancelling : state[s] = "cancelled"
    /\ \A r \in Requests :
        /\ pc[r] = "idle" => of[r] = None
        /\ \A q \in Requests : of[r] = of[q] /\ of[r] # None => r = q
        /\ pc[r] \notin {"idle", "create"} => state[of[r]] \in {"active", "cancelled"}
        /\ pc[r] \in Gone => state[of[r]] = "cancelled"

\* No two names for one file, and no handle on another session's file or on
\* an original.
PlacesOK ==
    /\ \A s, t \in Sessions : staging[s] # None /\ staging[s] = staging[t] => s = t
    /\ \A k, l \in Keys : originals[k] # None /\ originals[k] = originals[l] => k = l
    /\ \A s \in Sessions, k \in Keys : staging[s] # None => staging[s] # originals[k]
    /\ \A r \in Requests :
        /\ pc[r] # "chunk_write" => fd[r] = None
        /\ fd[r] # None =>
            /\ \A k \in Keys : originals[k] # fd[r]
            /\ \A s \in Sessions : staging[s] = fd[r] => s = of[r]

Claimed(c) == c.lo .. c.hi

\* A handler whose session is still active.
Live(r) == pc[r] # "idle" /\ state[of[r]] = "active"

Working == InChunk \cup {"fin_move"}

\* What the handler of an active session knows of its staging file, and a
\* finalize of the ledger.
LocalOK(r) ==
    /\ pc[r] = "create" => staging[of[r]] # None
    /\ Live(r) =>
        /\ pc[r] \in Working => staging[of[r]] # None
        /\ pc[r] = "chunk_write" => fd[r] = staging[of[r]]
        /\ pc[r] = "chunk_record" => Claimed(range[r]) \subseteq data[staging[of[r]]]
        /\ pc[r] = "fin_move" => found[r].sum = data[staging[of[r]]]
        /\ pc[r] \in {"fin_sum", "fin_move"} \cup Moved => SizeReached(of[r])
        /\ pc[r] \in Moved => staging[of[r]] = None

\* A finalize has ended after its rename, which was not undone.  The bytes are under
\* a key that nobody knows, and no chunk is left to send.
Lost(s) == MayStrand /\ staging[s] = None /\ SizeReached(s)

\* An active session's staging file holds what the ledger claims, unless a
\* finalize has moved it.
Kept(s) ==
    \/ staging[s] # None /\ Covered(s) \subseteq data[staging[s]]
    \/ Lost(s)
StagingOK ==
    /\ \A s \in Sessions :
        state[s] = "active" /\ (\A r \in Requests : of[r] = s => pc[r] \notin Moved) =>
            Kept(s)
    /\ \A r \in Requests : LocalOK(r)

\* What the handler that has moved the bytes of an active session knows.
HeldBy(r) == Live(r) =>
    /\ pc[r] \in {"fin_sum", "fin_move", "fin_commit"} =>
        found[r].size = received[of[r]]
    /\ pc[r] \in Moved => Covered(of[r]) \subseteq data[originals[key[r]]]
    /\ pc[r] = "fin_commit" => found[r].sum = data[originals[key[r]]]

HeldOK == \A r \in Requests : HeldBy(r)

\* No byte lies past the bound.
BoundOK ==
    /\ \A i \in Inodes : data[i] \subseteq 0 .. MaxByte
    /\ \A r \in Requests : pc[r] \in InChunk => range[r].hi <= MaxByte

BytesOK == StagingOK /\ HeldOK /\ PublishedIntact

ClientInv ==
    /\ Inv /\ Solo /\ PlacesOK /\ BytesOK /\ BoundOK
    /\ Totals \subseteq {TRUE} => FitsOK

----------------------------------------------------------------------------
(* The steps left                                                           *)

\* With one client and no expiry the sweep has nothing to do.
LEMMA ClientSteps ==
    ASSUME InTurn, Solo, [Next]_vars
    PROVE  \/ \E r \in Requests :
               \/ \E s \in Sessions, n \in Names, size \in Sizes :
                      CreateUpload(r, s, n, size)
               \/ CreateSession(r) \/ CreateSessionFails(r)
               \/ \E s \in Sessions, c \in Ranges, total \in Totals :
                      ChunkStart(r, s, c, total)
               \/ ChunkOpen(r) \/ ChunkWrite(r) \/ RecordChunk(r)
               \/ \E s \in Sessions : FinalizeRead(r, s)
               \/ FinalizeChecksum(r) \/ FinalizeMove(r) \/ FinalizeReplay(r)
               \/ FinalizeRefuse(r) \/ FinalizePublish(r)
               \/ FinalizeUndo(r) \/ FinalizeUndoFails(r)
               \/ FinalizeDiscard(r) \/ Drop(r)
           \/ \E s \in Sessions : CancelSession(s) \/ CancelDelete(s) \/ DropCancel(s)
           \/ \E n \in Names : OtherNodeTakesName(n) \/ OtherNodeFreesName(n)
           \/ UNCHANGED vars
<1>1. \A s \in Sessions : ~DeadlinePasses(s)
  BY DEF InTurn, DeadlinePasses
<1>2. ~Sweep
  BY ConstantsOK DEF Solo, Sweep, SweepList, SweepDelete, SweepSkip, SweepExpire,
      SweepAbort
<1>. QED  BY <1>1, <1>2 DEF Next, Handler, Cancel

\* One handler per session, and no sweep.
LEMMA SoloStep ==
    ASSUME InTurn, Inv, Solo, [Next]_vars
    PROVE  Solo'
<1> USE ConstantsOK DEF Inv, TypeInv, TypeOK, SlotsOK, Moved, InChunk, Gone, Begin, Goto,
      Finish, db, fs, rows, locals, others, Solo, CreateOK, InTurn
<1>1. ASSUME NEW r \in Requests, NEW s \in Sessions, NEW n \in Names, NEW size \in Sizes,
             CreateUpload(r, s, n, size)
      PROVE  Solo'
  BY <1>1 DEF CreateUpload, FreshSession
<1>2. ASSUME NEW r \in Requests, CreateSession(r)
      PROVE  Solo'
  BY <1>2 DEF CreateSession
<1>3. ASSUME NEW r \in Requests, CreateSessionFails(r)
      PROVE  Solo'
  BY <1>3 DEF CreateSessionFails
<1>4. ASSUME NEW r \in Requests, NEW s \in Sessions, NEW c \in Ranges, NEW total \in Totals,
             ChunkStart(r, s, c, total)
      PROVE  Solo'
  BY <1>4 DEF ChunkStart, MayStart
<1>5. ASSUME NEW r \in Requests, ChunkOpen(r)
      PROVE  Solo'
  BY <1>5 DEF ChunkOpen
<1>6. ASSUME NEW r \in Requests, ChunkWrite(r)
      PROVE  Solo'
  BY <1>6 DEF ChunkWrite
<1>7. ASSUME NEW r \in Requests, RecordChunk(r)
      PROVE  Solo'
  BY <1>7 DEF RecordChunk
<1>8. ASSUME NEW r \in Requests, NEW s \in Sessions, FinalizeRead(r, s)
      PROVE  Solo'
  BY <1>8 DEF FinalizeRead, MayStart
<1>9. ASSUME NEW r \in Requests, FinalizeChecksum(r)
      PROVE  Solo'
  BY <1>9 DEF FinalizeChecksum
<1>10. ASSUME NEW r \in Requests, FinalizeMove(r)
       PROVE  Solo'
  BY <1>10 DEF FinalizeMove
<1>11. ASSUME NEW r \in Requests, FinalizeReplay(r)
       PROVE  Solo'
  BY <1>11 DEF FinalizeReplay
<1>12. ASSUME NEW r \in Requests, FinalizeRefuse(r)
       PROVE  Solo'
  BY <1>12 DEF FinalizeRefuse
<1>13. ASSUME NEW r \in Requests, FinalizePublish(r)
       PROVE  Solo'
  BY <1>13 DEF FinalizePublish
<1>14. ASSUME NEW r \in Requests, FinalizeUndo(r)
       PROVE  Solo'
  BY <1>14 DEF FinalizeUndo, AfterUndo
<1>14a. ASSUME NEW r \in Requests, FinalizeUndoFails(r)
       PROVE  Solo'
  BY <1>14a DEF FinalizeUndoFails, AfterUndo
<1>15. ASSUME NEW r \in Requests, FinalizeDiscard(r)
       PROVE  Solo'
  BY <1>15 DEF FinalizeDiscard
<1>16. ASSUME NEW s \in Sessions, CancelSession(s)
       PROVE  Solo'
  BY <1>16 DEF CancelSession
<1>17. ASSUME NEW s \in Sessions, CancelDelete(s)
       PROVE  Solo'
  BY <1>17 DEF CancelDelete
<1>18. ASSUME NEW n \in Names, OtherNodeTakesName(n)
       PROVE  Solo'
  BY <1>18 DEF OtherNodeTakesName
<1>19. ASSUME NEW n \in Names, OtherNodeFreesName(n)
       PROVE  Solo'
  BY <1>19 DEF OtherNodeFreesName
<1>20. CASE UNCHANGED vars
  BY <1>20 DEF vars
<1>21. ASSUME NEW r \in Requests, Drop(r)
       PROVE  Solo'
  BY <1>21 DEF Drop
<1>22. ASSUME NEW s \in Sessions, DropCancel(s)
       PROVE  Solo'
  BY <1>22 DEF DropCancel
<1>. QED
  BY ClientSteps, <1>1, <1>2, <1>3, <1>4, <1>5, <1>6, <1>7, <1>8, <1>9, <1>10, <1>11,
     <1>12, <1>13, <1>14, <1>14a, <1>15, <1>16, <1>17, <1>18, <1>19, <1>20, <1>21, <1>22

\* A file has one name: a body is created under a fresh one and renamed.
LEMMA PlacesStep ==
    ASSUME InTurn, Inv, Solo, PlacesOK, [Next]_vars
    PROVE  PlacesOK'
<1> USE ConstantsOK DEF Inv, TypeInv, TypeOK, SlotsOK, Moved, InChunk, Gone, Begin, Goto,
      Finish, db, fs, rows, locals, others, PlacesOK
<1>1. ASSUME NEW r \in Requests, NEW s \in Sessions, NEW n \in Names, NEW size \in Sizes,
             CreateUpload(r, s, n, size)
      PROVE  PlacesOK'
  BY <1>1 DEF CreateUpload, FreeInode
<1>2. ASSUME NEW r \in Requests, CreateSession(r)
      PROVE  PlacesOK'
  BY <1>2 DEF CreateSession
<1>3. ASSUME NEW r \in Requests, CreateSessionFails(r)
      PROVE  PlacesOK'
  BY <1>3 DEF CreateSessionFails
<1>4. ASSUME NEW r \in Requests, NEW s \in Sessions, NEW c \in Ranges, NEW total \in Totals,
             ChunkStart(r, s, c, total)
      PROVE  PlacesOK'
  BY <1>4 DEF ChunkStart, MayStart
<1>5. ASSUME NEW r \in Requests, ChunkOpen(r)
      PROVE  PlacesOK'
  BY <1>5 DEF ChunkOpen, FreeInode
<1>6. ASSUME NEW r \in Requests, ChunkWrite(r)
      PROVE  PlacesOK'
  BY <1>6 DEF ChunkWrite
<1>7. ASSUME NEW r \in Requests, RecordChunk(r)
      PROVE  PlacesOK'
  BY <1>7 DEF RecordChunk
<1>8. ASSUME NEW r \in Requests, NEW s \in Sessions, FinalizeRead(r, s)
      PROVE  PlacesOK'
  BY <1>8 DEF FinalizeRead, MayStart
<1>9. ASSUME NEW r \in Requests, FinalizeChecksum(r)
      PROVE  PlacesOK'
  BY <1>9 DEF FinalizeChecksum
<1>10. ASSUME NEW r \in Requests, FinalizeMove(r)
       PROVE  PlacesOK'
  <2>1. CASE Finish(r) /\ UNCHANGED <<staging, originals>>
    BY <1>10, <2>1 DEF FinalizeMove
  <2>2. CASE staging[of[r]] # None
    <3>1. PICK k \in Keys : /\ FreshKey(k)
                           /\ originals' = [originals EXCEPT ![k] = staging[of[r]]]
      BY <1>10, <2>2 DEF FinalizeMove
    <3>2. /\ pc[r] = "fin_move" /\ of[r] \in Sessions
          /\ staging' = [staging EXCEPT ![of[r]] = None]
          /\ pc' = [pc EXCEPT ![r] = "fin_commit"]
          /\ UNCHANGED <<of, range, fd, found>>
      BY <1>10, <2>2 DEF FinalizeMove
    <3>3. originals[k] = None
      BY <3>1 DEF FreshKey
    <3>4. \A q \in Requests : fd[q] # None => fd[q] # staging[of[r]]
      BY <3>2 DEF Solo
    <3>. HIDE <1>10
    <3>. QED  BY <2>2, <3>1, <3>2, <3>3, <3>4
  <2>. QED  BY <1>10, <2>1, <2>2 DEF FinalizeMove
<1>11. ASSUME NEW r \in Requests, FinalizeReplay(r)
       PROVE  PlacesOK'
  BY <1>11 DEF FinalizeReplay
<1>12. ASSUME NEW r \in Requests, FinalizeRefuse(r)
       PROVE  PlacesOK'
  BY <1>12 DEF FinalizeRefuse
<1>13. ASSUME NEW r \in Requests, FinalizePublish(r)
       PROVE  PlacesOK'
  BY <1>13 DEF FinalizePublish
<1>14. ASSUME NEW r \in Requests, FinalizeUndo(r)
       PROVE  PlacesOK'
  BY <1>14 DEF FinalizeUndo, AfterUndo
<1>14a. ASSUME NEW r \in Requests, FinalizeUndoFails(r)
       PROVE  PlacesOK'
  BY <1>14a DEF FinalizeUndoFails, AfterUndo
<1>15. ASSUME NEW r \in Requests, FinalizeDiscard(r)
       PROVE  PlacesOK'
  <2>1. /\ of[r] \in Sessions /\ pc'[r] = "idle" /\ fd'[r] = None
        /\ \A t \in Sessions : staging'[t] \in {staging[t], None}
        /\ \A q \in Requests \ {r} :
             pc'[q] = pc[q] /\ of'[q] = of[q] /\ fd'[q] = fd[q]
        /\ UNCHANGED originals
    BY <1>15 DEF FinalizeDiscard
  <2>. HIDE <1>15
  <2>. QED  BY <2>1
<1>16. ASSUME NEW s \in Sessions, CancelSession(s)
       PROVE  PlacesOK'
  BY <1>16 DEF CancelSession
<1>17. ASSUME NEW s \in Sessions, CancelDelete(s)
       PROVE  PlacesOK'
  BY <1>17 DEF CancelDelete
<1>18. ASSUME NEW n \in Names, OtherNodeTakesName(n)
       PROVE  PlacesOK'
  BY <1>18 DEF OtherNodeTakesName
<1>19. ASSUME NEW n \in Names, OtherNodeFreesName(n)
       PROVE  PlacesOK'
  BY <1>19 DEF OtherNodeFreesName
<1>20. CASE UNCHANGED vars
  BY <1>20 DEF vars
<1>21. ASSUME NEW r \in Requests, Drop(r)
       PROVE  PlacesOK'
  BY <1>21 DEF Drop
<1>22. ASSUME NEW s \in Sessions, DropCancel(s)
       PROVE  PlacesOK'
  BY <1>22 DEF DropCancel
<1>. QED
  BY ClientSteps, <1>1, <1>2, <1>3, <1>4, <1>5, <1>6, <1>7, <1>8, <1>9, <1>10, <1>11,
     <1>12, <1>13, <1>14, <1>14a, <1>15, <1>16, <1>17, <1>18, <1>19, <1>20, <1>21, <1>22

\* A body never exceeds its range.
LEMMA BoundStep ==
    ASSUME InTurn, Inv, Solo, BoundOK, [Next]_vars
    PROVE  BoundOK'
<1> USE ConstantsOK DEF Inv, TypeInv, TypeOK, SlotsOK, Moved, InChunk, Gone, Begin, Goto,
      Finish, db, fs, rows, locals, others, BoundOK
<1>1. ASSUME NEW r \in Requests, NEW s \in Sessions, NEW n \in Names, NEW size \in Sizes,
             CreateUpload(r, s, n, size)
      PROVE  BoundOK'
  BY <1>1 DEF CreateUpload
<1>2. ASSUME NEW r \in Requests, CreateSession(r)
      PROVE  BoundOK'
  BY <1>2 DEF CreateSession
<1>3. ASSUME NEW r \in Requests, CreateSessionFails(r)
      PROVE  BoundOK'
  BY <1>3 DEF CreateSessionFails
<1>4. ASSUME NEW r \in Requests, NEW s \in Sessions, NEW c \in Ranges, NEW total \in Totals,
             ChunkStart(r, s, c, total)
      PROVE  BoundOK'
  BY <1>4 DEF ChunkStart, Ranges
<1>5. ASSUME NEW r \in Requests, ChunkOpen(r)
      PROVE  BoundOK'
  BY <1>5 DEF ChunkOpen
<1>6. ASSUME NEW r \in Requests, ChunkWrite(r)
      PROVE  BoundOK'
  <2>1. PICK m \in range[r].lo - 1 .. range[r].hi :
          data' = [data EXCEPT ![fd[r]] = @ \cup (range[r].lo .. m)]
    BY <1>6 DEF ChunkWrite
  <2>2. /\ pc[r] = "chunk_write" /\ fd[r] \in Inodes
        /\ range[r] \in ByteRange /\ range[r].hi <= MaxByte
    BY <1>6 DEF ChunkWrite
  <2>3. range[r].lo .. m \subseteq 0 .. MaxByte
    BY <2>2 DEF ByteRange
  <2>4. \A i \in Inodes : data'[i] \subseteq 0 .. MaxByte
    BY <2>1, <2>2, <2>3
  <2>5. \A q \in Requests : pc'[q] \in InChunk => range'[q].hi <= MaxByte
    BY <1>6 DEF ChunkWrite
  <2>. QED  BY <2>4, <2>5
<1>7. ASSUME NEW r \in Requests, RecordChunk(r)
      PROVE  BoundOK'
  BY <1>7 DEF RecordChunk
<1>8. ASSUME NEW r \in Requests, NEW s \in Sessions, FinalizeRead(r, s)
      PROVE  BoundOK'
  BY <1>8 DEF FinalizeRead
<1>9. ASSUME NEW r \in Requests, FinalizeChecksum(r)
      PROVE  BoundOK'
  BY <1>9 DEF FinalizeChecksum
<1>10. ASSUME NEW r \in Requests, FinalizeMove(r)
       PROVE  BoundOK'
  BY <1>10 DEF FinalizeMove
<1>11. ASSUME NEW r \in Requests, FinalizeReplay(r)
       PROVE  BoundOK'
  BY <1>11 DEF FinalizeReplay
<1>12. ASSUME NEW r \in Requests, FinalizeRefuse(r)
       PROVE  BoundOK'
  BY <1>12 DEF FinalizeRefuse
<1>13. ASSUME NEW r \in Requests, FinalizePublish(r)
       PROVE  BoundOK'
  BY <1>13 DEF FinalizePublish
<1>14. ASSUME NEW r \in Requests, FinalizeUndo(r)
       PROVE  BoundOK'
  BY <1>14 DEF FinalizeUndo, AfterUndo
<1>14a. ASSUME NEW r \in Requests, FinalizeUndoFails(r)
       PROVE  BoundOK'
  BY <1>14a DEF FinalizeUndoFails, AfterUndo
<1>15. ASSUME NEW r \in Requests, FinalizeDiscard(r)
       PROVE  BoundOK'
  BY <1>15 DEF FinalizeDiscard
<1>16. ASSUME NEW s \in Sessions, CancelSession(s)
       PROVE  BoundOK'
  BY <1>16 DEF CancelSession
<1>17. ASSUME NEW s \in Sessions, CancelDelete(s)
       PROVE  BoundOK'
  BY <1>17 DEF CancelDelete
<1>18. ASSUME NEW n \in Names, OtherNodeTakesName(n)
       PROVE  BoundOK'
  BY <1>18 DEF OtherNodeTakesName
<1>19. ASSUME NEW n \in Names, OtherNodeFreesName(n)
       PROVE  BoundOK'
  BY <1>19 DEF OtherNodeFreesName
<1>20. CASE UNCHANGED vars
  BY <1>20 DEF vars
<1>21. ASSUME NEW r \in Requests, Drop(r)
       PROVE  BoundOK'
  BY <1>21 DEF Drop
<1>22. ASSUME NEW s \in Sessions, DropCancel(s)
       PROVE  BoundOK'
  BY <1>22 DEF DropCancel
<1>. QED
  BY ClientSteps, <1>1, <1>2, <1>3, <1>4, <1>5, <1>6, <1>7, <1>8, <1>9, <1>10, <1>11,
     <1>12, <1>13, <1>14, <1>14a, <1>15, <1>16, <1>17, <1>18, <1>19, <1>20, <1>21, <1>22

\* A ledger that is left alone covers what it did.
LEMMA CoverFrame ==
    ASSUME UNCHANGED chunks
    PROVE  \A s \in Sessions : Covered(s)' = Covered(s)
BY DEF Covered

\* Recording a range adds it to what its session's ledger covers.
LEMMA CoverRecord ==
    ASSUME Inv, NEW r \in Requests, RecordChunk(r)
    PROVE  \A s \in Sessions :
               Covered(s)' \subseteq
                   IF s = of[r] THEN Covered(s) \cup Claimed(range[r]) ELSE Covered(s)
<1>. DEFINE c == range[r]
<1>1. \/ UNCHANGED chunks
      \/ chunks' = [chunks EXCEPT ![of[r]] = @ \cup {c}]
  BY DEF RecordChunk
<1>2. chunks \in [Sessions -> SUBSET ByteRange] /\ of[r] \in Sessions
  BY DEF Inv, TypeInv, TypeOK, SlotsOK, RecordChunk
<1>3. ASSUME NEW s \in Sessions
      PROVE  chunks'[s] \subseteq IF s = of[r] THEN chunks[s] \cup {c} ELSE chunks[s]
  BY <1>1, <1>2
<1>. HIDE DEF c
<1>. QED  BY <1>3 DEF Covered, Claimed, c

\* A session without a row has an empty ledger.
LEMMA EmptyLedger ==
    ASSUME Inv, NEW s \in Sessions, state[s] = "none"
    PROVE  Covered(s) = {}
<1>1. chunks[s] = {}
  BY DEF Inv, LedgerOK
<1>. QED  BY <1>1 DEF Covered

\* With a full ledger no chunk begins: it would have to lie below the size and
\* overlap nothing.
LEMMA NoMoreChunks ==
    ASSUME Inv, FitsOK, NEW r \in Requests, NEW s \in Sessions, NEW c \in Ranges,
           ChunkStart(r, s, c, TRUE), SizeReached(s)
    PROVE  FALSE
<1>1. /\ expected[s] \in Nat /\ c.hi < expected[s] /\ ~Overlapping(s, c)
      /\ c.lo \in Nat /\ c.hi \in Nat /\ c.lo <= c.hi
  BY ConstantsOK DEF ChunkStart, Ranges
<1>2. Covered(s) = 0 .. expected[s] - 1
  BY <1>1, ConstantsOK, FullLedger DEF SizeReached
<1>3. c.lo \in Covered(s)
  BY <1>1, <1>2
<1>4. PICK d \in chunks[s] : c.lo \in d.lo .. d.hi
  BY <1>3 DEF Covered
<1>5. d.lo \in Nat /\ d.hi \in Nat
  BY <1>4 DEF Inv, TypeInv, TypeOK, ByteRange
<1>6. Overlaps(d, c)
  BY <1>1, <1>4, <1>5 DEF Overlaps
<1>. QED  BY <1>1, <1>4, <1>6 DEF Overlapping

\* What a step leaves alone: a handler, a staging file, a row with its ledger.
SlotKept(q) ==
    /\ pc'[q] = pc[q] /\ of'[q] = of[q] /\ fd'[q] = fd[q]
    /\ range'[q] = range[q] /\ found'[q] = found[q]
FileKept(s) ==
    /\ staging'[s] = staging[s]
    /\ staging[s] # None => data'[staging[s]] = data[staging[s]]
RowKept(s) ==
    /\ state'[s] = state[s] /\ expected'[s] = expected[s]
    /\ received'[s] = received[s] /\ Covered(s)' = Covered(s)

\* A handler that is left alone, with its file and its row, knows what it did.
LEMMA LocalFrame ==
    ASSUME NEW q \in Requests, LocalOK(q), SlotKept(q),
           pc[q] # "idle" => FileKept(of[q]) /\ RowKept(of[q])
    PROVE  LocalOK(q)'
BY DEF SlotKept, FileKept, RowKept, LocalOK, Live, Working, InChunk, Moved, SizeReached

\* A staging file that is left alone, with its row, is kept.
LEMMA KeptFrame ==
    ASSUME NEW s \in Sessions, Kept(s), FileKept(s), RowKept(s)
    PROVE  Kept(s)'
BY DEF Kept, Lost, SizeReached, FileKept, RowKept

\* A step of handler r on session s concerns nobody else.
LEMMA StagingMoves ==
    ASSUME TypeInv, StagingOK, NEW r \in Requests, NEW s \in Sessions,
           pc[r] = "idle" \/ of[r] = s,
           \A q \in Requests \ {r} : SlotKept(q) /\ (pc[q] # "idle" => of[q] # s),
           \A t \in Sessions \ {s} : FileKept(t) /\ RowKept(t),
           pc'[r] = "idle" \/ of'[r] = s,
           LocalOK(r)',
           state'[s] = "active" /\ pc'[r] \notin Moved => Kept(s)'
    PROVE  StagingOK'
<1>1. ASSUME NEW q \in Requests
      PROVE  LocalOK(q)'
  <2>1. CASE q # r
    <3>1. pc[q] # "idle" => of[q] \in Sessions \ {s}
      BY <2>1 DEF TypeInv, SlotsOK
    <3>2. LocalOK(q)
      BY DEF StagingOK
    <3>. QED  BY <2>1, <3>1, <3>2, LocalFrame
  <2>. QED  BY <2>1
<1>2. ASSUME NEW t \in Sessions, state'[t] = "active",
             \A q \in Requests : of'[q] = t => pc'[q] \notin Moved
      PROVE  Kept(t)'
  <2>1. CASE t = s
    BY <1>2, <2>1 DEF Moved
  <2>2. CASE t # s
    <3>1. \A q \in Requests : of[q] = t => pc[q] \notin Moved
      BY <1>2, <2>2 DEF SlotKept, Moved
    <3>2. FileKept(t) /\ RowKept(t)
      BY <2>2
    <3>3. Kept(t)
      BY <1>2, <3>1, <3>2 DEF StagingOK, RowKept
    <3>. QED  BY <3>2, <3>3, KeptFrame
  <2>. QED  BY <2>1, <2>2
<1>. QED  BY <1>1, <1>2 DEF StagingOK

\* A step on a session that is not active afterwards, nor being created, which no
\* handler takes, concerns nobody.
LEMMA StagingEnds ==
    ASSUME TypeInv, StagingOK, NEW s \in Sessions, state'[s] # "active",
           \A q \in Requests : SlotKept(q) /\ (of[q] = s => pc[q] # "create"),
           \A t \in Sessions \ {s} : FileKept(t) /\ RowKept(t)
    PROVE  StagingOK'
<1>1. ASSUME NEW q \in Requests
      PROVE  LocalOK(q)'
  <2>1. CASE of[q] = s
    BY <2>1 DEF SlotKept, LocalOK, Live
  <2>2. CASE of[q] # s
    <3>1. pc[q] # "idle" => of[q] \in Sessions \ {s}
      BY <2>2 DEF TypeInv, SlotsOK
    <3>2. LocalOK(q)
      BY DEF StagingOK
    <3>. QED  BY <3>1, <3>2, LocalFrame
  <2>. QED  BY <2>1, <2>2
<1>2. ASSUME NEW t \in Sessions, state'[t] = "active",
             \A q \in Requests : of'[q] = t => pc'[q] \notin Moved
      PROVE  Kept(t)'
  <2>1. FileKept(t) /\ RowKept(t)
    BY <1>2
  <2>2. \A q \in Requests : of[q] = t => pc[q] \notin Moved
    BY <1>2 DEF SlotKept
  <2>3. Kept(t)
    BY <1>2, <2>1, <2>2 DEF StagingOK, RowKept
  <2>. QED  BY <2>1, <2>3, KeptFrame
<1>. QED  BY <1>1, <1>2 DEF StagingOK

\* A step that leaves all of it alone.
LEMMA StagingFrame ==
    ASSUME StagingOK,
           UNCHANGED <<state, expected, received, chunks, staging, data,
                       pc, of, fd, range, found>>
    PROVE  StagingOK'
<1>1. \A s \in Sessions : Covered(s)' = Covered(s)
  BY CoverFrame
<1>. QED
  BY <1>1 DEF StagingOK, LocalOK, Kept, Lost, SizeReached, Live

\* A session that nobody has moved the bytes of is kept; a handler at work on it
\* finds its file.
LEMMA Standing ==
    ASSUME Solo, StagingOK, NEW s \in Sessions, state[s] = "active",
           NEW r \in Requests, pc[r] \notin Moved,
           of[r] = s \/ \A q \in Requests : of[q] # s
    PROVE  /\ Kept(s)
           /\ of[r] = s /\ pc[r] \in Working =>
                staging[s] # None /\ Covered(s) \subseteq data[staging[s]]
<1>1. \A q \in Requests : of[q] = s => pc[q] \notin Moved
  BY ConstantsOK DEF Solo
<1>2. Kept(s) /\ LocalOK(r)
  BY <1>1 DEF StagingOK
<1>3. of[r] = s /\ pc[r] \in Working => staging[s] # None
  BY <1>2 DEF LocalOK, Live, Working, InChunk
<1>. QED  BY <1>2, <1>3 DEF Kept, Lost

\* The staging file of an active session keeps what its ledger claims.
LEMMA StagingStep ==
    ASSUME InTurn, Inv, Solo, PlacesOK, StagingOK, HeldOK, [Next]_vars,
           Totals \subseteq {TRUE} => FitsOK
    PROVE  StagingOK'
<1> USE ConstantsOK DEF Inv, TypeInv, TypeOK, SlotsOK, db, fs, rows, locals, others
<1>0. /\ \A r, q \in Requests : q # r /\ pc[r] # "idle" => of[q] # of[r]
      /\ \A r \in Requests : pc[r] # "idle" => of[r] \in Sessions
      /\ TypeInv
  BY DEF Solo
<1>1. ASSUME NEW r \in Requests, NEW s \in Sessions, NEW n \in Names, NEW size \in Sizes,
             CreateUpload(r, s, n, size)
      PROVE  StagingOK'
  <2>1. PICK i \in Inodes : /\ FreeInode(i)
                           /\ staging' = [staging EXCEPT ![s] = i]
                           /\ data' = [data EXCEPT ![i] = {}]
    BY <1>1 DEF CreateUpload
  <2>2. /\ state[s] = "none" /\ \A q \in Requests : of[q] # s
        /\ pc[r] = "idle" /\ UNCHANGED <<state, received, chunks, range, fd, found>>
        /\ pc' = [pc EXCEPT ![r] = "create"] /\ of' = [of EXCEPT ![r] = s]
        /\ expected' = [expected EXCEPT ![s] = size]
    BY <1>1 DEF CreateUpload, FreshSession, Begin
  <2>. HIDE <1>1
  <2>3. \A t \in Sessions \ {s} : FileKept(t)
    BY <2>1 DEF FreeInode, FileKept
  <2>4. \A t \in Sessions \ {s} : RowKept(t)
    BY <2>2, CoverFrame DEF RowKept
  <2>5. \A q \in Requests \ {r} : SlotKept(q)
    BY <2>2 DEF SlotKept
  <2>6. LocalOK(r)' /\ of'[r] = s
    BY <2>1, <2>2 DEF LocalOK, Live
  <2>. QED  BY <1>0, <2>2, <2>3, <2>4, <2>5, <2>6, StagingMoves
<1>2. ASSUME NEW r \in Requests, CreateSession(r)
      PROVE  StagingOK'
  <2>1. PICK s \in Sessions : s = of[r]
    BY <1>2 DEF CreateSession
  <2>2. /\ pc[r] = "create" /\ pc'[r] = "idle"
        /\ state' = [state EXCEPT ![s] = "active"]
        /\ \A q \in Requests \ {r} : SlotKept(q)
        /\ UNCHANGED <<staging, data, chunks, expected, received>>
    BY <1>2, <2>1 DEF CreateSession, Finish, Goto, SlotKept
  <2>. HIDE <1>2
  <2>3. \A t \in Sessions \ {s} : FileKept(t) /\ RowKept(t)
    BY <2>2, CoverFrame DEF FileKept, RowKept
  <2>4. staging[s] # None /\ Covered(s) = {}
    BY <2>1, <2>2, EmptyLedger DEF StagingOK, LocalOK, CreateOK
  <2>5. Kept(s)'
    BY <2>2, <2>4, CoverFrame DEF Kept
  <2>6. LocalOK(r)'
    BY <2>2 DEF LocalOK, Live
  <2>. QED  BY <1>0, <2>1, <2>2, <2>3, <2>5, <2>6, StagingMoves
<1>3. ASSUME NEW r \in Requests, CreateSessionFails(r)
      PROVE  StagingOK'
  <2>1. PICK s \in Sessions : s = of[r]
    BY <1>3 DEF CreateSessionFails
  <2>2. /\ pc[r] = "create" /\ pc'[r] = "idle" /\ state[s] = "none"
        /\ \A t \in Sessions \ {s} : staging'[t] = staging[t]
        /\ \A q \in Requests \ {r} : SlotKept(q)
        /\ UNCHANGED <<state, data, chunks, expected, received>>
    BY <1>3, <2>1 DEF CreateSessionFails, Finish, Goto, SlotKept, CreateOK
  <2>. HIDE <1>3
  <2>3. \A t \in Sessions \ {s} : FileKept(t) /\ RowKept(t)
    BY <2>2, CoverFrame DEF FileKept, RowKept
  <2>4. LocalOK(r)'
    BY <2>2 DEF LocalOK, Live
  <2>. QED  BY <1>0, <2>1, <2>2, <2>3, <2>4, StagingMoves
<1>4. ASSUME NEW r \in Requests, NEW s \in Sessions, NEW c \in Ranges, NEW total \in Totals,
             ChunkStart(r, s, c, total)
      PROVE  StagingOK'
  <2>1. /\ pc[r] = "idle" /\ state[s] = "active" /\ \A q \in Requests : of[q] # s
        /\ pc'[r] = "chunk_open" /\ of'[r] = s
        /\ \A q \in Requests \ {r} : SlotKept(q)
        /\ UNCHANGED <<state, staging, data, chunks, expected, received>>
    BY <1>4 DEF ChunkStart, MayStart, Begin, SlotKept, InTurn
  <2>2. Kept(s)
    BY <2>1, Standing DEF Moved
  <2>3. ~Lost(s)
    <3>1. CASE MayStrand
      <4>1. FitsOK /\ total = TRUE
        BY <3>1 DEF InTurn
      <4>. QED  BY <1>4, <4>1, NoMoreChunks DEF Lost
    <3>. QED  BY <3>1 DEF Lost
  <2>. HIDE <1>4
  <2>4. \A t \in Sessions : FileKept(t) /\ RowKept(t)
    BY <2>1, CoverFrame DEF FileKept, RowKept
  <2>5. LocalOK(r)'
    BY <2>1, <2>2, <2>3 DEF LocalOK, Live, Kept, Working, InChunk, Moved
  <2>6. Kept(s)'
    BY <2>2, <2>4, KeptFrame
  <2>. QED  BY <1>0, <2>1, <2>4, <2>5, <2>6, StagingMoves
<1>5. ASSUME NEW r \in Requests, ChunkOpen(r)
      PROVE  StagingOK'
  <2>1. PICK s \in Sessions : s = of[r]
    BY <1>5 DEF ChunkOpen
  <2>2. /\ pc[r] = "chunk_open" /\ pc'[r] = "chunk_write" /\ of'[r] = s
        /\ \A q \in Requests \ {r} : SlotKept(q)
        /\ UNCHANGED <<state, chunks, expected, received>>
    BY <1>5, <2>1 DEF ChunkOpen, Goto, SlotKept
  <2>3. \A t \in Sessions : RowKept(t)
    BY <2>2, CoverFrame DEF RowKept
  <2>4. CASE /\ staging[s] # None
             /\ fd' = [fd EXCEPT ![r] = staging[s]]
             /\ UNCHANGED <<staging, data>>
    <3>. HIDE <1>5
    <3>1. \A t \in Sessions : FileKept(t)
      BY <2>4 DEF FileKept
    <3>2. LocalOK(r)'
      BY <2>2, <2>4 DEF LocalOK, Live, Working, InChunk, Moved
    <3>3. state[s] = "active" => Kept(s)'
      BY <2>1, <2>2, <2>3, <3>1, Standing, KeptFrame DEF Moved
    <3>. QED  BY <1>0, <2>1, <2>2, <2>3, <3>1, <3>2, <3>3, StagingMoves
  <2>5. CASE staging[s] = None
    <3>1. PICK i \in Inodes : /\ FreeInode(i)
                             /\ staging' = [staging EXCEPT ![s] = i]
                             /\ data' = [data EXCEPT ![i] = {}]
      BY <1>5, <2>1, <2>5 DEF ChunkOpen
    <3>. HIDE <1>5
    <3>2. state[s] # "active"
      BY <2>1, <2>2, <2>5 DEF StagingOK, LocalOK, Live, Working, InChunk
    <3>3. \A t \in Sessions \ {s} : FileKept(t)
      BY <3>1 DEF FileKept, FreeInode
    <3>4. LocalOK(r)'
      BY <2>2, <3>2 DEF LocalOK, Live
    <3>. QED  BY <1>0, <2>1, <2>2, <2>3, <3>2, <3>3, <3>4, StagingMoves
  <2>. QED  BY <1>5, <2>1, <2>4, <2>5 DEF ChunkOpen
<1>6. ASSUME NEW r \in Requests, ChunkWrite(r)
      PROVE  StagingOK'
  <2>1. PICK s \in Sessions, i \in Inodes : s = of[r] /\ i = fd[r]
    BY <1>6 DEF ChunkWrite
  <2>2. PICK m \in range[r].lo - 1 .. range[r].hi :
          /\ data' = [data EXCEPT ![i] = @ \cup (range[r].lo .. m)]
          /\ \/ /\ m = range[r].hi
                /\ pc'[r] = "chunk_record" /\ of'[r] = s /\ range'[r] = range[r]
             \/ pc'[r] = "idle"
    BY <1>6, <2>1 DEF ChunkWrite, Goto, Finish
  <2>3. /\ pc[r] = "chunk_write" /\ UNCHANGED <<state, chunks, expected, received, staging>>
        /\ \A q \in Requests \ {r} : SlotKept(q)
    BY <1>6 DEF ChunkWrite, Goto, Finish, SlotKept
  <2>. HIDE <1>6
  <2>4. \A t \in Sessions : RowKept(t)
    BY <2>3, CoverFrame DEF RowKept
  <2>5. \A t \in Sessions \ {s} : FileKept(t)
    <3>1. \A t \in Sessions \ {s} : staging[t] # i
      BY <2>1 DEF PlacesOK
    <3>. QED  BY <2>2, <2>3, <3>1 DEF FileKept
  <2>6. \A j \in Inodes : data[j] \subseteq data'[j]
    BY <2>2
  <2>7. state[s] = "active" =>
          staging[s] = i /\ Covered(s) \subseteq data[i]
    BY <2>1, <2>3, Standing DEF StagingOK, LocalOK, Live, Moved, Working, InChunk
  <2>8. state[s] = "active" => Kept(s)'
    BY <2>3, <2>4, <2>6, <2>7 DEF Kept, RowKept
  <2>9. LocalOK(r)'
    <3>1. CASE pc'[r] = "idle"
      BY <3>1 DEF LocalOK, Live
    <3>2. CASE pc'[r] = "chunk_record" /\ m = range[r].hi
      <4>1. of'[r] = s /\ Claimed(range[r]) \subseteq data'[i] /\ range'[r] = range[r]
        BY <2>2, <3>2 DEF Claimed
      <4>. QED
        BY <2>3, <2>7, <3>2, <4>1 DEF LocalOK, Live, Working, InChunk, Moved
    <3>. QED  BY <2>2, <3>1, <3>2
  <2>. QED  BY <1>0, <2>1, <2>2, <2>3, <2>4, <2>5, <2>8, <2>9, StagingMoves
<1>7. ASSUME NEW r \in Requests, RecordChunk(r)
      PROVE  StagingOK'
  <2>1. PICK s \in Sessions : s = of[r]
    BY <1>7 DEF RecordChunk
  <2>2. /\ pc[r] = "chunk_record" /\ pc'[r] = "idle"
        /\ \A q \in Requests \ {r} : SlotKept(q)
        /\ \A t \in Sessions \ {s} : received'[t] = received[t] /\ chunks'[t] = chunks[t]
        /\ UNCHANGED <<state, staging, data, expected>>
    BY <1>7, <2>1 DEF RecordChunk, Finish, Goto, SlotKept
  <2>3. Covered(s)' \subseteq Covered(s) \cup Claimed(range[r])
    BY <1>7, <2>1, CoverRecord
  <2>. HIDE <1>7
  <2>4. \A t \in Sessions \ {s} : FileKept(t) /\ RowKept(t)
    BY <2>2 DEF FileKept, RowKept, Covered
  <2>5. state[s] = "active" =>
          /\ staging[s] # None /\ Covered(s) \subseteq data[staging[s]]
          /\ Claimed(range[r]) \subseteq data[staging[s]]
    BY <2>1, <2>2, Standing DEF StagingOK, LocalOK, Live, Moved, Working, InChunk
  <2>6. state[s] = "active" => Kept(s)'
    BY <2>2, <2>3, <2>5 DEF Kept
  <2>7. LocalOK(r)'
    BY <2>2 DEF LocalOK, Live
  <2>. QED  BY <1>0, <2>1, <2>2, <2>4, <2>6, <2>7, StagingMoves
<1>8. ASSUME NEW r \in Requests, NEW s \in Sessions, FinalizeRead(r, s)
      PROVE  StagingOK'
  <2>1. /\ pc[r] = "idle" /\ state[s] = "active" /\ \A q \in Requests : of[q] # s
        /\ pc'[r] = "fin_sum" /\ of'[r] = s /\ SizeReached(s)
        /\ \A q \in Requests \ {r} : SlotKept(q)
        /\ UNCHANGED <<state, staging, data, chunks, expected, received>>
    BY <1>8 DEF FinalizeRead, MayStart, Begin, SlotKept, InTurn
  <2>. HIDE <1>8
  <2>2. \A t \in Sessions : FileKept(t) /\ RowKept(t)
    BY <2>1, CoverFrame DEF FileKept, RowKept
  <2>3. LocalOK(r)'
    BY <2>1 DEF LocalOK, Live, Working, InChunk, Moved, SizeReached
  <2>4. Kept(s)'
    BY <2>1, <2>2, Standing, KeptFrame DEF Moved
  <2>. QED  BY <1>0, <2>1, <2>2, <2>3, <2>4, StagingMoves
<1>9. ASSUME NEW r \in Requests, FinalizeChecksum(r)
      PROVE  StagingOK'
  <2>1. PICK s \in Sessions : s = of[r]
    BY <1>9 DEF FinalizeChecksum
  <2>2. /\ pc[r] = "fin_sum"
        /\ \/ pc'[r] = "idle"
           \/ /\ pc'[r] = "fin_move" /\ of'[r] = s /\ staging[s] # None
              /\ found'[r].sum = data[staging[s]]
        /\ \A q \in Requests \ {r} : SlotKept(q)
        /\ UNCHANGED <<state, staging, data, chunks, expected, received>>
    BY <1>9, <2>1 DEF FinalizeChecksum, Finish, Goto, SlotKept
  <2>. HIDE <1>9
  <2>3. \A t \in Sessions : FileKept(t) /\ RowKept(t)
    BY <2>2, CoverFrame DEF FileKept, RowKept
  <2>4. state[s] = "active" => SizeReached(s)
    BY <2>1, <2>2 DEF StagingOK, LocalOK, Live
  <2>5. LocalOK(r)'
    BY <2>2, <2>4 DEF LocalOK, Live, Working, InChunk, Moved, SizeReached
  <2>6. state[s] = "active" => Kept(s)'
    BY <2>1, <2>2, <2>3, Standing, KeptFrame DEF Moved
  <2>. QED  BY <1>0, <2>1, <2>2, <2>3, <2>5, <2>6, StagingMoves
<1>10. ASSUME NEW r \in Requests, FinalizeMove(r)
       PROVE  StagingOK'
  <2>1. PICK s \in Sessions : s = of[r]
    BY <1>10 DEF FinalizeMove
  <2>2. /\ pc[r] = "fin_move"
        /\ \/ pc'[r] = "idle" /\ staging[s] = None
           \/ pc'[r] = "fin_commit" /\ of'[r] = s /\ staging'[s] = None
        /\ \A t \in Sessions \ {s} : staging'[t] = staging[t]
        /\ \A q \in Requests \ {r} : SlotKept(q)
        /\ UNCHANGED <<state, data, chunks, expected, received>>
    BY <1>10, <2>1 DEF FinalizeMove, Finish, Goto, SlotKept
  <2>. HIDE <1>10
  <2>3. \A t \in Sessions \ {s} : FileKept(t) /\ RowKept(t)
    BY <2>2, CoverFrame DEF FileKept, RowKept
  <2>4. state[s] = "active" => SizeReached(s) /\ staging[s] # None
    BY <2>1, <2>2 DEF StagingOK, LocalOK, Live, Working
  <2>5. LocalOK(r)'
    BY <2>2, <2>4 DEF LocalOK, Live, Working, InChunk, Moved, SizeReached
  <2>. QED  BY <1>0, <2>1, <2>2, <2>3, <2>4, <2>5, StagingMoves DEF Moved
<1>11. ASSUME NEW r \in Requests, FinalizeReplay(r)
       PROVE  StagingOK'
  BY <1>0, <1>11 DEF Solo, FinalizeReplay
<1>12. ASSUME NEW r \in Requests, FinalizeRefuse(r)
       PROVE  StagingOK'
  <2>1. PICK s \in Sessions : s = of[r]
    BY <1>12 DEF FinalizeRefuse
  <2>2. /\ pc[r] = "fin_commit" /\ pc'[r] \in Moved /\ of'[r] = s
        /\ \A q \in Requests \ {r} : SlotKept(q)
        /\ UNCHANGED <<state, staging, data, chunks, expected, received>>
    BY <1>12, <2>1 DEF FinalizeRefuse, Goto, Moved, SlotKept
  <2>. HIDE <1>12
  <2>3. \A t \in Sessions : FileKept(t) /\ RowKept(t)
    BY <2>2, CoverFrame DEF FileKept, RowKept
  <2>4. state[s] = "active" => SizeReached(s) /\ staging[s] = None
    BY <2>1, <2>2 DEF StagingOK, LocalOK, Live, Moved
  <2>5. LocalOK(r)'
    BY <2>2, <2>4 DEF LocalOK, Live, Working, InChunk, Moved, SizeReached
  <2>. QED  BY <1>0, <2>1, <2>2, <2>3, <2>5, StagingMoves
<1>13. ASSUME NEW r \in Requests, FinalizePublish(r)
       PROVE  StagingOK'
  <2>1. PICK s \in Sessions : s = of[r]
    BY <1>13 DEF FinalizePublish
  <2>2. /\ pc[r] = "fin_commit" /\ pc'[r] = "idle" /\ state'[s] = "completed"
        /\ \A t \in Sessions \ {s} : state'[t] = state[t]
        /\ \A q \in Requests \ {r} : SlotKept(q)
        /\ UNCHANGED <<staging, data, chunks, expected, received>>
    BY <1>13, <2>1 DEF FinalizePublish, Finish, Goto, SlotKept
  <2>. HIDE <1>13
  <2>3. \A t \in Sessions \ {s} : FileKept(t) /\ RowKept(t)
    BY <2>2, CoverFrame DEF FileKept, RowKept
  <2>4. LocalOK(r)'
    BY <2>2 DEF LocalOK, Live
  <2>. QED  BY <1>0, <2>1, <2>2, <2>3, <2>4, StagingMoves
<1>14. ASSUME NEW r \in Requests, FinalizeUndo(r)
       PROVE  StagingOK'
  <2>1. PICK s \in Sessions : s = of[r]
    BY <1>14 DEF FinalizeUndo, AfterUndo
  <2>2. /\ pc[r] \in {"fin_undo", "fin_undo_gone"} /\ key[r] \in Keys
        /\ staging' = [staging EXCEPT ![s] = originals[key[r]]]
        /\ pc'[r] \in {"idle", "fin_discard"} /\ (pc'[r] # "idle" => of'[r] = s)
        /\ \A q \in Requests \ {r} : SlotKept(q)
        /\ UNCHANGED <<state, data, chunks, expected, received>>
    BY <1>14, <2>1 DEF FinalizeUndo, AfterUndo, Finish, Goto, SlotKept, Moved
  <2>. HIDE <1>14
  <2>3. \A t \in Sessions \ {s} : FileKept(t) /\ RowKept(t)
    BY <2>2, CoverFrame DEF FileKept, RowKept
  <2>4. staging'[s] = originals[key[r]] /\ originals[key[r]] # None
    BY <2>2 DEF KeysOK, Moved
  <2>5. state[s] = "active" => Covered(s) \subseteq data[originals[key[r]]]
    BY <2>1, <2>2 DEF HeldOK, HeldBy, Live, Moved
  <2>6. state[s] = "active" => Kept(s)'
    BY <2>2, <2>4, <2>5, CoverFrame DEF Kept
  <2>7. LocalOK(r)'
    BY <2>2 DEF LocalOK, Live, Working, InChunk, Moved
  <2>. QED  BY <1>0, <2>1, <2>2, <2>3, <2>6, <2>7, StagingMoves
<1>14a. ASSUME NEW r \in Requests, FinalizeUndoFails(r)
       PROVE  StagingOK'
  <2>1. PICK s \in Sessions : s = of[r]
    BY <1>14a DEF FinalizeUndoFails, AfterUndo
  <2>2. /\ pc[r] \in Moved /\ pc[r] # "idle" /\ MayStrand
        /\ pc'[r] \in {"idle", "fin_discard"} /\ (pc'[r] # "idle" => of'[r] = s)
        /\ \A q \in Requests \ {r} : SlotKept(q)
        /\ UNCHANGED <<state, staging, data, chunks, expected, received>>
    BY <1>14a, <2>1 DEF FinalizeUndoFails, AfterUndo, Finish, Goto, SlotKept, Moved, MayStrand
  <2>. HIDE <1>14a
  <2>3. \A t \in Sessions : FileKept(t) /\ RowKept(t)
    BY <2>2, CoverFrame DEF FileKept, RowKept
  <2>4. state[s] = "active" => Kept(s)
    BY <2>1, <2>2 DEF StagingOK, LocalOK, Live, Kept, Lost
  <2>5. state[s] = "active" => Kept(s)'
    BY <2>3, <2>4, KeptFrame
  <2>6. LocalOK(r)'
    BY <2>2 DEF LocalOK, Live, Working, InChunk, Moved
  <2>. QED  BY <1>0, <2>1, <2>2, <2>3, <2>5, <2>6, StagingMoves
<1>15. ASSUME NEW r \in Requests, FinalizeDiscard(r)
       PROVE  StagingOK'
  <2>1. PICK s \in Sessions : s = of[r]
    BY <1>15 DEF FinalizeDiscard
  <2>2. /\ pc[r] = "fin_discard" /\ pc'[r] = "idle" /\ state[s] = "cancelled"
        /\ \A t \in Sessions \ {s} : staging'[t] = staging[t]
        /\ \A q \in Requests \ {r} : SlotKept(q)
        /\ UNCHANGED <<state, data, chunks, expected, received>>
    BY <1>15, <2>1 DEF FinalizeDiscard, Finish, Goto, SlotKept, Solo, Gone
  <2>. HIDE <1>15
  <2>3. \A t \in Sessions \ {s} : FileKept(t) /\ RowKept(t)
    BY <2>2, CoverFrame DEF FileKept, RowKept
  <2>4. LocalOK(r)'
    BY <2>2 DEF LocalOK, Live
  <2>. QED  BY <1>0, <2>1, <2>2, <2>3, <2>4, StagingMoves
<1>16. ASSUME NEW s \in Sessions, CancelSession(s)
       PROVE  StagingOK'
  <2>1. /\ state[s] # "none" /\ state'[s] = "cancelled"
        /\ \A t \in Sessions \ {s} : state'[t] = state[t]
        /\ \A q \in Requests : SlotKept(q)
        /\ UNCHANGED <<staging, data, chunks, expected, received>>
    BY <1>16 DEF CancelSession, SlotKept
  <2>. HIDE <1>16
  <2>2. \A t \in Sessions \ {s} : FileKept(t) /\ RowKept(t)
    BY <2>1, CoverFrame DEF FileKept, RowKept
  <2>3. \A q \in Requests : of[q] = s => pc[q] # "create"
    BY <2>1 DEF CreateOK
  <2>. QED  BY <1>0, <2>1, <2>2, <2>3, StagingEnds
<1>17. ASSUME NEW s \in Sessions, CancelDelete(s)
       PROVE  StagingOK'
  <2>1. /\ state[s] = "cancelled"
        /\ \A t \in Sessions \ {s} : staging'[t] = staging[t]
        /\ \A q \in Requests : SlotKept(q)
        /\ UNCHANGED <<state, data, chunks, expected, received>>
    BY <1>17 DEF CancelDelete, SlotKept, Solo
  <2>. HIDE <1>17
  <2>2. \A t \in Sessions \ {s} : FileKept(t) /\ RowKept(t)
    BY <2>1, CoverFrame DEF FileKept, RowKept
  <2>3. \A q \in Requests : of[q] = s => pc[q] # "create"
    BY <2>1 DEF CreateOK
  <2>. QED  BY <1>0, <2>1, <2>2, <2>3, StagingEnds
<1>18. ASSUME NEW n \in Names, OtherNodeTakesName(n)
       PROVE  StagingOK'
  BY <1>18, StagingFrame DEF OtherNodeTakesName
<1>19. ASSUME NEW n \in Names, OtherNodeFreesName(n)
       PROVE  StagingOK'
  BY <1>19, StagingFrame DEF OtherNodeFreesName
<1>20. CASE UNCHANGED vars
  BY <1>20, StagingFrame DEF vars
<1>21. ASSUME NEW r \in Requests, Drop(r)
       PROVE  StagingOK'
  <2>1. PICK s \in Sessions : s = of[r]
    BY <1>21 DEF Drop
  <2>2. /\ pc[r] # "idle" /\ pc'[r] = "idle" /\ MayStrand
        /\ \A q \in Requests \ {r} : SlotKept(q)
        /\ UNCHANGED <<state, staging, data, chunks, expected, received>>
    BY <1>21, <2>1 DEF Drop, Finish, Goto, SlotKept, MayStrand
  <2>. HIDE <1>21
  <2>3. \A t \in Sessions : FileKept(t) /\ RowKept(t)
    BY <2>2, CoverFrame DEF FileKept, RowKept
  <2>4. state[s] = "active" => Kept(s)
    <3>1. CASE pc[r] \in Moved
      BY <2>1, <2>2, <3>1 DEF StagingOK, LocalOK, Live, Kept, Lost
    <3>2. CASE pc[r] \notin Moved
      BY <2>1, <3>2, Standing
    <3>. QED  BY <3>1, <3>2
  <2>5. state[s] = "active" => Kept(s)'
    BY <2>3, <2>4, KeptFrame
  <2>6. LocalOK(r)'
    BY <2>2 DEF LocalOK, Live
  <2>. QED  BY <1>0, <2>1, <2>2, <2>3, <2>5, <2>6, StagingMoves
<1>22. ASSUME NEW s \in Sessions, DropCancel(s)
       PROVE  StagingOK'
  BY <1>22, StagingFrame DEF DropCancel
<1>. HIDE DEF Inv, TypeInv, TypeOK, SlotsOK, db, fs, rows, locals, others
<1>. QED
  BY ClientSteps, <1>1, <1>2, <1>3, <1>4, <1>5, <1>6, <1>7, <1>8, <1>9, <1>10, <1>11,
     <1>12, <1>13, <1>14, <1>14a, <1>15, <1>16, <1>17, <1>18, <1>19, <1>20, <1>21, <1>22

\* A finalize that has moved the bytes holds all the ledger claims.
LEMMA HeldStep ==
    ASSUME InTurn, Inv, Solo, PlacesOK, StagingOK, HeldOK, [Next]_vars
    PROVE  HeldOK'
<1> USE ConstantsOK DEF Inv, TypeInv, TypeOK, SlotsOK, Moved, InChunk, Gone, Begin, Goto,
      Finish, db, fs, rows, locals, others, Solo, PlacesOK, Live, StagingOK, LocalOK, HeldBy,
      HeldOK, KeysOK, CreateOK, Working, Kept, Lost, SizeReached
<1>1. ASSUME NEW r \in Requests, NEW s \in Sessions, NEW n \in Names, NEW size \in Sizes,
             CreateUpload(r, s, n, size)
      PROVE  HeldOK'
  BY <1>1, CoverFrame DEF CreateUpload, FreeInode, FreshSession
<1>2. ASSUME NEW r \in Requests, CreateSession(r)
      PROVE  HeldOK'
  BY <1>2, CoverFrame DEF CreateSession, LedgerOK
<1>3. ASSUME NEW r \in Requests, CreateSessionFails(r)
      PROVE  HeldOK'
  BY <1>3, CoverFrame DEF CreateSessionFails
<1>4. ASSUME NEW r \in Requests, NEW s \in Sessions, NEW c \in Ranges, NEW total \in Totals,
             ChunkStart(r, s, c, total)
      PROVE  HeldOK'
  BY <1>4, CoverFrame DEF ChunkStart, MayStart
<1>5. ASSUME NEW r \in Requests, ChunkOpen(r)
      PROVE  HeldOK'
  BY <1>5, CoverFrame DEF ChunkOpen, FreeInode
<1>6. ASSUME NEW r \in Requests, ChunkWrite(r)
      PROVE  HeldOK'
  BY <1>6, CoverFrame DEF ChunkWrite
<1>7. ASSUME NEW r \in Requests, RecordChunk(r)
      PROVE  HeldOK'
  <2>1. /\ pc[r] = "chunk_record" /\ of[r] \in Sessions
        /\ UNCHANGED <<state, originals, data>> /\ Finish(r)
        /\ \A t \in Sessions \ {of[r]} : received'[t] = received[t]
    BY <1>7 DEF RecordChunk
  <2>2. \A t \in Sessions :
          Covered(t)' \subseteq
              IF t = of[r] THEN Covered(t) \cup Claimed(range[r]) ELSE Covered(t)
    BY <1>7, CoverRecord
  <2>. HIDE <1>7
  <2>3. ASSUME NEW q \in Requests \ {r}, pc[q] # "idle"
        PROVE  of[q] \in Sessions \ {of[r]}
    BY <2>1, <2>3
  <2>. QED  BY <2>1, <2>2, <2>3
<1>8. ASSUME NEW r \in Requests, NEW s \in Sessions, FinalizeRead(r, s)
      PROVE  HeldOK'
  BY <1>8, CoverFrame DEF FinalizeRead, MayStart
<1>9. ASSUME NEW r \in Requests, FinalizeChecksum(r)
      PROVE  HeldOK'
  BY <1>9, CoverFrame DEF FinalizeChecksum
<1>10. ASSUME NEW r \in Requests, FinalizeMove(r)
       PROVE  HeldOK'
  <2>1. /\ pc[r] = "fin_move" /\ of[r] \in Sessions
        /\ pc'[r] \in {"idle", "fin_commit"}
        /\ \A q \in Requests \ {r} :
             /\ pc'[q] = pc[q] /\ of'[q] = of[q] /\ found'[q] = found[q]
             /\ key'[q] = key[q]
        /\ UNCHANGED <<state, received, data, chunks>>
    BY <1>10 DEF FinalizeMove
  <2>2. \A t \in Sessions : Covered(t)' = Covered(t)
    BY <2>1, CoverFrame
  <2>3. ASSUME Live(r)', pc'[r] = "fin_commit"
        PROVE  /\ of'[r] = of[r] /\ found'[r].size = received[of[r]]
               /\ found'[r].sum = data[originals'[key'[r]]]
               /\ Covered(of[r]) \subseteq data[originals'[key'[r]]]
    <3>1. PICK k \in Keys : /\ originals' = [originals EXCEPT ![k] = staging[of[r]]]
                           /\ key' = [key EXCEPT ![r] = k]
      BY <1>10, <2>3 DEF FinalizeMove
    <3>2. UNCHANGED <<of, found>>
      BY <1>10, <2>3 DEF FinalizeMove
    <3>. HIDE <1>10
    <3>3. originals'[key'[r]] = staging[of[r]]
      BY <3>1
    <3>4. Live(r) /\ \A q \in Requests : of[q] = of[r] => pc[q] \notin Moved
      BY <2>1, <2>3, <3>2
    <3>. QED  BY <2>1, <3>2, <3>3, <3>4
  <2>4. ASSUME NEW q \in Requests \ {r}, pc[q] \in Moved
        PROVE  originals'[key[q]] = originals[key[q]]
    <3>1. \/ UNCHANGED originals
          \/ \E k \in Keys : /\ FreshKey(k)
                             /\ originals' = [originals EXCEPT ![k] = staging[of[r]]]
      BY <1>10 DEF FinalizeMove
    <3>2. \A k \in Keys : FreshKey(k) => key[q] # k
      BY DEF FreshKey
    <3>3. key[q] \in Keys /\ originals \in [Keys -> Inodes \cup {None}]
      BY <2>4
    <3>. QED  BY ONLY <3>1, <3>2, <3>3
  <2>. HIDE <1>10
  <2>5. HeldBy(r)'
    BY ONLY <2>1, <2>2, <2>3
  <2>6. ASSUME NEW q \in Requests \ {r}
        PROVE  HeldBy(q)'
    <3>1. HeldBy(q) /\ (pc[q] # "idle" => of[q] \in Sessions)
      BY <2>6
    <3>. QED  BY ONLY <2>1, <2>2, <2>4, <2>6, <3>1
  <2>. QED  BY <2>5, <2>6
<1>11. ASSUME NEW r \in Requests, FinalizeReplay(r)
       PROVE  HeldOK'
  BY <1>11, CoverFrame DEF FinalizeReplay
<1>12. ASSUME NEW r \in Requests, FinalizeRefuse(r)
       PROVE  HeldOK'
  BY <1>12, CoverFrame DEF FinalizeRefuse
<1>13. ASSUME NEW r \in Requests, FinalizePublish(r)
       PROVE  HeldOK'
  BY <1>13, CoverFrame DEF FinalizePublish
<1>14. ASSUME NEW r \in Requests, FinalizeUndo(r)
       PROVE  HeldOK'
  BY <1>14, CoverFrame DEF FinalizeUndo, AfterUndo
<1>14a. ASSUME NEW r \in Requests, FinalizeUndoFails(r)
       PROVE  HeldOK'
  BY <1>14a, CoverFrame DEF FinalizeUndoFails, AfterUndo
<1>15. ASSUME NEW r \in Requests, FinalizeDiscard(r)
       PROVE  HeldOK'
  BY <1>15, CoverFrame DEF FinalizeDiscard
<1>16. ASSUME NEW s \in Sessions, CancelSession(s)
       PROVE  HeldOK'
  BY <1>16, CoverFrame DEF CancelSession
<1>17. ASSUME NEW s \in Sessions, CancelDelete(s)
       PROVE  HeldOK'
  BY <1>17, CoverFrame DEF CancelDelete
<1>18. ASSUME NEW n \in Names, OtherNodeTakesName(n)
       PROVE  HeldOK'
  BY <1>18, CoverFrame DEF OtherNodeTakesName
<1>19. ASSUME NEW n \in Names, OtherNodeFreesName(n)
       PROVE  HeldOK'
  BY <1>19, CoverFrame DEF OtherNodeFreesName
<1>20. CASE UNCHANGED vars
  BY <1>20, CoverFrame DEF vars
<1>21. ASSUME NEW r \in Requests, Drop(r)
       PROVE  HeldOK'
  BY <1>21, CoverFrame DEF Drop
<1>22. ASSUME NEW s \in Sessions, DropCancel(s)
       PROVE  HeldOK'
  BY <1>22, CoverFrame DEF DropCancel
<1>. QED
  BY ClientSteps, <1>1, <1>2, <1>3, <1>4, <1>5, <1>6, <1>7, <1>8, <1>9, <1>10, <1>11,
     <1>12, <1>13, <1>14, <1>14a, <1>15, <1>16, <1>17, <1>18, <1>19, <1>20, <1>21, <1>22

\* Nothing writes to a published original or changes what it was published as.
LEMMA IntactStep ==
    ASSUME InTurn, Inv, Solo, PlacesOK, StagingOK, HeldOK, PublishedIntact, [Next]_vars
    PROVE  PublishedIntact'
<1> USE ConstantsOK DEF Inv, TypeInv, TypeOK, SlotsOK, Moved, InChunk, Gone, Begin, Goto,
      Finish, db, fs, rows, locals, others, Solo, PlacesOK, Live, PublishedIntact,
      KeysOK, PublishedStored, File
<1>1. ASSUME NEW r \in Requests, NEW s \in Sessions, NEW n \in Names, NEW size \in Sizes,
             CreateUpload(r, s, n, size)
      PROVE  PublishedIntact'
  BY <1>1, CoverFrame DEF CreateUpload, FreeInode
<1>2. ASSUME NEW r \in Requests, CreateSession(r)
      PROVE  PublishedIntact'
  BY <1>2, CoverFrame DEF CreateSession
<1>3. ASSUME NEW r \in Requests, CreateSessionFails(r)
      PROVE  PublishedIntact'
  BY <1>3, CoverFrame DEF CreateSessionFails
<1>4. ASSUME NEW r \in Requests, NEW s \in Sessions, NEW c \in Ranges, NEW total \in Totals,
             ChunkStart(r, s, c, total)
      PROVE  PublishedIntact'
  BY <1>4, CoverFrame DEF ChunkStart
<1>5. ASSUME NEW r \in Requests, ChunkOpen(r)
      PROVE  PublishedIntact'
  BY <1>5, CoverFrame DEF ChunkOpen, FreeInode
<1>6. ASSUME NEW r \in Requests, ChunkWrite(r)
      PROVE  PublishedIntact'
  BY <1>6, CoverFrame DEF ChunkWrite
<1>7. ASSUME NEW r \in Requests, RecordChunk(r)
      PROVE  PublishedIntact'
  <2>1. UNCHANGED <<state, files, originals, data>> /\ of[r] \in Sessions
    BY <1>7 DEF RecordChunk
  <2>2. ASSUME NEW f \in files
        PROVE  chunks'[f.session] = chunks[f.session]
    <3>1. f.session \in Sessions /\ state[f.session] = "completed"
      BY <2>2 DEF PublishedOnce
    <3>. QED  BY <1>7, <2>1, <3>1 DEF RecordChunk
  <2>3. \A f \in files : Covered(f.session)' = Covered(f.session)
    BY <2>2 DEF Covered
  <2>. QED  BY <2>1, <2>3
<1>8. ASSUME NEW r \in Requests, NEW s \in Sessions, FinalizeRead(r, s)
      PROVE  PublishedIntact'
  BY <1>8, CoverFrame DEF FinalizeRead
<1>9. ASSUME NEW r \in Requests, FinalizeChecksum(r)
      PROVE  PublishedIntact'
  BY <1>9, CoverFrame DEF FinalizeChecksum
<1>10. ASSUME NEW r \in Requests, FinalizeMove(r)
       PROVE  PublishedIntact'
  BY <1>10, CoverFrame DEF FinalizeMove, FreshKey
<1>11. ASSUME NEW r \in Requests, FinalizeReplay(r)
       PROVE  PublishedIntact'
  BY <1>11, CoverFrame DEF FinalizeReplay
<1>12. ASSUME NEW r \in Requests, FinalizeRefuse(r)
       PROVE  PublishedIntact'
  BY <1>12, CoverFrame DEF FinalizeRefuse
<1>13. ASSUME NEW r \in Requests, FinalizePublish(r)
       PROVE  PublishedIntact'
  <2>. DEFINE f0 == [session |-> of[r], key |-> key[r],
                     size |-> found[r].size, sum |-> found[r].sum]
  <2>1. /\ pc[r] = "fin_commit" /\ state[of[r]] = "active" /\ of[r] \in Sessions
        /\ files' = files \cup {f0}
        /\ UNCHANGED <<chunks, originals, data>>
    BY <1>13 DEF FinalizePublish
  <2>2. \A s \in Sessions : Covered(s)' = Covered(s)
    BY <2>1, CoverFrame
  <2>. HIDE <1>13
  <2>3. /\ data[originals[key[r]]] = found[r].sum
        /\ Covered(of[r]) \subseteq found[r].sum
        /\ found[r].size = Cardinality(Covered(of[r]))
    BY <2>1 DEF HeldOK, HeldBy, LedgerOK, LedgerExact, LedgerCounts
  <2>. QED  BY <2>1, <2>2, <2>3
<1>14. ASSUME NEW r \in Requests, FinalizeUndo(r)
       PROVE  PublishedIntact'
  BY <1>14, CoverFrame DEF FinalizeUndo, AfterUndo
<1>14a. ASSUME NEW r \in Requests, FinalizeUndoFails(r)
       PROVE  PublishedIntact'
  BY <1>14a, CoverFrame DEF FinalizeUndoFails, AfterUndo
<1>15. ASSUME NEW r \in Requests, FinalizeDiscard(r)
       PROVE  PublishedIntact'
  BY <1>15, CoverFrame DEF FinalizeDiscard
<1>16. ASSUME NEW s \in Sessions, CancelSession(s)
       PROVE  PublishedIntact'
  BY <1>16, CoverFrame DEF CancelSession
<1>17. ASSUME NEW s \in Sessions, CancelDelete(s)
       PROVE  PublishedIntact'
  BY <1>17, CoverFrame DEF CancelDelete
<1>18. ASSUME NEW n \in Names, OtherNodeTakesName(n)
       PROVE  PublishedIntact'
  BY <1>18, CoverFrame DEF OtherNodeTakesName
<1>19. ASSUME NEW n \in Names, OtherNodeFreesName(n)
       PROVE  PublishedIntact'
  BY <1>19, CoverFrame DEF OtherNodeFreesName
<1>20. CASE UNCHANGED vars
  BY <1>20, CoverFrame DEF vars
<1>21. ASSUME NEW r \in Requests, Drop(r)
       PROVE  PublishedIntact'
  BY <1>21, CoverFrame DEF Drop
<1>22. ASSUME NEW s \in Sessions, DropCancel(s)
       PROVE  PublishedIntact'
  BY <1>22, CoverFrame DEF DropCancel
<1>. QED
  BY ClientSteps, <1>1, <1>2, <1>3, <1>4, <1>5, <1>6, <1>7, <1>8, <1>9, <1>10, <1>11,
     <1>12, <1>13, <1>14, <1>14a, <1>15, <1>16, <1>17, <1>18, <1>19, <1>20, <1>21, <1>22

\* An original changes hands only with its key.
LEMMA NoStrayStep ==
    ASSUME OneClient, Inv, Solo, NoStrayOriginal, [Next]_vars
    PROVE  NoStrayOriginal'
<1> USE ConstantsOK DEF Inv, TypeInv, TypeOK, SlotsOK, Moved, InChunk, Gone, Begin, Goto,
      Finish, db, fs, rows, locals, others, Solo, PlacesOK, Live,
      NoStrayOriginal, KeysOK
<1>1. ASSUME NEW r \in Requests, NEW s \in Sessions, NEW n \in Names, NEW size \in Sizes,
             CreateUpload(r, s, n, size)
      PROVE  NoStrayOriginal'
  BY <1>1 DEF CreateUpload
<1>2. ASSUME NEW r \in Requests, CreateSession(r)
      PROVE  NoStrayOriginal'
  BY <1>2 DEF CreateSession
<1>3. ASSUME NEW r \in Requests, CreateSessionFails(r)
      PROVE  NoStrayOriginal'
  BY <1>3 DEF CreateSessionFails
<1>4. ASSUME NEW r \in Requests, NEW s \in Sessions, NEW c \in Ranges, NEW total \in Totals,
             ChunkStart(r, s, c, total)
      PROVE  NoStrayOriginal'
  BY <1>4 DEF ChunkStart
<1>5. ASSUME NEW r \in Requests, ChunkOpen(r)
      PROVE  NoStrayOriginal'
  BY <1>5 DEF ChunkOpen
<1>6. ASSUME NEW r \in Requests, ChunkWrite(r)
      PROVE  NoStrayOriginal'
  BY <1>6 DEF ChunkWrite
<1>7. ASSUME NEW r \in Requests, RecordChunk(r)
      PROVE  NoStrayOriginal'
  BY <1>7 DEF RecordChunk
<1>8. ASSUME NEW r \in Requests, NEW s \in Sessions, FinalizeRead(r, s)
      PROVE  NoStrayOriginal'
  BY <1>8 DEF FinalizeRead
<1>9. ASSUME NEW r \in Requests, FinalizeChecksum(r)
      PROVE  NoStrayOriginal'
  BY <1>9 DEF FinalizeChecksum
<1>10. ASSUME NEW r \in Requests, FinalizeMove(r)
       PROVE  NoStrayOriginal'
  BY <1>10 DEF FinalizeMove
<1>11. ASSUME NEW r \in Requests, FinalizeReplay(r)
       PROVE  NoStrayOriginal'
  BY <1>11 DEF FinalizeReplay
<1>12. ASSUME NEW r \in Requests, FinalizeRefuse(r)
       PROVE  NoStrayOriginal'
  BY <1>12 DEF FinalizeRefuse
<1>13. ASSUME NEW r \in Requests, FinalizePublish(r)
       PROVE  NoStrayOriginal'
  <2>. DEFINE f0 == [session |-> of[r], key |-> key[r],
                     size |-> found[r].size, sum |-> found[r].sum]
  <2>1. /\ files' = files \cup {f0} /\ f0.key = key[r]
        /\ key' = [key EXCEPT ![r] = None] /\ UNCHANGED originals
    BY <1>13 DEF FinalizePublish
  <2>. HIDE <1>13 DEF f0
  <2>2. ASSUME NEW k \in Keys, originals[k] # None
        PROVE  \/ \E f \in files' : f.key = k
               \/ \E q \in Requests : key'[q] = k
    <3>1. CASE key[r] = k
      BY <2>1, <3>1
    <3>2. CASE key[r] # k
      BY <2>1, <2>2, <3>2
    <3>. QED  BY <3>1, <3>2
  <2>. QED  BY <2>1, <2>2
<1>14. ASSUME NEW r \in Requests, FinalizeUndo(r)
       PROVE  NoStrayOriginal'
  BY <1>14 DEF FinalizeUndo, AfterUndo
<1>14a. ASSUME NEW r \in Requests, FinalizeUndoFails(r)
       PROVE  NoStrayOriginal'
  BY <1>14a DEF FinalizeUndoFails, OneClient
<1>15. ASSUME NEW r \in Requests, FinalizeDiscard(r)
       PROVE  NoStrayOriginal'
  BY <1>15 DEF FinalizeDiscard
<1>16. ASSUME NEW s \in Sessions, CancelSession(s)
       PROVE  NoStrayOriginal'
  BY <1>16 DEF CancelSession
<1>17. ASSUME NEW s \in Sessions, CancelDelete(s)
       PROVE  NoStrayOriginal'
  BY <1>17 DEF CancelDelete
<1>18. ASSUME NEW n \in Names, OtherNodeTakesName(n)
       PROVE  NoStrayOriginal'
  BY <1>18 DEF OtherNodeTakesName
<1>19. ASSUME NEW n \in Names, OtherNodeFreesName(n)
       PROVE  NoStrayOriginal'
  BY <1>19 DEF OtherNodeFreesName
<1>20. CASE UNCHANGED vars
  BY <1>20 DEF vars
<1>21. ASSUME NEW r \in Requests, Drop(r)
       PROVE  NoStrayOriginal'
  BY <1>21 DEF Drop, OneClient
<1>22. ASSUME NEW s \in Sessions, DropCancel(s)
       PROVE  NoStrayOriginal'
  BY <1>22 DEF DropCancel, OneClient
<1>. HIDE DEF Inv, Solo
<1>23. InTurn
  BY DEF InTurn, OneClient, MayStrand
<1>. QED
  BY ClientSteps, <1>23, <1>1, <1>2, <1>3, <1>4, <1>5, <1>6, <1>7, <1>8, <1>9, <1>10, <1>11,
     <1>12, <1>13, <1>14, <1>14a, <1>15, <1>16, <1>17, <1>18, <1>19, <1>20, <1>21, <1>22

----------------------------------------------------------------------------
(* The inductive invariant and what follows from it                         *)

\* ClientInv holds at first.
LEMMA ClientInit == Init => ClientInv
<1> SUFFICES ASSUME Init PROVE ClientInv
  OBVIOUS
<1>1. Inv
  BY InvInit
<1>2. Solo /\ PlacesOK /\ HeldOK /\ BoundOK /\ StagingOK
  BY ConstantsOK DEF Init, Solo, PlacesOK, HeldOK, HeldBy, BoundOK, StagingOK, LocalOK, Live,
      InChunk, Moved, Gone
<1>3. PublishedIntact /\ FitsOK
  BY DEF Init, PublishedIntact, FitsOK, InChunk
<1>. QED  BY <1>1, <1>2, <1>3 DEF ClientInv, BytesOK

\* ClientInv is inductive.
LEMMA ClientStep ==
    ASSUME InTurn
    PROVE  ClientInv /\ [Next]_vars => ClientInv'
<1> SUFFICES ASSUME ClientInv, [Next]_vars PROVE ClientInv'
  OBVIOUS
<1>1. StagingOK'
  BY StagingStep DEF ClientInv, BytesOK
<1>2. Totals \subseteq {TRUE} => FitsOK'
  BY FitsStep DEF ClientInv
<1>. QED
  BY <1>1, <1>2, InvStep, SoloStep, PlacesStep, BoundStep, HeldStep, IntactStep
  DEF ClientInv, BytesOK

\* One client at a time on each session keeps the invariant.
LEMMA ClientInvariant ==
    ASSUME InTurn
    PROVE  Spec => []ClientInv
BY ClientInit, ClientStep, PTL DEF Spec

\* A published original holds the bytes its checksum was taken of, among them
\* every acknowledged one, and its size is the number of those: for one client
\* at a time on a session, whatever is cancelled or fails; if chunks carry the
\* total, also wherever handlers are dropped and when a rename back fails.
THEOREM IntactCorrect ==
    ASSUME InTurn
    PROVE  Spec => []PublishedIntact
<1>1. ClientInv => PublishedIntact
  BY DEF ClientInv, BytesOK
<1>. QED  BY ClientInvariant, <1>1, PTL

\* With one client and nothing stranded, nothing is asked of the totals.
LEMMA OneInTurn == OneClient => InTurn
BY DEF OneClient, InTurn, MayStrand

\* If nobody hangs up and every rename back works, no object is left under originals/ that neither a file nor
\* a finalize owns.
THEOREM NoStrayCorrect ==
    ASSUME OneClient
    PROVE  Spec => []NoStrayOriginal
<1>1. Init => NoStrayOriginal
  BY DEF Init, NoStrayOriginal
<1>2. ClientInv /\ NoStrayOriginal /\ [Next]_vars => NoStrayOriginal'
  BY NoStrayStep DEF ClientInv
<1>. QED  BY OneInTurn, ClientInvariant, <1>1, <1>2, PTL DEF Spec

\* If nobody hangs up and every rename back works, the bytes an active session's
\* ledger claims are on disk: the client may resume from it after any refused,
\* failed or undone request.
THEOREM ResumeCorrect ==
    ASSUME OneClient
    PROVE  Spec => []Resumable
<1>1. ASSUME ClientInv
      PROVE  Resumable
  <2> SUFFICES ASSUME NEW s \in Sessions, state[s] = "active"
               PROVE  \/ /\ staging[s] # None
                         /\ Covered(s) \subseteq data[staging[s]]
                      \/ \E r \in Holding(s) :
                            Covered(s) \subseteq data[originals[key[r]]]
    BY DEF Resumable
  <2>1. CASE \A r \in Requests : of[r] = s => pc[r] \notin Moved
    BY <1>1, <2>1 DEF ClientInv, BytesOK, StagingOK, Kept, Lost, OneClient,
      MayStrand
  <2>2. CASE \E r \in Requests : of[r] = s /\ pc[r] \in Moved
    <3>1. PICK r \in Requests : of[r] = s /\ pc[r] \in Moved
      BY <2>2
    <3>2. Live(r) /\ Covered(s) \subseteq data[originals[key[r]]]
      BY <1>1, <3>1 DEF ClientInv, BytesOK, HeldOK, HeldBy, Live, Moved
    <3>3. r \in Holding(s)
      BY <1>1, <3>1, ConstantsOK DEF ClientInv, Inv, TypeInv, SlotsOK, Holding
    <3>. QED  BY <3>2, <3>3
  <2>. QED  BY <2>1, <2>2
<1>. QED  BY OneInTurn, ClientInvariant, <1>1, PTL

\* A client that hangs up anywhere, whose handlers die or whose rename back fails,
\* resumes any upload of which bytes are missing: only a finalize moves them, and only when none is.
THEOREM UnfinishedCorrect ==
    ASSUME InTurn
    PROVE  Spec => []UnfinishedResumable
<1>1. ASSUME ClientInv
      PROVE  UnfinishedResumable
  <2> SUFFICES ASSUME NEW s \in Sessions, state[s] = "active", ~SizeReached(s)
               PROVE  staging[s] # None /\ Covered(s) \subseteq data[staging[s]]
    BY DEF UnfinishedResumable
  <2>1. StagingOK
    BY <1>1 DEF ClientInv, BytesOK
  <2>2. \A r \in Requests : of[r] = s => pc[r] \notin Moved
    BY <2>1 DEF StagingOK, LocalOK, Live, Moved
  <2>. QED  BY <2>1, <2>2 DEF StagingOK, Kept, Lost
<1>. QED  BY ClientInvariant, <1>1, PTL

----------------------------------------------------------------------------
(* The handlers implement UploadContract                                    *)

Acked == [s \in Sessions |-> Covered(s)]
Content == [s \in Sessions |->
              UNION {data[originals[f.key]] : f \in {g \in files : g.session = s}}]
Sums == [s \in Sessions |-> UNION {f.sum : f \in {g \in files : g.session = s}}]

\* What a session has published is what its checksum was taken of.
LEMMA ContentIs == PublishedIntact => Content = Sums
<1> SUFFICES ASSUME PublishedIntact PROVE Content = Sums
  OBVIOUS
<1>1. ASSUME NEW s \in Sessions
      PROVE  {data[originals[f.key]] : f \in {g \in files : g.session = s}}
               = {f.sum : f \in {g \in files : g.session = s}}
  BY DEF PublishedIntact
<1>. QED  BY <1>1 DEF Content, Sums

\* A step that publishes nothing leaves what is published as it is.
LEMMA ContentFrame ==
    ASSUME PublishedIntact, PublishedIntact', UNCHANGED files
    PROVE  UNCHANGED Content
<1>1. ASSUME NEW s \in Sessions
      PROVE  {data'[originals'[f.key]] : f \in {g \in files : g.session = s}}
               = {data[originals[f.key]] : f \in {g \in files : g.session = s}}
  BY DEF PublishedIntact
<1>. QED  BY <1>1 DEF Content

\* A step of the handlers is a step of the contract or leaves it alone.
LEMMA ContractStep ==
    ASSUME InTurn, ClientInv, ClientInv', [Next]_vars
    PROVE  [Contract!Next]_(Contract!vars)
<1>. DEFINE Same == UNCHANGED <<state, Acked, Content>>
<1>1. ASSUME UNCHANGED <<chunks, files>>
      PROVE  UNCHANGED <<Acked, Content>>
  <2>1. UNCHANGED Content
    BY <1>1, ContentFrame DEF ClientInv, BytesOK
  <2>2. UNCHANGED Acked
    BY <1>1, CoverFrame DEF Acked
  <2>. QED  BY <2>1, <2>2
<1>2. ASSUME NEW r \in Requests, CreateSession(r)
      PROVE  \E s \in Sessions : Contract!Open(s)
  <2>1. of[r] \in Sessions /\ state[of[r]] = "none"
    BY <1>2 DEF ClientInv, Inv, TypeInv, SlotsOK, CreateOK, CreateSession
  <2>2. UNCHANGED <<Acked, Content>>
    BY <1>1, <1>2 DEF CreateSession
  <2>3. state' = [state EXCEPT ![of[r]] = "active"]
    BY <1>2 DEF CreateSession
  <2>. QED  BY <2>1, <2>2, <2>3 DEF Contract!Open, Acked, Content
<1>3. ASSUME NEW r \in Requests, RecordChunk(r)
      PROVE  \/ \E s \in Sessions, b \in SUBSET (0 .. MaxByte) :
                    Contract!Acknowledge(s, b)
             \/ Same
  <2>1. /\ of[r] \in Sessions /\ range[r] \in ByteRange
        /\ range[r].lo <= range[r].hi /\ range[r].hi <= MaxByte
        /\ chunks \in [Sessions -> SUBSET ByteRange]
    BY <1>3 DEF ClientInv, Inv, TypeInv, TypeOK, SlotsOK, BoundOK, InChunk, RecordChunk
  <2>2. UNCHANGED <<state, files>>
    BY <1>3 DEF RecordChunk
  <2>3. UNCHANGED Content
    BY <2>2, ContentFrame DEF ClientInv, BytesOK
  <2>4. CASE UNCHANGED chunks
    BY <1>1, <2>2, <2>4
  <2>5. CASE /\ state[of[r]] = "active" /\ ~Overlapping(of[r], range[r])
             /\ chunks' = [chunks EXCEPT ![of[r]] = @ \cup {range[r]}]
    <3>1. PICK s \in Sessions, c \in ByteRange : s = of[r] /\ c = range[r]
      BY <2>1
    <3>2. /\ state[s] = "active" /\ ~Overlapping(s, c)
          /\ c.lo <= c.hi /\ c.hi <= MaxByte
          /\ chunks'[s] = chunks[s] \cup {c}
          /\ \A t \in Sessions \ {s} : chunks'[t] = chunks[t]
      BY <2>1, <2>5, <3>1
    <3>. DEFINE b == c.lo .. c.hi
    <3>3. Covered(s)' = Covered(s) \cup b
      <4>1. TypeInv /\ IsFiniteSet(Covered(s))
        BY DEF ClientInv, Inv, LedgerOK
      <4>. QED  BY <3>2, <4>1, CoverGrows
    <3>4. \A t \in Sessions \ {s} : Covered(t)' = Covered(t)
      BY <3>2 DEF Covered
    <3>5. b \in SUBSET (0 .. MaxByte) /\ b # {}
      BY <3>2, ConstantsOK DEF ByteRange
    <3>6. b \cap Covered(s) = {}
      <4>1. ASSUME NEW n \in b, NEW d \in chunks[s], n \in d.lo .. d.hi
            PROVE  Overlaps(d, c)
        BY <2>1, <4>1 DEF Overlaps, ByteRange
      <4>. QED  BY <3>2, <4>1 DEF Covered, Overlapping
    <3>. HIDE DEF b
    <3>7. Acked' = [Acked EXCEPT ![s] = @ \cup b]
      <4>1. Acked'[s] = Acked[s] \cup b
        BY <3>3 DEF Acked
      <4>2. \A t \in Sessions \ {s} : Acked'[t] = Acked[t]
        BY <3>4 DEF Acked
      <4>. QED  BY <4>1, <4>2 DEF Acked
    <3>8. Acked[s] = Covered(s)
      BY DEF Acked
    <3>9. Contract!Acknowledge(s, b)
      <4>1. /\ state[s] = "active" /\ b # {} /\ b \cap Acked[s] = {}
            /\ Acked' = [Acked EXCEPT ![s] = @ \cup b]
            /\ UNCHANGED <<state, Content>>
        BY <2>2, <2>3, <3>2, <3>5, <3>6, <3>7, <3>8
      <4>. QED  BY ONLY <4>1 DEF Contract!Acknowledge, Acked, Content
    <3>. QED  BY <3>5, <3>9
  <2>. QED  BY <1>3, <2>4, <2>5 DEF RecordChunk
<1>4. ASSUME NEW r \in Requests, FinalizePublish(r)
      PROVE  \E s \in Sessions, b \in SUBSET (0 .. MaxByte) : Contract!Publish(s, b)
  <2>1. PICK s \in Sessions, k \in Keys, b \in SUBSET Nat :
          s = of[r] /\ k = key[r] /\ b = found[r].sum
    BY <1>4 DEF ClientInv, Inv, TypeInv, TypeOK, SlotsOK, Moved, Found, FinalizePublish
  <2>. DEFINE f0 == [session |-> s, key |-> k, size |-> found[r].size, sum |-> b]
  <2>2. /\ pc[r] = "fin_commit" /\ state[s] = "active" /\ Live(r)
        /\ state' = [state EXCEPT ![s] = "completed"]
        /\ files' = files \cup {f0} /\ UNCHANGED <<chunks, originals, data>>
    BY <1>4, <2>1 DEF FinalizePublish, fs, Live
  <2>3. b = data[originals[k]] /\ Covered(s) \subseteq b
    BY <2>1, <2>2 DEF ClientInv, BytesOK, HeldOK, HeldBy, Moved
  <2>4. originals[k] \in Inodes
    BY <2>1, <2>2 DEF ClientInv, Inv, TypeInv, TypeOK, KeysOK, Moved
  <2>5. b \in SUBSET (0 .. MaxByte)
    BY <2>3, <2>4 DEF ClientInv, BoundOK
  <2>6. \A g \in files : g.session \in Sessions \ {s}
    BY <2>2 DEF ClientInv, Inv, TypeInv, TypeOK, File, PublishedOnce
  <2>7. UNCHANGED Acked
    BY <2>2, CoverFrame DEF Acked
  <2>8. \A t \in Sessions \ {s} :
          {g \in files' : g.session = t} = {g \in files : g.session = t}
    BY <2>2
  <2>9. {g \in files' : g.session = s} = {f0}
    BY <2>2, <2>6
  <2>10. Content' = [Content EXCEPT ![s] = b]
    <3>1. f0.key = k
      OBVIOUS
    <3>. HIDE DEF f0
    <3>2. UNION {data'[originals'[f.key]] : f \in {f0}} = b
      BY <2>2, <2>3, <3>1
    <3>3. \A t \in Sessions \ {s} : Content'[t] = Content[t]
      BY <2>2, <2>8 DEF Content
    <3>4. Content'[s] = b
      BY <2>9, <3>2 DEF Content
    <3>. QED  BY <3>3, <3>4 DEF Content
  <2>11. Acked[s] = Covered(s)
    BY DEF Acked
  <2>12. Contract!Publish(s, b)
    <3>1. /\ state[s] = "active" /\ Acked[s] \subseteq b
          /\ state' = [state EXCEPT ![s] = "completed"]
          /\ Content' = [Content EXCEPT ![s] = b]
          /\ UNCHANGED Acked
      BY <2>2, <2>3, <2>7, <2>10, <2>11
    <3>. QED  BY ONLY <3>1 DEF Contract!Publish, Acked, Content
  <2>. QED  BY <2>5, <2>12
<1>5. ASSUME NEW s \in Sessions, CancelSession(s)
      PROVE  Contract!Withdraw(s) \/ Same
  <2>1. UNCHANGED <<Acked, Content>>
    BY <1>1, <1>5 DEF CancelSession
  <2>2. /\ state[s] \in {"active", "cancelled"}
        /\ state' = [state EXCEPT ![s] = "cancelled"]
        /\ state \in [Sessions -> States]
    BY <1>5 DEF CancelSession, ClientInv, Inv, TypeInv, TypeOK
  <2>3. CASE state[s] = "active"
    BY <2>1, <2>2, <2>3 DEF Contract!Withdraw, Acked, Content
  <2>4. CASE state[s] = "cancelled"
    BY <2>1, <2>2, <2>4
  <2>. QED  BY <2>2, <2>3, <2>4
<1>6. ASSUME ~\E r \in Requests :
                 CreateSession(r) \/ RecordChunk(r) \/ FinalizePublish(r),
             ~\E s \in Sessions : CancelSession(s)
      PROVE  Same
  <2>1. UNCHANGED <<state, chunks, files>>
    BY <1>6, ClientSteps DEF ClientInv, CreateUpload, CreateSessionFails, ChunkStart,
       ChunkOpen, ChunkWrite, FinalizeRead, FinalizeChecksum, FinalizeMove,
       FinalizeReplay, FinalizeRefuse, FinalizeUndo, FinalizeUndoFails, FinalizeDiscard, Drop,
       CancelDelete, DropCancel, OtherNodeTakesName, OtherNodeFreesName, vars, db, rows
  <2>. QED  BY <1>1, <2>1
<1>. QED
  BY <1>2, <1>3, <1>4, <1>5, <1>6 DEF Contract!Next, Contract!vars, Acked, Content

\* Acknowledged bytes are never lost or acknowledged twice, and a file appears
\* in one step with all of them in it: the handlers keep UploadContract.
THEOREM ContractCorrect ==
    ASSUME InTurn
    PROVE  Spec => KeepsContract
<1>1. Init => Contract!Init
  BY DEF Init, Contract!Init, Covered
<1>2. ASSUME ClientInv, ClientInv', [Next]_vars
      PROVE  [Contract!Next]_(Contract!vars)
  BY <1>2, ContractStep
<1>. QED
  BY ClientInvariant, <1>1, <1>2, PTL DEF Spec, KeepsContract, Contract!Spec

=============================================================================
