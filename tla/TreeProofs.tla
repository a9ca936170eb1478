---------------------------- MODULE TreeProofs ----------------------------
(***************************************************************************)
(* Proofs about Tree for any number of folders, files and names.  The       *)
(* argument: active folders hang in active folders, so folders in the trash *)
(* are cut off from everything that moves; files hang in active folders as  *)
(* well unless an upload completes late, which matters to deletions only.   *)
(* The trees that the recursive queries return are the least sets closed    *)
(* under taking children, which is all that the proofs use of them.         *)
(***************************************************************************)
EXTENDS Tree, TLAPS

----------------------------------------------------------------------------
(* What the recursive queries return                                        *)

\* A tree contains its roots.
LEMMA TreeRoots ==
    ASSUME NEW among, NEW roots \in SUBSET Nodes PROVE roots \subseteq Tree(roots, among)
  BY DEF Tree

\* A tree contains the children of its nodes.
LEMMA TreeClosed ==
    ASSUME NEW roots, NEW among \in SUBSET Nodes PROVE Closed(Tree(roots, among), among)
  BY DEF Tree, Closed

\* It is the least such set.
LEMMA TreeLeast ==
    ASSUME NEW roots, NEW among, NEW S \in SUBSET Nodes, roots \subseteq S, Closed(S, among)
    PROVE  Tree(roots, among) \subseteq S
<1> DEFINE W == S \cap (roots \cup among)
<1>1. W \subseteq roots \cup among /\ roots \subseteq W /\ Closed(W, among)
  BY DEF Closed
<1> HIDE DEF W
<1>2. Tree(roots, among) \subseteq W
  BY <1>1 DEF Tree
<1> QED
  BY <1>2 DEF W

\* Every node of a tree that is no root is there because of its parent.
LEMMA TreeParent ==
    ASSUME NEW roots \in SUBSET Nodes, NEW among \in SUBSET Nodes,
           NEW n \in Tree(roots, among), n \notin roots
    PROVE  n \in among /\ parent[n] \in Tree(roots, among)
<1> SUFFICES ASSUME ~(n \in among /\ parent[n] \in Tree(roots, among)) PROVE FALSE
  OBVIOUS
<1> DEFINE S == Tree(roots, among) \ {n}
<1>1. S \in SUBSET Nodes
  BY DEF Tree
<1>2. roots \subseteq S
  BY TreeRoots
<1>3. Closed(S, among)
  BY TreeClosed DEF Closed
<1> QED
  BY <1>1, <1>2, <1>3, TreeLeast

\* A tree lies within its roots and the nodes it was searched among.
LEMMA TreeWithin ==
    ASSUME NEW roots \in SUBSET Nodes, NEW among \in SUBSET Nodes
    PROVE  Tree(roots, among) \subseteq roots \cup among
  BY TreeParent

----------------------------------------------------------------------------
(* The inductive invariant                                                  *)

\* The root is active and has no parent; no parent is missing.
Shape ==
    /\ life[Root] = "active" /\ parent[Root] = None
    /\ \A n \in Nodes : parent[n] # None => life[parent[n]] # "absent"

\* The top of a trashed tree has an entry.
TopsListed ==
    \A n \in Trashed : n \in entries \/ (parent[n] \in Nodes /\ life[parent[n]] = "trashed")

\* Active nodes hang in active folders, but for files of late uploads.
Hangs ==
    \A n \in Active \ {Root} :
        \/ ActiveFolder(parent[n])
        \/ n \in Files /\ parent[n] \in targets /\ "late_upload" \in Faults

\* A folder that an upload session names keeps its row.
TargetsKept == \A d \in targets : life[d] # "absent"

Structure == Shape /\ Hangs /\ NoCycle /\ TopsListed /\ TargetsKept

\* What a handler may still delete has been listed, and only what has been
\* listed is without its object.
ListsKnown == \A n \in Nodes : \A f \in keys[n] : life[f] = "absent" \/ f \in listed
Kept == \A f \in Files : life[f] # "absent" => f \in bytes \/ f \in listed

\* Condemned nodes are in the trash, and with them the folders of a tree whose
\* deletion is under way; what is uploaded to one late is not.
Sentenced ==
    /\ Condemned \subseteq Trashed
    /\ \A n \in Nodes : purge[n] # "none" =>
        /\ life[n] # "active"
        /\ \A m \in TrashedTree(n) : m = n \/ m \in Folders => m \in Condemned

\* A handler has the rest of its tree condemned and on its list, unless an
\* upload session names a folder of the tree.
HeldOrListed ==
    \A n \in Nodes : purge[n] = "deleting" =>
        \/ TrashedTree(n) \cap bytes \subseteq keys[n] /\ TrashedTree(n) \subseteq Condemned
        \/ TrashedTree(n) \cap targets # {}

----------------------------------------------------------------------------
(* What steps do to rows                                                    *)

NewNode(n, d) ==
    /\ life[d] # "absent"
    /\ ActiveFolder(d) \/ (n \in Files /\ d \in targets /\ "late_upload" \in Faults)
    /\ FreshId(n)
    /\ life' = [life EXCEPT ![n] = "active"]
    /\ parent' = [parent EXCEPT ![n] = d]
    /\ entries' = entries

Moved(batch, d) ==
    /\ ActiveFolder(d)
    /\ \A f \in batch : ActiveFolder(f) /\ d \notin Descendants(f)
    /\ life' = life
    /\ parent' = [n \in Nodes |-> IF n \in batch THEN d ELSE parent[n]]
    /\ entries' = entries

\* Six kinds of steps, as far as the shape of the tree goes.
LEMMA StepKinds ==
    ASSUME TypeOK, TargetsKept, [Next]_vars
    PROVE  \/ \E n \in Nodes, d \in Folders : NewNode(n, d)
           \/ \E batch \in SUBSET Folders, d \in Folders : Moved(batch, d)
           \/ \E batch \in SUBSET Nodes : TrashNodes(batch)
           \/ \E n \in Nodes : RestoreNode(n)
           \/ \E n \in Nodes : PurgeRows(n)
           \/ UNCHANGED <<life, parent, entries>>
<1> USE DEF TypeOK, rows, trash
<1>1. ASSUME NEW n \in Nodes, NEW d \in Folders, NEW called \in Names,
             CreateFolder(n, d, called) \/ FinishUpload(n, d, called)
                \/ ImportFile(n, d, called)
      PROVE  NewNode(n, d)
  BY <1>1 DEF CreateFolder, FinishUpload, ImportFile, Insert, NewNode, ActiveFolder,
              TargetsKept
<1>2. ASSUME NEW f \in Folders, NEW d \in Folders, NEW called \in Names,
             UpdateFolder(f, d, called)
      PROVE  Moved({f}, d)
  <2>1. parent' = [parent EXCEPT ![f] = d]
    BY <1>2 DEF UpdateFolder, WriteUpdate
  <2>2. parent' = [n \in Nodes |-> IF n \in {f} THEN d ELSE parent[n]]
    BY <2>1
  <2> QED
    BY <1>2, <2>2 DEF UpdateFolder, MayUpdate, WriteUpdate, Moved
<1>3. ASSUME NEW batch \in SUBSET Folders, NEW d \in Folders, MoveFolders(batch, d)
      PROVE  Moved(batch, d)
  BY <1>3 DEF MoveFolders, Moved
<1>4. ASSUME NEW n \in Nodes,
             StartUpload(n) \/ AddFavorite(n) \/ RemoveFavorite(n) \/ RequestDeletion(n)
                \/ ListKeys(n) \/ PurgeFails(n) \/ (\E f \in Files : DeleteObject(n, f))
      PROVE  UNCHANGED <<life, parent, entries>>
  BY <1>4 DEF StartUpload, AddFavorite, RemoveFavorite, RequestDeletion, ListKeys,
              PurgeFails, DeleteObject
<1>5. CASE SweepTrash \/ MonthPasses \/ UNCHANGED vars
  BY <1>5 DEF SweepTrash, MonthPasses, vars
<1>6. Folders \subseteq Nodes
  BY DEF Nodes
<1> QED
  BY <1>1, <1>2, <1>3, <1>4, <1>5, <1>6 DEF Next, Transaction, Handler

----------------------------------------------------------------------------
(* The shape of the tree                                                    *)

\* Every active folder is below the root.
LEMMA RootReaches ==
    ASSUME TypeOK, Shape, Hangs, NoCycle
    PROVE  Active \cap Folders \subseteq Descendants(Root)
<1> DEFINE S == (Active \cap Folders) \ Descendants(Root)
<1>1. SUFFICES ASSUME S # {} PROVE FALSE
  OBVIOUS
<1>2. Root \in Nodes /\ Active \in SUBSET Nodes
  BY ConstantsOK DEF Nodes, Active
<1>3. PICK n \in S : parent[n] \notin S
  BY <1>1, <1>2 DEF NoCycle
<1>4. n # Root
  BY <1>2, <1>3, TreeRoots DEF Descendants
<1>5. parent[n] \in Active \cap Folders
  BY <1>2, <1>3, <1>4, ConstantsOK DEF Hangs, ActiveFolder, Active, Nodes
<1>6. n \in Descendants(Root)
  BY <1>2, <1>3, <1>5, TreeClosed DEF Descendants, Closed
<1> QED
  BY <1>3, <1>6

\* Moving nodes to an active folder that is below none of them closes no
\* cycle: what the move check of update_folder and move_folders is for.
LEMMA Reparent ==
    ASSUME TypeOK, Shape, Hangs, NoCycle,
           NEW batch \in SUBSET (Nodes \ {Root}), NEW d \in Active \cap Folders,
           \A f \in batch : d \notin Descendants(f),
           NEW up, \A n \in Nodes : up[n] = IF n \in batch THEN d ELSE parent[n],
           NEW S \in SUBSET Nodes, S # {}
    PROVE  \E n \in S : up[n] \notin S
<1> SUFFICES ASSUME \A n \in S : up[n] \in S PROVE FALSE
  OBVIOUS
<1>1. Root \notin S
  BY ConstantsOK DEF Shape, Nodes
<1>2. d \in S
  <2>1. PICK n \in S : parent[n] \notin S
    BY DEF NoCycle
  <2> QED BY <2>1
<1> DEFINE T == {n \in S \cap Active \cap Folders : \A f \in batch : n \notin Descendants(f)}
<1>3. T \in SUBSET Nodes /\ d \in T
  BY <1>2
<1>4. PICK n \in T : parent[n] \notin T
  BY <1>3 DEF NoCycle
<1>5. n \notin batch
  BY <1>4, TreeRoots DEF Descendants
<1>6. parent[n] \in S
  BY <1>4, <1>5
<1>7. parent[n] \in Active \cap Folders
  BY <1>1, <1>4, <1>6, ConstantsOK DEF Hangs, ActiveFolder, Active
<1>8. PICK f \in batch : parent[n] \in Descendants(f)
  BY <1>4, <1>6, <1>7
<1>9. n \in Descendants(f)
  BY <1>4, <1>8, TreeClosed DEF Descendants, Closed, Active
<1> QED
  BY <1>4, <1>9

\* A new node in a folder.
LEMMA NewNodeStep ==
    ASSUME TypeOK, Structure, NEW n \in Nodes, NEW d \in Folders, NewNode(n, d),
           targets \subseteq targets'
    PROVE  (Shape /\ Hangs /\ NoCycle /\ TopsListed)'
<1> USE DEF TypeOK, Structure, Shape, Hangs, TopsListed, Active, Trashed,
        ActiveFolder, NewNode, FreshId
<1>1. d \in Nodes /\ Root \in Nodes /\ d # n /\ None \notin Nodes
  BY ConstantsOK DEF Nodes
<1>2. /\ life' \in [Nodes -> {"absent", "active", "trashed"}]
      /\ \A m \in Nodes : /\ life'[m] = IF m = n THEN "active" ELSE life[m]
                          /\ parent'[m] = IF m = n THEN d ELSE parent[m]
  OBVIOUS
<1>3. Shape'
  BY <1>1, <1>2
<1>4. Hangs'
  BY <1>1, <1>2
<1>5. TopsListed'
  BY <1>1, <1>2
<1>6. ASSUME NEW S \in SUBSET Nodes, S # {} PROVE \E m \in S : parent'[m] \notin S
  <2>1. SUFFICES ASSUME \A m \in S : parent'[m] \in S PROVE FALSE
    OBVIOUS
  <2> DEFINE T == S \ {n}
  <2>2. T # {} /\ T \in SUBSET Nodes
    BY <1>1, <1>2, <1>6, <2>1
  <2>3. PICK m \in T : parent[m] \notin T
    BY <2>2 DEF NoCycle
  <2>4. parent[m] = n
    BY <1>2, <2>1, <2>3
  <2> QED BY <1>1, <2>2, <2>3, <2>4
<1>7. NoCycle'
  BY <1>6 DEF NoCycle
<1> QED
  BY <1>3, <1>4, <1>5, <1>7

\* A checked move.
LEMMA MovedStep ==
    ASSUME TypeOK, Structure, NEW batch \in SUBSET Folders, NEW d \in Folders,
           Moved(batch, d),
           targets \subseteq targets'
    PROVE  (Shape /\ Hangs /\ NoCycle /\ TopsListed)'
<1> USE DEF TypeOK, Structure, Moved
<1>1. d \in Active \cap Folders /\ batch \in SUBSET Nodes /\ Root \in Nodes /\ None \notin Nodes
  BY ConstantsOK DEF ActiveFolder, Active, Nodes
<1>2. Root \notin batch
  BY <1>1, RootReaches
<1>3. \A n \in Nodes : parent'[n] = IF n \in batch THEN d ELSE parent[n]
  OBVIOUS
<1>4. ASSUME NEW S \in SUBSET Nodes, S # {} PROVE \E n \in S : parent'[n] \notin S
  <2>1. batch \in SUBSET (Nodes \ {Root})
    BY <1>1, <1>2
  <2>2. Shape /\ Hangs /\ NoCycle /\ \A f \in batch : d \notin Descendants(f)
    OBVIOUS
  <2> HIDE DEF TypeOK, Structure, Moved
  <2> QED BY <1>1, <1>3, <1>4, <2>1, <2>2, Reparent
<1>5. NoCycle'
  BY <1>4 DEF NoCycle
<1>6. Shape'
  BY <1>1, <1>2, <1>3 DEF Shape, ActiveFolder, Active
<1>7. Hangs'
  BY <1>1, <1>2, <1>3 DEF Hangs, ActiveFolder, Active
<1>8. TopsListed'
  BY <1>1, <1>3 DEF TopsListed, Trashed, ActiveFolder, Active
<1> QED
  BY <1>5, <1>6, <1>7, <1>8

\* An active node with everything active below it goes to the trash.
LEMMA TrashStep ==
    ASSUME TypeOK, Structure, NEW batch \in SUBSET Nodes, TrashNodes(batch),
           targets \subseteq targets'
    PROVE  (Shape /\ Hangs /\ NoCycle /\ TopsListed)'
<1> DEFINE top == {n \in batch : \A m \in batch \ {n} : n \notin Below(m)}
           all == Tree(top, Active)
<1>1. /\ top \in SUBSET Nodes /\ top \subseteq Active \ {Root}
      /\ Active \in SUBSET Nodes /\ Root \in Nodes /\ None \notin Nodes
  BY ConstantsOK DEF TrashNodes, Active, Nodes
<1>2. /\ \A n \in Nodes : life'[n] = IF n \in all THEN "trashed" ELSE life[n]
      /\ parent' = parent /\ entries' = entries \cup top
  BY DEF TrashNodes
<1>3. all \subseteq Active /\ top \subseteq all
  BY <1>1, TreeWithin, TreeRoots
<1>4. \A n \in all \ top : parent[n] \in all
  BY <1>1, TreeParent
<1>5. \A n \in Active : parent[n] \in all => n \in all
  BY <1>1, TreeClosed DEF Closed
<1> HIDE DEF top, all
<1>6. Root \notin all
  BY <1>1, <1>3, <1>4 DEF Structure, Shape
<1>7. Shape'
  BY <1>1, <1>2, <1>3, <1>6 DEF TypeOK, Structure, Shape, Active, Nodes
<1>8. NoCycle'
  BY <1>2 DEF Structure, NoCycle
<1>9. Hangs'
  BY <1>1, <1>2, <1>5 DEF TypeOK, Structure, Hangs, ActiveFolder, Active, Nodes
<1>10. TopsListed'
  BY <1>1, <1>2, <1>3, <1>4 DEF TypeOK, Structure, TopsListed, Trashed, Active
<1> QED
  BY <1>7, <1>8, <1>9, <1>10

\* A trashed tree comes back below an active folder.
LEMMA RestoreStep ==
    ASSUME TypeOK, Structure, NEW n \in Nodes, RestoreNode(n),
           targets \subseteq targets'
    PROVE  (Shape /\ Hangs /\ NoCycle /\ TopsListed)'
<1> DEFINE tree == Tree({n}, Trashed)
           d == RestoreParent(n)
<1>1. /\ n \in Trashed /\ n # Root /\ TrashedTree(n) = tree
      /\ Trashed \in SUBSET Nodes /\ Root \in Nodes /\ None \notin Nodes
  BY ConstantsOK DEF RestoreNode, TrashedTree, Trashed, Nodes, Structure, Shape
<1>2. d \in Folders /\ d \in Active
  BY <1>1, ConstantsOK DEF RestoreParent, Active, Nodes, Structure, Shape
<1>3. /\ \A m \in Nodes : /\ life'[m] = IF m \in tree THEN "active" ELSE life[m]
                          /\ parent'[m] = IF m \in {n} THEN d ELSE parent[m]
      /\ entries' = entries \ {n}
  BY <1>1 DEF RestoreNode, TypeOK
<1>4. tree \subseteq Trashed /\ n \in tree
  BY <1>1, TreeWithin, TreeRoots
<1>5. \A m \in tree \ {n} : parent[m] \in tree
  BY <1>1, TreeParent
<1>6. \A m \in Trashed : parent[m] \in tree => m \in tree
  BY <1>1, TreeClosed DEF Closed
<1>7. d \notin Descendants(n)
  <2> DEFINE S == {n} \cup Files
  <2>1. S \in SUBSET Nodes /\ {n} \subseteq S
    BY DEF Nodes
  <2>2. Closed(S, Active)
    <3> SUFFICES ASSUME NEW c \in Active, parent[c] \in S PROVE c \in S
      BY DEF Closed
    <3>1. parent[c] = n /\ c \in Nodes /\ c # Root
      BY <1>1, ConstantsOK DEF TypeOK, Structure, Shape, Active, Nodes
    <3> QED BY <1>1, <3>1 DEF Structure, Hangs, ActiveFolder, Trashed
  <2>3. Descendants(n) \subseteq S
    BY <2>1, <2>2, TreeLeast DEF Descendants
  <2> QED BY <1>1, <1>2, <2>3, ConstantsOK DEF Active, Trashed
<1> HIDE DEF tree, d
<1>8. ASSUME NEW S \in SUBSET Nodes, S # {} PROVE \E m \in S : parent'[m] \notin S
  <2> DEFINE batch == {n}
  <2>1. batch \in SUBSET (Nodes \ {Root}) /\ \A f \in batch : d \notin Descendants(f)
    BY <1>1, <1>7
  <2>2. \A m \in Nodes : parent'[m] = IF m \in batch THEN d ELSE parent[m]
    BY <1>3
  <2>3. Shape /\ Hangs /\ NoCycle
    BY DEF Structure
  <2> HIDE DEF batch
  <2> QED BY <1>2, <1>8, <2>1, <2>2, <2>3, Reparent
<1>9. NoCycle'
  BY <1>8 DEF NoCycle
<1>10. Shape'
  BY <1>1, <1>2, <1>3, <1>4 DEF TypeOK, Structure, Shape, Active, Trashed, Nodes
<1>11. Hangs'
  <2>1. ASSUME NEW m \in Nodes, m # Root, life'[m] = "active"
        PROVE  \/ parent'[m] \in Folders /\ life'[parent'[m]] = "active"
               \/ m \in Files /\ parent'[m] \in targets /\ "late_upload" \in Faults
    <3>1. CASE m = n
      BY <1>2, <1>3, <3>1 DEF Active
    <3>2. CASE m \in tree \ {n}
      BY <1>1, <1>3, <1>4, <1>5, <3>2 DEF TypeOK, Trashed, Nodes
    <3>3. CASE m \notin tree
      <4>1. m \in Active /\ m # n
        BY <1>3, <1>4, <2>1, <3>3 DEF Active
      <4>2. \/ parent[m] \in Folders /\ life[parent[m]] = "active"
            \/ m \in Files /\ parent[m] \in targets /\ "late_upload" \in Faults
        BY <2>1, <4>1 DEF Structure, Hangs, ActiveFolder
      <4> QED BY <1>3, <4>1, <4>2 DEF Nodes
    <3> QED BY <1>4, <3>1, <3>2, <3>3
  <2> QED BY <2>1 DEF Hangs, ActiveFolder, Active
<1>12. TopsListed'
  BY <1>1, <1>3, <1>4, <1>6 DEF TypeOK, Structure, TopsListed, Trashed
<1> QED
  BY <1>9, <1>10, <1>11, <1>12

\* The rows of a trashed tree go.
LEMMA PurgeStep ==
    ASSUME TypeOK, Structure, NEW n \in Nodes, PurgeRows(n),
           targets \subseteq targets'
    PROVE  (Shape /\ Hangs /\ NoCycle /\ TopsListed)'
<1> DEFINE gone == TrashedTree(n)
<1>1. gone \subseteq Trashed /\ Trashed \in SUBSET Nodes /\ Root \in Nodes /\ None \notin Nodes
  <2>1. Trashed \in SUBSET Nodes
    BY DEF Trashed
  <2>2. life[n] = "trashed" => Tree({n}, Trashed) \subseteq Trashed
    BY <2>1, TreeWithin DEF Trashed
  <2> QED BY <2>1, <2>2, ConstantsOK DEF TrashedTree, Nodes
<1>2. \A m \in Nodes \ gone : parent[m] \notin gone
  BY DEF PurgeRows, Restricted
<1>3. /\ \A m \in Nodes : /\ life'[m] = IF m \in gone THEN "absent" ELSE life[m]
                          /\ parent'[m] = IF m \in gone THEN None ELSE parent[m]
      /\ entries' = entries \ gone
  BY DEF PurgeRows
<1> HIDE DEF gone
<1>4. Shape'
  BY <1>1, <1>2, <1>3 DEF TypeOK, Structure, Shape, Trashed, Nodes
<1>5. Hangs'
  BY <1>1, <1>2, <1>3 DEF TypeOK, Structure, Hangs, ActiveFolder, Active, Trashed, Nodes
<1>6. ASSUME NEW S \in SUBSET Nodes, S # {} PROVE \E m \in S : parent'[m] \notin S
  <2>1. PICK m \in S : parent[m] \notin S
    BY <1>6 DEF Structure, NoCycle
  <2> QED BY <1>1, <1>3, <2>1
<1>7. NoCycle'
  BY <1>6 DEF NoCycle
<1>8. TopsListed'
  BY <1>1, <1>2, <1>3 DEF TypeOK, Structure, TopsListed, Trashed
<1> QED
  BY <1>4, <1>5, <1>7, <1>8

\* Only active folders become the target of a session, none ceases to be one,
\* and rows go only with purges, which the targets hold up.
LEMMA TargetsStep ==
    ASSUME TypeOK, Structure, [Next]_vars
    PROVE  TargetsKept' /\ targets \subseteq targets'
<1> USE DEF TypeOK, rows, trash
<1> DEFINE Stand == TargetsKept' /\ targets \subseteq targets'
<1>1. ASSUME targets' = targets, \A d \in targets : life'[d] # "absent"
      PROVE  Stand
  BY <1>1 DEF TargetsKept
<1>2. \A d \in targets : d \in Nodes /\ life[d] # "absent"
  BY DEF Structure, TargetsKept, Nodes
<1>3. ASSUME NEW n \in Nodes, NEW d \in Folders, NEW called \in Names,
             CreateFolder(n, d, called) \/ FinishUpload(n, d, called)
                \/ ImportFile(n, d, called)
      PROVE  Stand
  BY <1>1, <1>2, <1>3 DEF CreateFolder, FinishUpload, ImportFile, Insert
<1>4. ASSUME NEW f \in Folders, NEW d \in Folders, NEW called \in Names,
             UpdateFolder(f, d, called)
      PROVE  Stand
  BY <1>1, <1>2, <1>4 DEF UpdateFolder, WriteUpdate
<1>5. ASSUME NEW batch \in SUBSET Folders, NEW d \in Folders, MoveFolders(batch, d)
      PROVE  Stand
  BY <1>1, <1>2, <1>5 DEF MoveFolders
<1>6. ASSUME NEW d \in Folders, StartUpload(d) PROVE Stand
  BY <1>2, <1>6 DEF StartUpload, ActiveFolder, TargetsKept
<1>7. ASSUME NEW n \in Nodes,
             AddFavorite(n) \/ RemoveFavorite(n) \/ RequestDeletion(n)
                \/ ListKeys(n) \/ PurgeFails(n) \/ (\E f \in Files : DeleteObject(n, f))
      PROVE  Stand
  BY <1>1, <1>2, <1>7 DEF AddFavorite, RemoveFavorite, RequestDeletion, ListKeys,
                          PurgeFails, DeleteObject
<1>8. ASSUME NEW batch \in SUBSET Nodes, TrashNodes(batch) PROVE Stand
  BY <1>1, <1>2, <1>8 DEF TrashNodes
<1>9. ASSUME NEW n \in Nodes, RestoreNode(n) PROVE Stand
  BY <1>1, <1>2, <1>9 DEF RestoreNode
<1>10. ASSUME NEW n \in Nodes, PurgeRows(n) PROVE Stand
  BY <1>1, <1>2, <1>10 DEF PurgeRows, Restricted
<1>11. CASE SweepTrash \/ MonthPasses \/ UNCHANGED vars
  BY <1>1, <1>2, <1>11 DEF SweepTrash, MonthPasses, vars
<1> QED
  BY <1>3, <1>4, <1>5, <1>6, <1>7, <1>8, <1>9, <1>10, <1>11 DEF Next, Transaction, Handler

\* The structure of the tree survives every step.
LEMMA StructureStep ==
    ASSUME TypeOK, Structure, [Next]_vars
    PROVE  Structure'
<1>1. CASE UNCHANGED <<life, parent, entries>>
  BY <1>1, TargetsStep DEF Structure, Shape, Hangs, NoCycle, TopsListed, Active, Trashed,
                           ActiveFolder
<1>2. TargetsKept /\ TargetsKept' /\ targets \subseteq targets'
  BY TargetsStep DEF Structure
<1>3. CASE (Shape /\ Hangs /\ NoCycle /\ TopsListed)'
  BY <1>2, <1>3 DEF Structure
<1> QED
  BY <1>1, <1>2, <1>3, StepKinds, NewNodeStep, MovedStep, TrashStep, RestoreStep, PurgeStep

----------------------------------------------------------------------------
(* Trashed trees                                                            *)

\* The tree of a trashed node is the node and trashed nodes.
LEMMA TrashedTreeWithin ==
    ASSUME NEW n \in Nodes
    PROVE  /\ TrashedTree(n) \subseteq Trashed
           /\ life[n] = "trashed" => n \in TrashedTree(n)
           /\ life[n] # "trashed" => TrashedTree(n) = {}
<1>1. Trashed \in SUBSET Nodes /\ (life[n] = "trashed" => n \in Trashed)
  BY DEF Trashed
<1> QED
  BY <1>1, TreeWithin, TreeRoots DEF TrashedTree

\* Nothing in the trash moves, and what goes to the trash hung in an active
\* folder, unless it is the file of a late upload.
LEMMA TrashStays ==
    ASSUME TypeOK, Structure, [Next]_vars, NEW n \in Nodes, life'[n] = "trashed"
    PROVE  /\ parent'[n] = parent[n]
           /\ \/ n \in Trashed
              \/ parent[n] \notin Trashed
              \/ n \in Files /\ parent[n] \in targets /\ "late_upload" \in Faults
<1> DEFINE Late(c) == c \in Files /\ parent[c] \in targets /\ "late_upload" \in Faults
           Stays == \A c \in Nodes : life'[c] = "trashed" =>
                        /\ parent'[c] = parent[c]
                        /\ c \in Trashed \/ parent[c] \notin Trashed \/ Late(c)
<1>1. ASSUME NEW m \in Nodes, NEW d \in Folders, NewNode(m, d) PROVE Stays
  BY <1>1 DEF TypeOK, NewNode, Trashed
<1>2. ASSUME NEW batch \in SUBSET Folders, NEW d \in Folders, Moved(batch, d) PROVE Stays
  BY <1>2 DEF TypeOK, Moved, Trashed, ActiveFolder
<1>3. ASSUME NEW batch \in SUBSET Nodes, TrashNodes(batch) PROVE Stays
  <2> DEFINE top == {m \in batch : \A k \in batch \ {m} : m \notin Below(k)}
             all == Tree(top, Active)
  <2>1. top \in SUBSET Nodes /\ top \subseteq Active /\ Active \in SUBSET Nodes
    BY <1>3 DEF TrashNodes, Active
  <2>2. all \subseteq Active
    BY <2>1, TreeWithin
  <2>3. /\ \A m \in Nodes : life'[m] = IF m \in all THEN "trashed" ELSE life[m]
        /\ parent' = parent
    BY <1>3 DEF TrashNodes
  <2> HIDE DEF top, all
  <2>4. \A m \in Active : parent[m] \notin Trashed \/ Late(m)
    BY ConstantsOK DEF Structure, Shape, Hangs, ActiveFolder, Active, Trashed, Nodes
  <2> QED BY <2>2, <2>3, <2>4 DEF Trashed
<1>4. ASSUME NEW m \in Nodes, RestoreNode(m) PROVE Stays
  <2>1. m \in TrashedTree(m)
    BY <1>4, TrashedTreeWithin DEF RestoreNode
  <2>2. \A c \in Nodes : /\ life'[c] = IF c \in TrashedTree(m) THEN "active" ELSE life[c]
                         /\ c # m => parent'[c] = parent[c]
    BY <1>4 DEF RestoreNode, TypeOK
  <2> QED BY <2>1, <2>2 DEF Trashed
<1>5. ASSUME NEW m \in Nodes, PurgeRows(m) PROVE Stays
  BY <1>5 DEF PurgeRows, Trashed
<1>6. ASSUME UNCHANGED <<life, parent, entries>> PROVE Stays
  BY <1>6 DEF Trashed
<1>7. Stays
  BY <1>1, <1>2, <1>3, <1>4, <1>5, <1>6, StepKinds DEF Structure
<1> QED
  BY <1>7

\* While a node stays in the trash, its tree grows by files of late uploads only.
LEMMA TreeGrows ==
    ASSUME TypeOK, Structure, [Next]_vars,
           NEW n \in Nodes, life[n] = "trashed", life'[n] = "trashed",
           NEW c \in TrashedTree(n)', c \notin TrashedTree(n)
    PROVE  c \in Files /\ parent'[c] \in targets /\ "late_upload" \in Faults
<1> DEFINE Late == {f \in Files : /\ parent'[f] \in targets
                                  /\ "late_upload" \in Faults}
           T == Tree({n}, Trashed)
           S == T \cup Late
<1>1. n \in Trashed /\ Trashed \in SUBSET Nodes
  BY DEF Trashed
<1>2. /\ T \subseteq Trashed /\ n \in T
      /\ \A m \in Trashed : parent[m] \in T => m \in T
  BY <1>1, TreeWithin, TreeRoots, TreeClosed DEF Closed
<1>3. TrashedTree(n) = T /\ S \in SUBSET Nodes
  BY <1>1, <1>2 DEF TrashedTree, Nodes
<1> HIDE DEF T
<1>4. \A m \in Trashed' : parent'[m] \in S => m \in S
  <2> SUFFICES ASSUME NEW m \in Trashed', parent'[m] \in S PROVE m \in S
    OBVIOUS
  <2>1. /\ m \in Nodes /\ parent'[m] = parent[m]
        /\ \/ m \in Trashed
           \/ parent[m] \notin Trashed
           \/ m \in Files /\ parent[m] \in targets /\ "late_upload" \in Faults
    BY TrashStays DEF Trashed
  <2>2. parent[m] \in T
    BY <2>1, ConstantsOK DEF TypeOK, Nodes
  <2> QED BY <1>2, <2>1, <2>2
<1> HIDE DEF S
<1>5. n \in S
  BY <1>2 DEF S
<1>6. TrashedTree(n)' \subseteq S
  <2> DEFINE W == S \cap ({n} \cup Trashed')
  <2>1. /\ W \subseteq {n} \cup Trashed' /\ {n} \subseteq W
        /\ \A m \in Trashed' : parent'[m] \in W => m \in W
    BY <1>4, <1>5
  <2> HIDE DEF W
  <2>2. TrashedTree(n)' \subseteq W
    BY <2>1 DEF TrashedTree, Tree, Closed
  <2> QED BY <2>2 DEF W
<1> QED
  BY <1>3, <1>6 DEF S

\* Everything in the trash is below an item that the trash lists.
LEMMA AllListed ==
    ASSUME TypeOK, Structure PROVE TrashListed
<1> DEFINE S == {n \in Trashed : \A e \in entries : n \notin TrashedTree(e)}
<1>1. SUFFICES ASSUME S # {} PROVE FALSE
  BY DEF TrashListed
<1>2. S \in SUBSET Nodes /\ Trashed \in SUBSET Nodes /\ entries \subseteq Nodes
  BY DEF Trashed, TypeOK
<1>3. PICK n \in S : parent[n] \notin S
  BY <1>1, <1>2 DEF Structure, NoCycle
<1>4. n \notin entries
  BY <1>2, <1>3, TrashedTreeWithin DEF Trashed
<1>5. parent[n] \in Trashed
  BY <1>3, <1>4 DEF Structure, TopsListed, Trashed
<1>6. PICK e \in entries : parent[n] \in TrashedTree(e)
  BY <1>3, <1>5
<1>7. TrashedTree(e) = Tree({e}, Trashed) /\ e \in Nodes
  BY <1>2, <1>6 DEF TrashedTree
<1>8. n \in TrashedTree(e)
  BY <1>2, <1>3, <1>6, <1>7, TreeClosed DEF Closed
<1> QED
  BY <1>3, <1>6, <1>8

----------------------------------------------------------------------------
(* Types and favorites                                                      *)

\* The types of the variables hold at first and after every step.
LEMMA TypeStep ==
    /\ Init => TypeOK
    /\ TypeOK /\ Shape /\ [Next]_vars => TypeOK'
<1> USE ConstantsOK DEF TypeOK, Nodes, rows, trash, deletion, history, sentences
<1>1. Init => TypeOK
  BY DEF Init
<1>2. SUFFICES ASSUME TypeOK, Shape, [Next]_vars PROVE TypeOK'
  BY <1>1
<1>3. ASSUME NEW n \in Nodes, NEW d \in Folders, NEW called \in Names,
             CreateFolder(n, d, called)
      PROVE  TypeOK'
  BY <1>2, <1>3 DEF CreateFolder, Insert
<1>4. ASSUME NEW n \in Nodes, NEW d \in Folders, NEW called \in Names,
             FinishUpload(n, d, called) \/ ImportFile(n, d, called)
      PROVE  TypeOK'
  BY <1>2, <1>4 DEF FinishUpload, ImportFile, Insert
<1>5. ASSUME NEW f \in Folders \ {Root}, NEW d \in Folders, NEW called \in Names,
             UpdateFolder(f, d, called)
      PROVE  TypeOK'
  BY <1>2, <1>5 DEF UpdateFolder, WriteUpdate
<1>6. ASSUME NEW batch \in SUBSET Folders, NEW d \in Folders, MoveFolders(batch, d)
      PROVE  TypeOK'
  BY <1>2, <1>6 DEF MoveFolders
<1>7. ASSUME NEW d \in Folders, StartUpload(d) PROVE TypeOK'
  BY <1>2, <1>7 DEF StartUpload
<1>8. ASSUME NEW n \in Nodes, AddFavorite(n) \/ RemoveFavorite(n) PROVE TypeOK'
  BY <1>2, <1>8 DEF AddFavorite, RemoveFavorite
<1>9. ASSUME NEW batch \in SUBSET Nodes, TrashNodes(batch) PROVE TypeOK'
  <2> DEFINE top == {n \in batch : \A m \in batch \ {n} : n \notin Below(m)}
             all == Tree(top, Active)
  <2>1. top \in SUBSET Nodes /\ top \subseteq Active /\ Active \in SUBSET Nodes
    BY <1>9 DEF TrashNodes, Active
  <2>2. all \subseteq Active
    BY <2>1, TreeWithin
  <2>3. /\ life' = [n \in Nodes |-> IF n \in all THEN "trashed" ELSE life[n]]
        /\ entries' = entries \cup top
        /\ origin' = [n \in Nodes |-> IF n \in top THEN parent[n] ELSE origin[n]]
        /\ favorites' \subseteq favorites /\ aged' \subseteq aged
        /\ UNCHANGED <<parent, name, due, targets, bytes, deletion, sentences>>
    BY <1>9 DEF TrashNodes
  <2> HIDE DEF top, all
  <2> QED BY <1>2, <2>1, <2>2, <2>3 DEF Active
<1>10. ASSUME NEW n \in Nodes, RestoreNode(n) PROVE TypeOK'
  <2>1. RestoreParent(n) \in Folders
    BY DEF RestoreParent
  <2>2. TrashedTree(n) \subseteq Trashed
    BY TrashedTreeWithin
  <2>3. /\ life' = [m \in Nodes |-> IF m \in TrashedTree(n) THEN "active" ELSE life[m]]
        /\ parent' = [parent EXCEPT ![n] = RestoreParent(n)]
        /\ entries' = entries \ {n} /\ due' = due \ {n} /\ aged' \subseteq aged
        /\ origin' = [origin EXCEPT ![n] = None]
        /\ UNCHANGED <<name, favorites, targets, bytes, deletion, sentences>>
    BY <1>10 DEF RestoreNode
  <2> QED BY <1>2, <2>1, <2>2, <2>3 DEF Trashed
<1>11. ASSUME NEW n \in Nodes, RequestDeletion(n) PROVE TypeOK'
  <2>1. TrashedTree(n) \subseteq Nodes
    BY TrashedTreeWithin DEF Trashed
  <2> QED BY <1>2, <1>11, <2>1 DEF RequestDeletion
<1>12. CASE SweepTrash
  <2>1. \A n \in Nodes : TrashedTree(n) \subseteq Nodes
    BY TrashedTreeWithin DEF Trashed
  <2>2. UNION {TrashedTree(n) : n \in Expired} \subseteq Nodes
    BY <1>2, <2>1 DEF Expired
  <2> QED BY <1>2, <1>12, <2>2 DEF SweepTrash
<1>13. CASE MonthPasses
  BY <1>2, <1>13 DEF MonthPasses, Trashed
<1>14. ASSUME NEW n \in Nodes, ListKeys(n) PROVE TypeOK'
  <2>1. TrashedTree(n) \subseteq Nodes
    BY TrashedTreeWithin DEF Trashed
  <2> QED BY <1>2, <1>14, <2>1 DEF ListKeys
<1>15. ASSUME NEW n \in Nodes, NEW f \in Files, DeleteObject(n, f) PROVE TypeOK'
  BY <1>2, <1>15 DEF DeleteObject
<1>16. ASSUME NEW n \in Nodes, PurgeRows(n) PROVE TypeOK'
  BY <1>2, <1>16 DEF PurgeRows
<1>17. ASSUME NEW n \in Nodes, PurgeFails(n) PROVE TypeOK'
  BY <1>2, <1>17 DEF PurgeFails
<1>18. CASE UNCHANGED vars
  BY <1>2, <1>18 DEF vars
<1> QED
  BY <1>2, <1>3, <1>4, <1>5, <1>6, <1>7, <1>8, <1>9, <1>10, <1>11, <1>12, <1>13, <1>14,
     <1>15, <1>16, <1>17, <1>18 DEF Next, Transaction, Handler

\* Only active nodes are favorites, before and after every step.
LEMMA FavoritesStep ==
    ASSUME TypeOK, FavoritesActive, [Next]_vars
    PROVE  FavoritesActive'
<1> USE DEF TypeOK, FavoritesActive, Active, rows, trash
<1>1. ASSUME NEW n \in Nodes, NEW d \in Folders, NEW called \in Names,
             CreateFolder(n, d, called) \/ FinishUpload(n, d, called)
                \/ ImportFile(n, d, called)
      PROVE  FavoritesActive'
  BY <1>1 DEF CreateFolder, FinishUpload, ImportFile, Insert
<1>2. ASSUME NEW f \in Folders \ {Root}, NEW d \in Folders, NEW called \in Names,
             UpdateFolder(f, d, called)
      PROVE  FavoritesActive'
  BY <1>2 DEF UpdateFolder, WriteUpdate
<1>3. ASSUME NEW batch \in SUBSET Folders, NEW d \in Folders, MoveFolders(batch, d)
      PROVE  FavoritesActive'
  BY <1>3 DEF MoveFolders
<1>4. ASSUME NEW n \in Nodes,
             StartUpload(n) \/ AddFavorite(n) \/ RemoveFavorite(n) \/ RequestDeletion(n)
                \/ ListKeys(n) \/ PurgeFails(n) \/ (\E f \in Files : DeleteObject(n, f))
      PROVE  FavoritesActive'
  BY <1>4 DEF StartUpload, AddFavorite, RemoveFavorite, RequestDeletion, ListKeys,
              PurgeFails, DeleteObject
<1>5. ASSUME NEW batch \in SUBSET Nodes, TrashNodes(batch) PROVE FavoritesActive'
  BY <1>5 DEF TrashNodes
<1>6. ASSUME NEW n \in Nodes, RestoreNode(n) PROVE FavoritesActive'
  BY <1>6 DEF RestoreNode
<1>7. ASSUME NEW n \in Nodes, PurgeRows(n) PROVE FavoritesActive'
  BY <1>7 DEF PurgeRows
<1>8. CASE SweepTrash \/ MonthPasses \/ UNCHANGED vars
  BY <1>8 DEF SweepTrash, MonthPasses, vars
<1>9. Folders \subseteq Nodes
  BY DEF Nodes
<1> QED
  BY <1>1, <1>2, <1>3, <1>4, <1>5, <1>6, <1>7, <1>8, <1>9 DEF Next, Transaction, Handler

----------------------------------------------------------------------------
(* Deletions                                                                *)

\* Steps that neither condemn nor delete keep clear of what is condemned.
LEMMA ApartStep ==
    ASSUME TypeOK, Sentenced, "late_restore" \notin Faults,
           \/ \E n \in Nodes, d \in Folders : NewNode(n, d)
           \/ \E batch \in SUBSET Folders, d \in Folders : Moved(batch, d)
           \/ \E batch \in SUBSET Nodes : TrashNodes(batch)
           \/ \E n \in Nodes : RestoreNode(n)
           \/ UNCHANGED <<life, parent, entries>>
    PROVE  /\ \A m \in Condemned : life'[m] = "trashed"
           /\ \A n \in Nodes : purge[n] # "none" => life'[n] = life[n]
<1> USE DEF TypeOK
<1> DEFINE Apart == /\ \A m \in Condemned : life'[m] = "trashed"
                    /\ \A n \in Nodes : purge[n] # "none" => life'[n] = life[n]
<1>1. /\ \A m \in Condemned : m \in Nodes /\ life[m] = "trashed"
      /\ \A n \in Nodes : purge[n] # "none" => life[n] \in {"trashed", "absent"}
  BY DEF Sentenced, Trashed, Nodes
<1>2. ASSUME NEW n \in Nodes, NEW d \in Folders, NewNode(n, d) PROVE Apart
  BY <1>1, <1>2 DEF NewNode, FreshId
<1>3. ASSUME NEW batch \in SUBSET Folders, NEW d \in Folders, Moved(batch, d) PROVE Apart
  BY <1>1, <1>3 DEF Moved
<1>4. ASSUME NEW batch \in SUBSET Nodes, TrashNodes(batch) PROVE Apart
  <2> DEFINE top == {m \in batch : \A k \in batch \ {m} : m \notin Below(k)}
             all == Tree(top, Active)
  <2>1. top \in SUBSET Nodes /\ top \subseteq Active /\ Active \in SUBSET Nodes
    BY <1>4 DEF TrashNodes, Active
  <2>2. all \subseteq Active
    BY <2>1, TreeWithin
  <2>3. \A m \in Nodes : life'[m] = IF m \in all THEN "trashed" ELSE life[m]
    BY <1>4 DEF TrashNodes
  <2> HIDE DEF top, all
  <2> QED BY <1>1, <2>2, <2>3 DEF Active
<1>5. ASSUME NEW m \in Nodes, RestoreNode(m) PROVE Apart
  <2>1. TrashedTree(m) \cap Condemned = {} /\ TrashedTree(m) \subseteq Trashed
    BY <1>5, TrashedTreeWithin DEF RestoreNode
  <2>2. \A c \in Nodes : life'[c] = IF c \in TrashedTree(m) THEN "active" ELSE life[c]
    BY <1>5 DEF RestoreNode
  <2>3. \A n \in Nodes : purge[n] # "none" /\ life[n] = "trashed" => n \in Condemned
    BY TrashedTreeWithin DEF Sentenced
  <2> QED BY <1>1, <2>1, <2>2, <2>3 DEF Trashed
<1>6. ASSUME UNCHANGED <<life, parent, entries>> PROVE Apart
  BY <1>1, <1>6
<1> QED
  BY <1>2, <1>3, <1>4, <1>5, <1>6

\* A step of the deletion machinery leaves the rows of others alone; any other
\* step leaves the machinery alone, and adds the bytes of the file it adds.
LEMMA StepSides ==
    ASSUME TypeOK, TargetsKept, [Next]_vars
    PROVE  \/ /\ UNCHANGED <<purge, keys, sentences>>
              /\ \A m \in Nodes : life[m] # "absent" => life'[m] # "absent"
              /\ \/ /\ bytes' = bytes
                    /\ \A f \in Files : life[f] = "absent" => life'[f] = "absent"
                 \/ \E f \in Files :
                       /\ bytes' = bytes \cup {f} /\ \A n \in Nodes : f \notin keys[n]
                       /\ life[f] = "absent" /\ life' = [life EXCEPT ![f] = "active"]
              /\ \/ \E n \in Nodes, d \in Folders : NewNode(n, d)
                 \/ \E batch \in SUBSET Folders, d \in Folders : Moved(batch, d)
                 \/ \E batch \in SUBSET Nodes : TrashNodes(batch)
                 \/ \E n \in Nodes : RestoreNode(n)
                 \/ UNCHANGED <<life, parent, entries>>
           \/ \E n \in Nodes : RequestDeletion(n)
           \/ SweepTrash
           \/ \E n \in Nodes : Handler(n)
<1> USE DEF TypeOK, rows, trash, deletion, history, sentences
<1> DEFINE Apart == /\ UNCHANGED <<purge, keys, sentences>>
                    /\ \A m \in Nodes : life[m] # "absent" => life'[m] # "absent"
                    /\ \/ /\ bytes' = bytes
                          /\ \A f \in Files : life[f] = "absent" => life'[f] = "absent"
                       \/ \E f \in Files :
                             /\ bytes' = bytes \cup {f} /\ \A n \in Nodes : f \notin keys[n]
                             /\ life[f] = "absent" /\ life' = [life EXCEPT ![f] = "active"]
<1>1. ASSUME NEW n \in Nodes, NEW d \in Folders, NEW called \in Names,
             CreateFolder(n, d, called)
      PROVE  Apart
  BY <1>1, ConstantsOK DEF CreateFolder, Insert
<1>2. ASSUME NEW n \in Nodes, NEW d \in Folders, NEW called \in Names,
             FinishUpload(n, d, called) \/ ImportFile(n, d, called)
      PROVE  Apart
  <2>1. n \in Files /\ bytes' = bytes \cup {n}
    BY <1>2 DEF FinishUpload, ImportFile
  <2>2. /\ life[n] = "absent" /\ life' = [life EXCEPT ![n] = "active"]
        /\ \A m \in Nodes : n \notin keys[m]
    BY <1>2 DEF FinishUpload, ImportFile, Insert, FreshId
  <2>3. UNCHANGED <<purge, keys, sentences>>
    BY <1>2 DEF FinishUpload, ImportFile
  <2>4. \A m \in Nodes : life[m] # "absent" => life'[m] # "absent"
    BY <2>2
  <2> QED BY <2>1, <2>2, <2>3, <2>4
<1>3. ASSUME NEW f \in Folders, NEW d \in Folders, NEW called \in Names,
             UpdateFolder(f, d, called)
      PROVE  Apart
  BY <1>3 DEF UpdateFolder, WriteUpdate
<1>4. ASSUME NEW batch \in SUBSET Folders, NEW d \in Folders, MoveFolders(batch, d)
      PROVE  Apart
  BY <1>4 DEF MoveFolders
<1>5. ASSUME NEW n \in Nodes, StartUpload(n) \/ AddFavorite(n) \/ RemoveFavorite(n)
      PROVE  Apart
  BY <1>5 DEF StartUpload, AddFavorite, RemoveFavorite
<1>6. ASSUME NEW batch \in SUBSET Nodes, TrashNodes(batch) PROVE Apart
  <2> DEFINE top == {m \in batch : \A k \in batch \ {m} : m \notin Below(k)}
             all == Tree(top, Active)
  <2>1. top \in SUBSET Nodes /\ top \subseteq Active /\ Active \in SUBSET Nodes
    BY <1>6 DEF TrashNodes, Active
  <2>2. all \subseteq Active
    BY <2>1, TreeWithin
  <2>3. \A m \in Nodes : life'[m] = IF m \in all THEN "trashed" ELSE life[m]
    BY <1>6 DEF TrashNodes
  <2>4. UNCHANGED <<purge, keys, sentences, bytes>>
    BY <1>6 DEF TrashNodes
  <2> HIDE DEF top, all
  <2> QED BY <2>2, <2>3, <2>4 DEF Active, Nodes
<1>7. ASSUME NEW n \in Nodes, RestoreNode(n) PROVE Apart
  <2>1. TrashedTree(n) \subseteq Trashed
    BY TrashedTreeWithin
  <2>2. \A m \in Nodes : life'[m] = IF m \in TrashedTree(n) THEN "active" ELSE life[m]
    BY <1>7 DEF RestoreNode
  <2>3. UNCHANGED <<purge, keys, sentences, bytes>>
    BY <1>7 DEF RestoreNode
  <2> QED BY <2>1, <2>2, <2>3 DEF Trashed, Nodes
<1>8. CASE MonthPasses \/ UNCHANGED vars
  <2>1. Apart
    BY <1>8 DEF MonthPasses, vars
  <2>2. UNCHANGED <<life, parent, entries>>
    BY <1>8 DEF MonthPasses, vars
  <2> QED BY <2>1, <2>2
<1>9. CASE (\E n \in Nodes : RequestDeletion(n)) \/ SweepTrash \/ (\E n \in Nodes : Handler(n))
  BY <1>9
<1>10. CASE Transaction /\ ~ \E n \in Nodes : RequestDeletion(n)
  <2>1. Apart
    BY <1>1, <1>2, <1>3, <1>4, <1>5, <1>6, <1>7, <1>10 DEF Transaction, Nodes
  <2>2. \/ \E n \in Nodes, d \in Folders : NewNode(n, d)
        \/ \E batch \in SUBSET Folders, d \in Folders : Moved(batch, d)
        \/ \E batch \in SUBSET Nodes : TrashNodes(batch)
        \/ \E n \in Nodes : RestoreNode(n)
        \/ \E n \in Nodes : PurgeRows(n)
        \/ UNCHANGED <<life, parent, entries>>
    BY StepKinds
  <2> QED BY <2>1, <2>2 DEF Handler
<1> QED
  BY <1>8, <1>9, <1>10 DEF Next

Served == ListsKnown /\ Kept

\* Whatever is restored and wherever uploads complete, only what a handler has
\* listed loses its object.
LEMMA ServedStep ==
    ASSUME TypeOK, Structure, Served, [Next]_vars
    PROVE  Served'
<1> USE DEF rows, trash, deletion, history, sentences
<1>1. /\ bytes \subseteq Files /\ Files \subseteq Nodes
      /\ \A n \in Nodes : keys[n] \subseteq Files
      /\ \A f \in Files : life[f] # "absent" => f \in bytes \/ f \in listed
      /\ \A n \in Nodes : \A f \in keys[n] : life[f] = "absent" \/ f \in listed
  BY DEF TypeOK, Nodes, Served, ListsKnown, Kept
<1>2. CASE /\ UNCHANGED <<keys, sentences>>
           /\ \A m \in Nodes : life[m] # "absent" => life'[m] # "absent"
           /\ \/ /\ bytes' = bytes
                 /\ \A f \in Files : life[f] = "absent" => life'[f] = "absent"
              \/ \E f \in Files :
                    /\ bytes' = bytes \cup {f} /\ \A n \in Nodes : f \notin keys[n]
                    /\ life[f] = "absent" /\ life' = [life EXCEPT ![f] = "active"]
  BY <1>1, <1>2 DEF Served, ListsKnown, Kept, TypeOK
<1>3. ASSUME NEW n \in Nodes, RequestDeletion(n) PROVE Served'
  BY <1>1, <1>3 DEF RequestDeletion, Served, ListsKnown, Kept
<1>4. CASE SweepTrash
  BY <1>1, <1>4 DEF SweepTrash, Served, ListsKnown, Kept
<1>5. ASSUME NEW n \in Nodes, ListKeys(n) PROVE Served'
  BY <1>1, <1>5 DEF ListKeys, Served, ListsKnown, Kept, TypeOK
<1>6. ASSUME NEW n \in Nodes, NEW f \in Files, DeleteObject(n, f) PROVE Served'
  BY <1>1, <1>6 DEF DeleteObject, Served, ListsKnown, Kept, TypeOK
<1>7. ASSUME NEW n \in Nodes, PurgeRows(n) PROVE Served'
  <2> DEFINE gone == TrashedTree(n)
  <2>1. /\ \A m \in Nodes : life'[m] = IF m \in gone THEN "absent" ELSE life[m]
        /\ listed' = listed \ gone /\ UNCHANGED <<bytes, keys>>
    BY <1>7 DEF PurgeRows
  <2> HIDE DEF gone
  <2> QED BY <1>1, <2>1 DEF Served, ListsKnown, Kept
<1>8. ASSUME NEW n \in Nodes, PurgeFails(n) PROVE Served'
  BY <1>1, <1>8 DEF PurgeFails, Served, ListsKnown, Kept, TypeOK
<1> QED
  BY <1>2, <1>3, <1>4, <1>5, <1>6, <1>7, <1>8, StepSides DEF Handler, Structure

----------------------------------------------------------------------------
(* Deletions among late uploads                                             *)

\* What hangs in a trashed tree after the step, other than its top, does so
\* because of its parent.
LEMMA ParentAfter ==
    ASSUME NEW n \in Nodes, NEW c \in TrashedTree(n)'
    PROVE  /\ c \in Trashed' /\ n \in TrashedTree(n)'
           /\ c # n => parent'[c] \in TrashedTree(n)'
<1> DEFINE T == TrashedTree(n)'
<1>1. life'[n] = "trashed" /\ n \in Trashed' /\ Trashed' \in SUBSET Nodes
  BY DEF TrashedTree, Trashed
<1>2. /\ T \subseteq Trashed' /\ n \in T
      /\ \A m \in Trashed' : parent'[m] \in T => m \in T
      /\ \A S \in SUBSET Trashed' :
            n \in S /\ (\A m \in Trashed' : parent'[m] \in S => m \in S) => T \subseteq S
  <2>1. {n} \cup Trashed' = Trashed'
    BY <1>1
  <2> QED BY <1>1, <2>1 DEF TrashedTree, Tree, Closed
<1> HIDE DEF T
<1>3. c \in Trashed'
  BY <1>2 DEF T
<1>4. ASSUME c # n, parent'[c] \notin T PROVE FALSE
  <2> DEFINE S == T \ {c}
  <2>1. S \in SUBSET Trashed' /\ n \in S /\ \A m \in Trashed' : parent'[m] \in S => m \in S
    BY <1>2, <1>4
  <2> HIDE DEF S
  <2>2. T \subseteq S
    BY <1>2, <2>1
  <2> QED BY <2>2 DEF S, T
<1> QED
  BY <1>2, <1>3, <1>4 DEF T

\* A target of a session in a tree whose deletion is under way stays in it: the
\* folders on the way to it are condemned, so they neither move nor come back,
\* and no purge takes one without taking the target.
LEMMA TargetsHold ==
    ASSUME TypeOK, Structure, Sentenced, [Next]_vars,
           NEW gone \in SUBSET Nodes, gone \cap targets = {},
           \A c \in Nodes : parent[c] \in gone => c \in gone,
           \A c \in Condemned \ gone : life'[c] = "trashed",
           NEW n \in Nodes, purge[n] # "none", TrashedTree(n) \cap targets # {}
    PROVE  TrashedTree(n)' \cap targets' # {}
<1> DEFINE T == Tree({n}, Trashed)
           After == TrashedTree(n)'
           S == {c \in T : c \in After \/ c \in gone \/ (c # n /\ c \in Files)}
<1>1. PICK d \in targets : d \in TrashedTree(n)
  OBVIOUS
<1>2. life[n] = "trashed" /\ n \in Trashed /\ Trashed \in SUBSET Nodes /\ TrashedTree(n) = T
  BY <1>1 DEF TrashedTree, Trashed
<1>3. /\ T \subseteq Trashed /\ n \in T
      /\ \A c \in Trashed : parent[c] \in T => c \in T
  BY <1>2, TreeWithin, TreeRoots, TreeClosed DEF Closed
<1>4. \A c \in T : c = n \/ c \in Folders => c \in Condemned
  BY <1>2 DEF Sentenced
<1>5. \A c \in T : (c = n \/ c \in Folders) /\ c \notin gone =>
          c \in Trashed' /\ parent'[c] = parent[c]
  BY <1>2, <1>3, <1>4, TrashStays DEF Trashed
<1>6. n \notin gone => n \in After
  <2> SUFFICES ASSUME n \notin gone PROVE n \in After
    OBVIOUS
  <2>1. life'[n] = "trashed"
    BY <1>3, <1>5 DEF Trashed
  <2> QED BY <2>1 DEF TrashedTree, Tree
<1>7. \A c \in Trashed' : parent'[c] \in After => c \in After
  <2>1. Trashed' \in SUBSET Nodes
    BY DEF Trashed
  <2> QED BY <2>1 DEF TrashedTree, Tree, Closed
<1> HIDE DEF T, After
<1>8. S \in SUBSET Nodes /\ n \in S
  BY <1>2, <1>3, <1>6
<1>9. Closed(S, Trashed)
  <2> SUFFICES ASSUME NEW c \in Trashed, parent[c] \in S PROVE c \in S
    BY DEF Closed
  <2>1. c \in T /\ c \in Nodes /\ parent[c] \in Folders \cup {None}
    BY <1>2, <1>3 DEF TypeOK
  <2>2. parent[c] \in After \/ parent[c] \in gone
    BY <1>8, <2>1, ConstantsOK
  <2>3. c \in gone \/ c = n \/ c \in Files \/ c \in Folders
    BY <2>1 DEF Nodes
  <2> QED BY <1>5, <1>7, <1>8, <2>1, <2>2, <2>3
<1> HIDE DEF S
<1>10. T \subseteq S
  BY <1>2, <1>8, <1>9, TreeLeast DEF T
<1>11. d \in After
  <2>1. d \in T /\ d \in Folders /\ d \notin gone
    BY <1>1, <1>2 DEF TypeOK
  <2>2. d \in S /\ d \notin Files
    BY <1>10, <2>1, ConstantsOK
  <2> QED BY <2>1, <2>2 DEF S
<1>12. d \in targets'
  BY <1>1, TargetsStep
<1> QED
  BY <1>11, <1>12 DEF After

Purges == Sentenced /\ HeldOrListed /\ NoLeak

\* Steps that change rows, a purge of the tree gone or one outside of the
\* deletion machinery, leave the trees of the others condemned, held or listed.
LEMMA RowsStep ==
    ASSUME TypeOK, Structure, Purges, [Next]_vars,
           NEW gone \in SUBSET Nodes, gone \cap targets = {},
           \A c \in Nodes : parent[c] \in gone => c \in gone,
           \A c \in Condemned \ gone : life'[c] = "trashed",
           Condemned' = Condemned \ gone, \A c \in gone : life'[c] # "trashed",
           \A n \in Nodes : purge'[n] # "none" => purge'[n] = purge[n],
           keys' = keys, \A f \in bytes' \ bytes : life'[f] = "active",
           \A n \in Nodes : purge[n] # "none" =>
               life'[n] # "active" /\ (life'[n] = "trashed" => life[n] = "trashed")
    PROVE  Sentenced' /\ HeldOrListed'
<1>1. ASSUME NEW n \in Nodes, NEW c \in TrashedTree(n)', purge[n] # "none"
      PROVE  /\ life[n] = "trashed" /\ life'[n] = "trashed" /\ c \in Trashed'
             /\ c \notin TrashedTree(n) =>
                    c \in Files /\ TrashedTree(n)' \cap targets' # {}
  <2>1. n \in Trashed' /\ c \in Trashed' /\ (c # n => parent'[c] \in TrashedTree(n)')
    BY <1>1, ParentAfter
  <2>2. life'[n] = "trashed" /\ life[n] = "trashed"
    BY <1>1, <2>1 DEF Trashed
  <2>3. n \in TrashedTree(n)
    BY <2>2, TrashedTreeWithin
  <2>4. ASSUME c \notin TrashedTree(n)
        PROVE  c \in Files /\ TrashedTree(n)' \cap targets' # {}
    <3>1. c \in Files /\ parent'[c] \in targets
      BY <2>2, <2>4, TreeGrows
    <3>2. parent'[c] \in targets'
      BY <3>1, TargetsStep
    <3> QED BY <2>1, <2>3, <2>4, <3>1, <3>2
  <2> QED BY <2>1, <2>2, <2>4
<1>2. Sentenced'
  <2>1. Condemned' \subseteq Trashed'
    BY DEF Purges, Sentenced, Trashed
  <2>2. ASSUME NEW n \in Nodes, purge'[n] # "none", NEW m \in TrashedTree(n)',
               m = n \/ m \in Folders
        PROVE  m \in Condemned'
    <3>1. purge[n] # "none"
      BY <2>2
    <3>2. m \in TrashedTree(n)
      BY <1>1, <2>2, <3>1, TrashedTreeWithin, ConstantsOK
    <3>3. m \in Condemned /\ m \notin gone
      BY <1>1, <2>2, <3>1, <3>2 DEF Purges, Sentenced, Trashed
    <3> QED BY <3>3
  <2> QED BY <2>1, <2>2 DEF Sentenced
<1>3. ASSUME NEW n \in Nodes, purge'[n] = "deleting"
      PROVE  \/ TrashedTree(n)' \cap bytes' \subseteq keys'[n] /\ TrashedTree(n)' \subseteq Condemned'
             \/ TrashedTree(n)' \cap targets' # {}
  <2>1. purge[n] = "deleting"
    BY <1>3
  <2>2. CASE TrashedTree(n) \cap targets # {}
    BY <2>1, <2>2, TargetsHold DEF Purges
  <2>3. CASE TrashedTree(n) \cap bytes \subseteq keys[n] /\ TrashedTree(n) \subseteq Condemned
    <3> SUFFICES ASSUME NEW f \in TrashedTree(n)', TrashedTree(n)' \cap targets' = {}
                 PROVE  (f \in bytes' => f \in keys'[n]) /\ f \in Condemned'
      OBVIOUS
    <3>1. f \in TrashedTree(n) /\ f \in Trashed'
      BY <1>1, <2>1
    <3>2. f \in bytes' => f \in bytes
      BY <3>1 DEF Trashed
    <3>3. f \in Condemned /\ f \notin gone
      BY <2>3, <3>1 DEF Trashed
    <3> QED BY <2>3, <3>1, <3>2, <3>3
  <2> QED BY <2>1, <2>2, <2>3 DEF Purges, HeldOrListed
<1> QED
  BY <1>2, <1>3 DEF HeldOrListed

\* Steps of the deletion machinery that leave rows and targets alone.
LEMMA MachineryStep ==
    ASSUME TypeOK, Purges, NEW n \in Nodes,
           \/ RequestDeletion(n) \/ SweepTrash \/ ListKeys(n) \/ PurgeFails(n)
           \/ \E f \in Files : DeleteObject(n, f)
    PROVE  Purges'
<1> USE DEF rows, trash, deletion, history, sentences
<1>1. /\ UNCHANGED <<rows, targets>>
      /\ Trashed' = Trashed /\ \A m \in Nodes : TrashedTree(m)' = TrashedTree(m)
  <2>1. UNCHANGED <<rows, targets>>
    BY DEF RequestDeletion, SweepTrash, ListKeys, PurgeFails, DeleteObject
  <2> QED BY <2>1 DEF Trashed, TrashedTree, Tree, Closed
<1>2. /\ bytes \subseteq Files /\ bytes' \subseteq bytes
      /\ \A m \in Nodes : TrashedTree(m) \subseteq Trashed
  BY TrashedTreeWithin DEF TypeOK, RequestDeletion, SweepTrash, ListKeys, PurgeFails, DeleteObject
<1>3. NoLeak'
  BY <1>1, <1>2 DEF Purges, NoLeak
<1>4. CASE RequestDeletion(n)
  <2>1. /\ UNCHANGED <<bytes, keys>> /\ life[n] = "trashed"
        /\ purge' = [purge EXCEPT ![n] = "queued"]
        /\ Condemned' = Condemned \cup TrashedTree(n)
    BY <1>4 DEF RequestDeletion, Condemned
  <2>2. Sentenced'
    BY <1>1, <1>2, <2>1 DEF Purges, Sentenced, TypeOK
  <2>3. HeldOrListed'
    BY <1>1, <2>1 DEF Purges, HeldOrListed, TypeOK
  <2> QED BY <1>3, <2>2, <2>3 DEF Purges
<1>5. CASE SweepTrash
  <2>1. /\ UNCHANGED <<bytes, keys>>
        /\ purge' = [m \in Nodes |-> IF m \in Expired THEN "queued" ELSE purge[m]]
        /\ Condemned' = Condemned \cup UNION {TrashedTree(m) : m \in Expired}
    BY <1>5 DEF SweepTrash, Condemned
  <2>2. /\ \A m \in Expired : m \in Nodes /\ life[m] = "trashed"
        /\ Condemned \subseteq Condemned'
        /\ \A m \in Expired : TrashedTree(m) \subseteq Condemned'
    BY <2>1 DEF Expired, TypeOK
  <2>3. Condemned' \subseteq Trashed
    BY <1>2, <2>1, <2>2 DEF Purges, Sentenced
  <2>4. Sentenced'
    BY <1>1, <2>1, <2>2, <2>3 DEF Purges, Sentenced
  <2>5. HeldOrListed'
    BY <1>1, <2>1 DEF Purges, HeldOrListed
  <2> QED BY <1>3, <2>4, <2>5 DEF Purges
<1>6. CASE ListKeys(n)
  <2>1. /\ UNCHANGED bytes /\ Condemned' = Condemned \cup TrashedTree(n) /\ purge[n] = "queued"
        /\ purge' = [purge EXCEPT ![n] = IF TrashedTree(n) = {} THEN "none" ELSE "deleting"]
        /\ keys' = [keys EXCEPT ![n] = TrashedTree(n) \cap Files]
    BY <1>6 DEF ListKeys, Condemned
  <2>2. Sentenced'
    BY <1>1, <1>2, <2>1 DEF Purges, Sentenced, TypeOK
  <2>3. HeldOrListed'
    BY <1>1, <1>2, <2>1 DEF Purges, HeldOrListed, TypeOK
  <2> QED BY <1>3, <2>2, <2>3 DEF Purges
<1>7. ASSUME NEW f \in Files, DeleteObject(n, f) PROVE Purges'
  <2>1. /\ bytes' = bytes \ {f} /\ Condemned' = Condemned /\ UNCHANGED purge
        /\ keys' = [keys EXCEPT ![n] = keys[n] \ {f}]
    BY <1>7 DEF DeleteObject, Condemned
  <2>2. Sentenced'
    BY <1>1, <2>1 DEF Purges, Sentenced
  <2>3. HeldOrListed'
    BY <1>1, <2>1 DEF Purges, HeldOrListed, TypeOK
  <2> QED BY <1>3, <2>2, <2>3 DEF Purges
<1>8. CASE PurgeFails(n)
  <2>1. /\ UNCHANGED bytes /\ Condemned' = Condemned /\ purge[n] = "deleting"
        /\ keys' = [keys EXCEPT ![n] = {}]
        /\ \A m \in Nodes : IF m = n THEN purge'[m] # "deleting" ELSE purge'[m] = purge[m]
    BY <1>8 DEF PurgeFails, Condemned, TypeOK
  <2>2. Sentenced'
    BY <1>1, <2>1 DEF Purges, Sentenced
  <2>3. HeldOrListed'
    BY <1>1, <2>1 DEF Purges, HeldOrListed, TypeOK
  <2> QED BY <1>3, <2>2, <2>3 DEF Purges
<1> QED
  BY <1>4, <1>5, <1>6, <1>7, <1>8

\* No step leaks bytes, wherever uploads complete.
LEMMA PurgesStep ==
    ASSUME TypeOK, Structure, Purges, "late_restore" \notin Faults, [Next]_vars
    PROVE  Purges'
<1>1. bytes \subseteq Files /\ Files \subseteq Nodes /\ Condemned \subseteq Nodes
  BY DEF TypeOK, Nodes, Condemned
<1>2. ASSUME NEW n \in Nodes, PurgeRows(n) PROVE Purges'
  <2> DEFINE gone == TrashedTree(n)
  <2>1. /\ \A m \in Nodes : life'[m] = IF m \in gone THEN "absent" ELSE life[m]
        /\ \A m \in Nodes : purge'[m] # "none" => purge'[m] = purge[m]
        /\ Condemned' = Condemned \ gone
        /\ bytes' = bytes /\ keys' = keys
    BY <1>2 DEF PurgeRows, TypeOK, Condemned
  <2>2. purge[n] = "deleting" /\ keys[n] = {} /\ gone \cap targets = {}
        /\ \A c \in Nodes : parent[c] \in gone => c \in gone
    BY <1>2 DEF PurgeRows, Restricted
  <2>3. gone \in SUBSET Nodes
    BY TrashedTreeWithin DEF Trashed
  <2>4. gone \cap bytes = {}
    BY <2>2 DEF Purges, HeldOrListed
  <2> HIDE DEF gone
  <2>5. NoLeak'
    BY <1>1, <2>1, <2>4 DEF Purges, NoLeak
  <2>6. /\ \A c \in Condemned \ gone : life'[c] = "trashed"
        /\ \A c \in gone : life'[c] # "trashed"
        /\ \A m \in Nodes : purge[m] # "none" =>
               life'[m] # "active" /\ (life'[m] = "trashed" => life[m] = "trashed")
    BY <1>1, <2>1, <2>3 DEF Purges, Sentenced, Trashed
  <2>7. Sentenced' /\ HeldOrListed'
    BY <2>1, <2>2, <2>3, <2>6, RowsStep
  <2> QED BY <2>5, <2>7 DEF Purges
<1>3. CASE /\ UNCHANGED <<purge, keys, sentences>>
           /\ \A m \in Nodes : life[m] # "absent" => life'[m] # "absent"
           /\ \/ /\ bytes' = bytes
                 /\ \A f \in Files : life[f] = "absent" => life'[f] = "absent"
              \/ \E f \in Files :
                    /\ bytes' = bytes \cup {f} /\ \A n \in Nodes : f \notin keys[n]
                    /\ life[f] = "absent" /\ life' = [life EXCEPT ![f] = "active"]
           /\ \/ \E n \in Nodes, d \in Folders : NewNode(n, d)
              \/ \E batch \in SUBSET Folders, d \in Folders : Moved(batch, d)
              \/ \E batch \in SUBSET Nodes : TrashNodes(batch)
              \/ \E n \in Nodes : RestoreNode(n)
              \/ UNCHANGED <<life, parent, entries>>
  <2>1. /\ \A m \in Condemned : life'[m] = "trashed"
        /\ \A n \in Nodes : purge[n] # "none" => life'[n] = life[n]
    BY <1>3, ApartStep DEF Purges
  <2>2. Condemned' = Condemned /\ \A f \in bytes' \ bytes : life'[f] = "active"
    BY <1>1, <1>3 DEF Condemned, TypeOK, sentences
  <2>3. NoLeak'
    BY <1>1, <1>3 DEF Purges, NoLeak, TypeOK
  <2>4. \A n \in Nodes : purge[n] # "none" =>
            life'[n] # "active" /\ (life'[n] = "trashed" => life[n] = "trashed")
    BY <2>1 DEF Purges, Sentenced
  <2> DEFINE gone == {}
  <2>5. /\ gone \in SUBSET Nodes /\ gone \cap targets = {}
        /\ \A c \in Nodes : parent[c] \in gone => c \in gone
        /\ \A c \in Condemned \ gone : life'[c] = "trashed"
        /\ Condemned' = Condemned \ gone /\ \A c \in gone : life'[c] # "trashed"
    BY <2>1, <2>2
  <2> HIDE DEF gone
  <2>6. Sentenced' /\ HeldOrListed'
    BY <1>3, <2>2, <2>4, <2>5, RowsStep
  <2> QED BY <2>3, <2>6 DEF Purges
<1>4. Root \in Nodes
  BY ConstantsOK DEF Nodes
<1> QED
  BY <1>2, <1>3, <1>4, StepSides, MachineryStep DEF Structure, Handler

----------------------------------------------------------------------------
(* Theorems                                                                 *)

\* All of it holds at first.
LEMMA AtFirst ==
    ASSUME Init PROVE TypeOK /\ Structure /\ FavoritesActive /\ Served /\ Purges
<1> USE ConstantsOK DEF Init
<1>1. TypeOK
  BY TypeStep
<1>2. Root \in Nodes /\ \A n \in Nodes : parent[n] \notin Nodes
  BY DEF Nodes
<1>3. Shape /\ Hangs /\ NoCycle /\ TopsListed /\ TargetsKept
  BY <1>2 DEF Shape, Hangs, NoCycle, TopsListed, TargetsKept, Active, Trashed
<1>4. FavoritesActive
  BY DEF FavoritesActive
<1>5. \A n \in Nodes : TrashedTree(n) = {}
  BY <1>2, TrashedTreeWithin
<1>6. Condemned = {} /\ \A f \in Files : life[f] = "absent"
  BY DEF Condemned, Nodes
<1>7. ListsKnown /\ Kept /\ Sentenced /\ HeldOrListed /\ NoLeak
  BY <1>5, <1>6 DEF ListsKnown, Kept, Sentenced, HeldOrListed, NoLeak
<1> QED
  BY <1>1, <1>3, <1>4, <1>7 DEF Structure, Served, Purges

\* Types and the structure of the tree, together inductive, whatever faults
\* happen.
THEOREM TreeInvariant == Spec => [](TypeOK /\ Structure)
<1>1. Init => TypeOK /\ Structure
  BY AtFirst
<1>2. TypeOK /\ Structure /\ [Next]_vars => (TypeOK /\ Structure)'
  BY TypeStep, StructureStep DEF Structure
<1> QED
  BY <1>1, <1>2, PTL DEF Spec

\* The variables keep their types.
THEOREM TypeCorrect == Spec => []TypeOK
  BY TreeInvariant, PTL

\* Whatever is created, moved, trashed, restored and purged, and wherever
\* uploads complete, parents form no cycle: the search of update_folder and
\* move_folders for the new parent below what is moved is enough.
THEOREM NoCycleCorrect == Spec => []NoCycle
<1>1. TypeOK /\ Structure => NoCycle
  BY DEF Structure
<1> QED
  BY <1>1, TreeInvariant, PTL

\* As long as sessions complete outside of the trash, active nodes hang in
\* active folders as well.
THEOREM RootedCorrect ==
    ASSUME "late_upload" \notin Faults PROVE Spec => []Rooted
<1>1. TypeOK /\ Structure => Rooted
  BY DEF Structure, Hangs, Rooted, ParentsActive
<1> QED
  BY <1>1, TreeInvariant, PTL

\* Everything in the trash is part of an item that the trash lists.
THEOREM TrashListedCorrect == Spec => []TrashListed
<1>1. TypeOK /\ Structure => TrashListed
  BY AllListed
<1> QED
  BY <1>1, TreeInvariant, PTL

\* Favorites do not survive trash.
THEOREM FavoritesCorrect == Spec => []FavoritesActive
<1>1. Init => FavoritesActive
  BY AtFirst
<1>2. TypeOK /\ FavoritesActive /\ [Next]_vars => FavoritesActive'
  BY FavoritesStep
<1> QED
  BY <1>1, <1>2, TreeInvariant, PTL DEF Spec

\* Whatever faults happen, a file that is not there any more, or not with its
\* bytes, was on the list of a deletion handler.
THEOREM ServedInvariant == Spec => []Served
<1>1. Init => Served
  BY AtFirst
<1>2. TypeOK /\ Structure /\ Served /\ [Next]_vars => Served'
  BY ServedStep
<1> QED
  BY <1>1, <1>2, TreeInvariant, PTL DEF Spec

\* Handlers that fail and are tried again, uploads that complete in the trash and
\* nodes that come back after they were condemned: an active file has its bytes
\* unless a deletion handler has listed it.
THEOREM BytesCorrect == Spec => []FilesHaveBytes
<1>1. Served => FilesHaveBytes
  BY DEF Served, Kept, FilesHaveBytes, Active
<1> QED
  BY <1>1, ServedInvariant, PTL

\* Where nothing condemned comes back, condemned nodes are in the trash, and
\* handlers have their trees on their lists but for what sessions hold.
THEOREM PurgesInvariant ==
    ASSUME "late_restore" \notin Faults PROVE Spec => []Purges
<1>1. Init => Purges
  BY AtFirst
<1>2. TypeOK /\ Structure /\ Purges /\ [Next]_vars => Purges'
  BY PurgesStep
<1> QED
  BY <1>1, <1>2, TreeInvariant, PTL DEF Spec

\* There, every active file has its bytes, without exception.
THEOREM StrictBytesCorrect ==
    ASSUME "late_restore" \notin Faults PROVE Spec => [](Active \cap Files \subseteq bytes)
<1>1. Served /\ Purges => Active \cap Files \subseteq bytes
  BY DEF Served, Kept, Purges, Sentenced, Condemned, Active, Trashed
<1> QED
  BY <1>1, ServedInvariant, PurgesInvariant, PTL

\* And no object outlives the row that knows its key, wherever uploads
\* complete: the folder that a session names holds up every purge of a tree in
\* which a handler could have missed a file.
THEOREM NoLeakCorrect ==
    ASSUME "late_restore" \notin Faults PROVE Spec => []NoLeak
<1>1. Purges => NoLeak
  BY DEF Purges
<1> QED
  BY <1>1, PurgesInvariant, PTL

----------------------------------------------------------------------------
(* What is promised of each node (NodeContract)                             *)

\* What the mapping reads.
Seen == <<life, Condemned, favorites, bytes>>

\* A new row is Add of its node.
LEMMA InsertKeeps ==
    ASSUME TypeOK, NEW n \in Nodes, FreshId(n),
           life' = [life EXCEPT ![n] = "active"], bytes' = bytes \cup ({n} \cap Files),
           UNCHANGED <<Condemned, favorites>>
    PROVE  Contract!Next
<1>1. life[n] = "absent" /\ n \notin bytes
  BY DEF FreshId
<1>2. life' = [m \in Nodes |-> IF m \in {n} THEN "active" ELSE life[m]]
  BY DEF TypeOK
<1>3. Contract!Add(n)
  BY <1>1, <1>2 DEF Contract!Add, Contract!Are, Contract!Become
<1> QED
  BY <1>3 DEF Contract!Next

\* The transactions other than those of the trash.
LEMMA TransactionKeeps ==
    ASSUME TypeOK, Transaction,
           \A batch \in SUBSET Nodes : ~TrashNodes(batch),
           \A n \in Nodes : ~RestoreNode(n) /\ ~RequestDeletion(n)
    PROVE  Contract!Next \/ UNCHANGED Seen
<1> USE DEF rows, trash, deletion, history, sentences
<1>1. ASSUME NEW n \in Nodes, NEW d \in Folders, NEW called \in Names,
             CreateFolder(n, d, called)
      PROVE  Contract!Next
  <2>1. {n} \cap Files = {}
    BY <1>1, ConstantsOK DEF CreateFolder
  <2> QED BY <1>1, <2>1, InsertKeeps DEF CreateFolder, Insert, Condemned
<1>2. ASSUME NEW n \in Nodes, NEW d \in Folders, NEW called \in Names,
             FinishUpload(n, d, called) \/ ImportFile(n, d, called)
      PROVE  Contract!Next
  <2>1. {n} \cap Files = {n}
    BY <1>2 DEF FinishUpload, ImportFile
  <2> QED BY <1>2, <2>1, InsertKeeps DEF FinishUpload, ImportFile, Insert, Condemned
<1>3. ASSUME NEW f \in Folders, NEW d \in Folders, NEW called \in Names,
             UpdateFolder(f, d, called)
      PROVE  UNCHANGED Seen
  BY <1>3 DEF UpdateFolder, WriteUpdate, Seen, Condemned
<1>4. ASSUME NEW batch \in SUBSET Folders, NEW d \in Folders, MoveFolders(batch, d)
      PROVE  UNCHANGED Seen
  BY <1>4 DEF MoveFolders, Seen, Condemned
<1>5. ASSUME NEW d \in Folders, StartUpload(d) PROVE UNCHANGED Seen
  BY <1>5 DEF StartUpload, Seen, Condemned
<1>6. ASSUME NEW n \in Nodes, AddFavorite(n) PROVE Contract!Next
  <2>1. Contract!Favor(n)
    BY <1>6 DEF AddFavorite, Contract!Favor, Contract!Are, Condemned
  <2> QED BY <2>1 DEF Contract!Next
<1>7. ASSUME NEW n \in Nodes, RemoveFavorite(n) PROVE Contract!Next
  <2>1. Contract!Unfavor(n)
    BY <1>7 DEF RemoveFavorite, Contract!Unfavor, Condemned
  <2> QED BY <2>1 DEF Contract!Next
<1> QED
  BY <1>1, <1>2, <1>3, <1>4, <1>5, <1>6, <1>7 DEF Transaction

\* A batch goes to the trash with the trees below it, but never the root.
LEMMA TrashKeeps ==
    ASSUME TypeOK, Structure, Structure', NEW batch \in SUBSET Nodes, TrashNodes(batch)
    PROVE  Contract!Next
<1> DEFINE top == {m \in batch : \A k \in batch \ {m} : m \notin Below(k)}
           all == Tree(top, Active)
<1>1. top \in SUBSET Nodes /\ top \subseteq Active /\ Active \in SUBSET Nodes
  BY DEF TrashNodes, Active
<1>2. all \subseteq Active
  BY <1>1, TreeWithin
<1>3. /\ life' = [n \in Nodes |-> IF n \in all THEN "trashed" ELSE life[n]]
      /\ favorites' = favorites \ all
      /\ UNCHANGED <<bytes, sentences>>
  BY DEF TrashNodes
<1>4. Root \in Nodes /\ life'[Root] = "active"
  BY ConstantsOK DEF Structure, Shape, Nodes
<1> HIDE DEF top, all
<1>5. all \in SUBSET Nodes /\ Root \notin all /\ \A n \in all : life[n] = "active"
  BY <1>1, <1>2, <1>3, <1>4 DEF Active
<1>6. Contract!Trash(all)
  BY <1>3, <1>5 DEF Contract!Trash, Contract!Are, Contract!Become, Condemned, sentences
<1> QED
  BY <1>5, <1>6 DEF Contract!Next

\* A tree that is restored has nothing in it that was condemned.
LEMMA RestoreKeeps ==
    ASSUME "late_restore" \notin Faults, NEW n \in Nodes, RestoreNode(n)
    PROVE  Contract!Next
<1>1. TrashedTree(n) \in SUBSET Nodes /\ \A m \in TrashedTree(n) : life[m] = "trashed"
  BY TrashedTreeWithin DEF Trashed
<1>2. Contract!Restore(TrashedTree(n))
  BY <1>1 DEF RestoreNode, Contract!Restore, Contract!Are, Contract!Become, Condemned,
              sentences
<1> QED
  BY <1>1, <1>2 DEF Contract!Next

\* A user condemns a trashed tree, the sweep all that are due, and a handler
\* what it lists.
LEMMA CondemnKeeps ==
    ASSUME TypeOK, SweepTrash \/ \E n \in Nodes : RequestDeletion(n) \/ ListKeys(n)
    PROVE  Contract!Next
<1> USE DEF rows, trash
<1>1. \A n \in Nodes : /\ TrashedTree(n) \in SUBSET Nodes
                       /\ \A m \in TrashedTree(n) : life[m] = "trashed"
  BY TrashedTreeWithin DEF Trashed
<1>2. ASSUME NEW n \in Nodes, RequestDeletion(n) \/ ListKeys(n) PROVE Contract!Next
  <2>1. Contract!Condemn(TrashedTree(n))
    BY <1>1, <1>2 DEF RequestDeletion, ListKeys, Contract!Condemn, Contract!Are, Condemned
  <2> QED BY <1>1, <2>1 DEF Contract!Next
<1>3. CASE SweepTrash
  <2> DEFINE S == UNION {TrashedTree(n) : n \in Expired}
  <2>1. \A m \in S : \E n \in Expired : m \in TrashedTree(n)
    OBVIOUS
  <2>2. S \in SUBSET Nodes /\ \A m \in S : life[m] = "trashed"
    <3>1. \A n \in Expired : life[n] = "trashed"
      BY DEF Expired
    <3>2. \A n \in Expired : n \in Nodes
      BY DEF Expired, TypeOK
    <3>3. \A n \in Expired : TrashedTree(n) \subseteq Nodes
      BY <1>1, <3>2
    <3> QED BY <1>1, <2>1, <3>2, <3>3
  <2>3. Condemned' = Condemned \cup S
    BY <1>3 DEF SweepTrash, Condemned
  <2> HIDE DEF S
  <2>4. Contract!Condemn(S)
    BY <1>3, <2>2, <2>3 DEF SweepTrash, Contract!Condemn, Contract!Are
  <2> QED BY <2>2, <2>4 DEF Contract!Next
<1> QED
  BY <1>2, <1>3

\* A handler deletes bytes of condemned files, then rows whose bytes are gone.
LEMMA HandlerKeeps ==
    ASSUME TypeOK, Served, Purges, NEW n \in Nodes, Handler(n)
    PROVE  Contract!Next \/ UNCHANGED Seen
<1> USE DEF rows, trash, deletion, history, sentences
<1>1. CASE ListKeys(n)
  BY <1>1, CondemnKeeps
<1>2. CASE PurgeFails(n)
  BY <1>2 DEF PurgeFails, Seen, Condemned
<1>3. ASSUME NEW f \in Files, DeleteObject(n, f) PROVE Contract!Next \/ UNCHANGED Seen
  <2>1. /\ f \in keys[n] /\ bytes' = bytes \ {f} /\ UNCHANGED <<life, favorites>>
        /\ Condemned' = Condemned
    BY <1>3 DEF DeleteObject, Condemned
  <2>2. life[f] = "absent" \/ f \in Condemned
    BY <2>1 DEF Served, ListsKnown, Condemned
  <2>3. CASE f \in Condemned
    <3>1. Contract!Erase(f)
      BY <2>1, <2>3 DEF Contract!Erase
    <3> QED BY <3>1 DEF Contract!Next
  <2>4. CASE life[f] = "absent"
    <3>1. f \notin bytes
      BY <2>4 DEF Purges, NoLeak
    <3> QED BY <2>1, <3>1 DEF Seen
  <2> QED BY <2>2, <2>3, <2>4
<1>4. CASE PurgeRows(n)
  <2> DEFINE gone == TrashedTree(n)
  <2>1. /\ purge[n] = "deleting" /\ keys[n] = {} /\ UNCHANGED bytes
        /\ life' = [m \in Nodes |-> IF m \in gone THEN "absent" ELSE life[m]]
        /\ favorites' = favorites \ gone
        /\ Condemned' = Condemned \ gone /\ gone \cap targets = {}
    BY <1>4 DEF PurgeRows, Restricted, Condemned
  <2>2. gone \subseteq Condemned /\ gone \cap bytes = {}
    BY <2>1 DEF Purges, HeldOrListed
  <2>3. gone \in SUBSET Nodes
    BY TrashedTreeWithin DEF Trashed
  <2> HIDE DEF gone
  <2>4. Contract!Remove(gone)
    BY <2>1, <2>2 DEF Contract!Remove, Contract!Become
  <2> QED BY <2>3, <2>4 DEF Contract!Next
<1> QED
  BY <1>1, <1>2, <1>3, <1>4 DEF Handler

\* Every step keeps the promises, or is none of them.
LEMMA ContractStep ==
    ASSUME "late_restore" \notin Faults
    PROVE  TypeOK /\ Structure /\ Served /\ Purges /\ [Next]_vars => [Contract!Next]_(Contract!vars)
<1> SUFFICES ASSUME TypeOK, Structure, Served, Purges, [Next]_vars
             PROVE  Contract!Next \/ UNCHANGED Seen
  BY DEF Seen, Contract!vars
<1>1. Structure'
  BY StructureStep
<1>2. CASE MonthPasses \/ UNCHANGED vars
  BY <1>2 DEF MonthPasses, vars, Seen, Condemned, rows, history, sentences
<1>3. CASE Transaction
  BY <1>1, <1>3, TransactionKeeps, TrashKeeps, RestoreKeeps, CondemnKeeps
<1> QED
  BY <1>2, <1>3, CondemnKeeps, HandlerKeeps DEF Next

\* As long as nothing is restored that was condemned, each node fares as
\* NodeContract promises, with any tree around it and wherever uploads complete: a
\* file has its bytes until it is condemned, is never back after that, and its row
\* goes last; favorites end with the trash.
THEOREM ContractCorrect ==
    ASSUME "late_restore" \notin Faults
    PROVE  Spec => KeepsContract
<1>1. Init => Contract!Init
  BY DEF Init, Contract!Init, Condemned
<1> QED
  BY <1>1, ContractStep, TreeInvariant, ServedInvariant, PurgesInvariant, PTL
     DEF Spec, KeepsContract, Contract!Spec

=============================================================================
