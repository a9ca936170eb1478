------------------------------ MODULE Reading ------------------------------
(***************************************************************************)
(* What clients read while others change a folder: its children, page by   *)
(* page (list_children of crates/api/src/folders.rs and                    *)
(* list_children_page_sorted of crates/db/src/lib.rs), and its files       *)
(* (Ranges).  A page is one statement and one step; between the pages of a *)
(* listing children are created, renamed, moved, trashed, restored and     *)
(* purged, here without their own subtrees, which Tree has.                *)
(***************************************************************************)
EXTENDS Ranges, FiniteSets

CONSTANTS
    Ids,         \* nodes; ids are compared as numbers
    Names,       \* names; compared as numbers
    Kind, Size,  \* of each node; neither ever changes
    Limits,      \* page sizes
    Asks,        \* queries that clients make
    None,
    MaxChanges   \* a bound on changes of the folder

Sorts == {"name", "kind", "size"}  \* the two times are like "size"
Queries == [sort : Sorts, order : {"asc", "desc"},
            filter : SUBSET {"folder", "image"}]
Default == [sort |-> "name", order |-> "asc", filter |-> {}]

ASSUME ConstantsOK ==
    /\ Ids \subseteq Nat /\ IsFiniteSet(Ids) /\ None \notin Ids
    /\ Names \subseteq Nat
    /\ Kind \in [Ids -> {"folder", "file"}] /\ Size \in [Ids -> Nat]
    /\ Limits \subseteq Nat \ {0} /\ Asks \subseteq Queries
    /\ MaxChanges \in Nat

VARIABLES
    folder,   \* lifecycle_state of the folder
    place,    \* where each node is
    name,
    images,   \* nodes whose media_kind is known to be "image"
    walk,     \* a listing that a client is going through
    seen,     \* how often it has got each node: once, more often or not
    steady,   \* nodes that were there, unchanged, since it began
    held,     \* the last row of a page was never renamed, moved away or purged
    changes   \* changes so far

children == <<folder, place, name, images>>
history == <<seen, steady, held>>
vars == <<children, walk, history, changes>>

Places == {"new", "here", "away", "trashed", "gone"}

TypeOK ==
    /\ folder \in {"active", "trashed"}
    /\ place \in [Ids -> Places]
    /\ name \in [Ids -> Names] /\ images \subseteq Ids
    /\ walk \in [step : {"idle", "asking", "done", "cut", "refused"}, query : Asks \cup {Default},
                 limit : Limits \cup {0}, cursor : Ids \cup {None}]
    /\ seen \in [Ids -> 0 .. 2] /\ steady \subseteq Ids /\ held \in BOOLEAN
    /\ changes \in 0 .. MaxChanges
    /\ \A i, j \in Ids :  \* the unique index on the names of a folder
        place[i] = "here" /\ place[j] = "here" /\ i # j => name[i] # name[j]

Init ==
    /\ folder = "active"
    /\ place \in [Ids -> {"new", "here"}]
    /\ name \in [Ids -> Names]
    /\ \A i, j \in Ids : i # j => name[i] # name[j]
    /\ images = {}
    /\ walk = [step |-> "idle", query |-> Default, limit |-> 0, cursor |-> None]
    /\ seen = [i \in Ids |-> 0] /\ steady = {} /\ held = TRUE
    /\ changes = 0

----------------------------------------------------------------------------
(* The statement                                                            *)

Matches(q, i) ==
    \/ q.filter = {}
    \/ "folder" \in q.filter /\ Kind[i] = "folder"
    \/ "image" \in q.filter /\ Kind[i] = "file" /\ i \in images

Rank(i) == IF Kind[i] = "folder" THEN 0 ELSE 1

Column(q, i) ==
    CASE q.sort = "name" -> name[i]
      [] q.sort = "kind" -> Rank(i)
      [] q.sort = "size" -> IF Kind[i] = "file" THEN Size[i] ELSE 0

\* ORDER BY: folders first, the column, the id.
Before(q, i, j) ==
    LET a == Column(q, i)
        b == Column(q, j)
    IN \/ Rank(i) < Rank(j)
       \/ /\ Rank(i) = Rank(j)
          /\ \/ IF q.order = "asc" THEN a < b ELSE b < a
             \/ a = b /\ i < j

Cursored(q) == q = Default

\* A plausible bug, not used.
Rows_NoCursor(q, c) == {i \in Ids : place[i] = "here" /\ Matches(q, i)}

\* WHERE.  The row of the cursor is looked up among the folder's children,
\* trashed ones too; if there is none the comparison is NULL.
Rows(q, c) ==
    {i \in Ids :
        /\ place[i] = "here" /\ Matches(q, i)
        /\ Cursored(q) /\ c # None =>
            /\ place[c] \in {"here", "trashed"}
            /\ name[c] < name[i] \/ (name[c] = name[i] /\ c < i)}

\* LIMIT
First(q, S, n) == {i \in S : Cardinality({j \in S : Before(q, j, i)}) < n}

----------------------------------------------------------------------------
(* Plausible bugs, one slip each; none belongs to Next.                     *)

Page_CursorIsExtraRow(q, c, limit) ==
    LET rows == First(q, Rows(q, c), limit + 1)
        items == First(q, rows, limit)
    IN [items |-> items,
        next |-> IF rows = items THEN None
                 ELSE CHOOSE i \in rows \ items : TRUE]

Rename_Conflicts(i, n) ==
    /\ changes < MaxChanges /\ changes' = changes + 1
    /\ place[i] = "here"
    /\ name' = [name EXCEPT ![i] = n]
    /\ steady' = steady \ {i}
    /\ held' = (held /\ (walk.step = "asking" => walk.cursor # i))
    /\ UNCHANGED <<folder, place, images, walk, seen>>

----------------------------------------------------------------------------
(* GET /api/folders/:id/children                                            *)

\* One row more than the page has is asked for, to know whether there is one.
Page(q, c, limit) ==
    LET rows == First(q, Rows(q, c), limit + 1)
        more == Cardinality(rows) > limit
        items == First(q, rows, limit)
    IN [items |-> items,
        next |-> IF more THEN CHOOSE i \in items : \A j \in items \ {i} : Before(q, j, i)
                 ELSE None]

\* One listing; the folder it begins with is any.
Start(q, limit) ==
    /\ walk.step = "idle"
    /\ walk' = [step |-> "asking", query |-> q, limit |-> limit, cursor |-> None]
    /\ seen' = [i \in Ids |-> 0]
    /\ steady' = {i \in Ids : place[i] = "here"}
    /\ held' = TRUE
    /\ UNCHANGED <<children, changes>>

\* A client goes on with next_cursor, if the query is one that heeds it.
ListChildren ==
    /\ walk.step = "asking"
    /\ IF folder = "active"
       THEN \E page \in {Page(walk.query, walk.cursor, walk.limit)} :
            /\ seen' = [i \in Ids |->
                    IF i \in page.items THEN Least(seen[i] + 1, 2) ELSE seen[i]]
            /\ walk' = [walk EXCEPT
                    !.cursor = page.next,
                    !.step = IF page.next = None THEN "done"
                             ELSE IF Cursored(walk.query) THEN "asking" ELSE "cut"]
       ELSE walk' = [walk EXCEPT !.step = "refused"] /\ UNCHANGED seen
    /\ UNCHANGED <<children, steady, held, changes>>

----------------------------------------------------------------------------
(* Others change the folder                                                 *)

Free(n) == \A j \in Ids : place[j] = "here" => name[j] # n
IsCursor(i) == walk.step = "asking" /\ walk.cursor = i

\* The node is somewhere else afterwards.
Put(i, from, to) ==
    /\ changes < MaxChanges /\ changes' = changes + 1
    /\ folder = "active"
    /\ place[i] \in from
    /\ place' = [place EXCEPT ![i] = to]
    /\ steady' = steady \ {i}
    /\ held' = (held /\ (to \in {"away", "gone"} => ~IsCursor(i)))
    /\ UNCHANGED <<folder, images, walk, seen>>

CreateOrMoveIn(i, n) ==
    /\ Free(n)
    /\ Put(i, {"new", "away"}, "here")
    /\ name' = [name EXCEPT ![i] = n]

MoveOut(i) == Put(i, {"here"}, "away") /\ UNCHANGED name
Trash(i)   == Put(i, {"here"}, "trashed") /\ UNCHANGED name
Restore(i) == Put(i, {"trashed"}, "here") /\ Free(name[i]) /\ UNCHANGED name
Purge(i)   == Put(i, {"trashed"}, "gone") /\ UNCHANGED name

Rename(i, n) ==
    /\ changes < MaxChanges /\ changes' = changes + 1
    /\ place[i] = "here" /\ Free(n)
    /\ name' = [name EXCEPT ![i] = n]
    /\ steady' = steady \ {i}
    /\ held' = (held /\ ~IsCursor(i))
    /\ UNCHANGED <<folder, place, images, walk, seen>>

\* The metadata job has told what the file is.
Identify(i) ==
    /\ changes < MaxChanges /\ changes' = changes + 1
    /\ Kind[i] = "file" /\ place[i] # "gone" /\ i \notin images
    /\ images' = images \cup {i}
    /\ steady' = steady \ {i}
    /\ UNCHANGED <<folder, place, name, walk, seen, held>>

\* With what is in it.
TrashFolder ==
    /\ changes < MaxChanges /\ changes' = changes + 1
    /\ folder = "active"
    /\ folder' = "trashed"
    /\ place' = [i \in Ids |-> IF place[i] = "here" THEN "trashed" ELSE place[i]]
    /\ steady' = {}
    /\ UNCHANGED <<name, images, walk, seen, held>>

----------------------------------------------------------------------------

Next ==
    \/ \E q \in Asks, limit \in Limits : Start(q, limit)
    \/ ListChildren
    \/ \E i \in Ids, n \in Names : CreateOrMoveIn(i, n) \/ Rename(i, n)
    \/ \E i \in Ids : MoveOut(i) \/ Trash(i) \/ Restore(i) \/ Purge(i) \/ Identify(i)
    \/ TrashFolder

Spec == Init /\ [][Next]_vars

\* Requests are answered, and the client goes on.
FairSpec == Spec /\ WF_vars(ListChildren)

----------------------------------------------------------------------------
(* Properties                                                               *)

\* A listing that came to its end has every child that was there all the time
\* once, whatever was added, renamed, moved or trashed meanwhile: neither the
\* extra row nor the cursor skips or repeats one.  That the cursor's own row is
\* renamed, moved away or purged is excepted.
EachOnce ==
    walk.step = "done" /\ held =>
        \A i \in steady : seen[i] = IF Matches(walk.query, i) THEN 1 ELSE 0

\* The cursor moves on: following it comes to an end.
PagingEnds == walk.step = "asking" ~> walk.step # "asking"

\* A download is answered with the bytes that its Range header asks for, or
\* refused: at the last byte, past the end, and for a file that has none.
RangeRight ==
    \A i \in Ids : Kind[i] = "file" /\ place[i] = "here" =>
        \A h \in Headers : RightFor(h, Size[i])

=============================================================================
