--------------------------- MODULE ReadingProofs ---------------------------
(***************************************************************************)
(* Proofs about Ranges and Reading, for files and folders of any size, any  *)
(* number of names, page sizes, and changes between two pages.              *)
(***************************************************************************)
EXTENDS Reading, FiniteSetTheorems, WellFoundedInduction, TLAPS

----------------------------------------------------------------------------
(* Ranges                                                                   *)

\* A range that was accepted lies within the file.
LEMMA AcceptedInside ==
    ASSUME NumbersOK, NEW total \in Nat, NEW h \in Headers, Accepted(h, total)
    PROVE  /\ Bounds(h, total).start \in Nat /\ Bounds(h, total).end \in Nat
           /\ Bounds(h, total).start <= Bounds(h, total).end
           /\ Bounds(h, total).end < total
    BY DEF NumbersOK, Headers, Accepted, Bounds, Least, Less, Fits

\* get_range of a range that lies within the object sends that range.
LEMMA GetRangeWhole ==
    ASSUME NEW total \in Nat, NEW range \in [start : Nat, end : Nat],
           range.start <= range.end, range.end < total
    PROVE  GetRange(range.start, Length(range), total) = range.start .. range.end
    BY DEF GetRange, Length, Least

\* What parse_range makes of a header with numbers that fit.
LEMMA BoundsAsked ==
    ASSUME NumbersOK, NEW total \in Nat, NEW h \in Headers, Fits(h)
    PROVE  /\ Accepted(h, total) <=> Asked(h, total) # {}
           /\ Accepted(h, total) =>
                Asked(h, total) = Bounds(h, total).start .. Bounds(h, total).end
<1>1. CASE h.form = "other"
    BY <1>1 DEF Accepted, Asked
<1>2. CASE h.form = "closed"
    <2>1. h.a \in Nat /\ h.b \in Nat
        BY <1>2 DEF NumbersOK, Headers
    <2>2. Asked(h, total) = {p \in 0 .. total - 1 : h.a <= p /\ p <= h.b}
        BY <1>2 DEF Asked
    <2>3. Accepted(h, total) <=> h.a < total /\ h.a <= h.b
        BY <1>2, <2>1 DEF Accepted, Bounds, Least, Less
    <2>4. Bounds(h, total).start = h.a /\ Bounds(h, total).end = Least(h.b, Less(total, 1))
        BY <1>2 DEF Bounds
    <2>5. h.a < total /\ h.a <= h.b => h.a \in Asked(h, total)
        BY <2>1, <2>2
    <2> QED BY <2>1, <2>2, <2>3, <2>4, <2>5 DEF Least, Less
<1>3. CASE h.form = "open"
    <2>1. h.a \in Nat
        BY <1>3 DEF NumbersOK, Headers
    <2>2. Asked(h, total) = {p \in 0 .. total - 1 : h.a <= p}
        BY <1>3 DEF Asked
    <2>3. Accepted(h, total) <=> h.a < total
        BY <1>3, <2>1 DEF Accepted, Bounds, Least, Less
    <2>4. Bounds(h, total).start = h.a /\ Bounds(h, total).end = Less(total, 1)
        BY <1>3 DEF Bounds
    <2>5. h.a < total => h.a \in Asked(h, total)
        BY <2>1, <2>2
    <2> QED BY <2>1, <2>2, <2>3, <2>4, <2>5 DEF Less
<1>4. CASE h.form = "suffix"
    <2>1. h.b \in Nat
        BY <1>4 DEF NumbersOK, Headers
    <2>2. Asked(h, total) = {p \in 0 .. total - 1 : total - h.b <= p}
        BY <1>4 DEF Asked
    <2>3. Accepted(h, total) <=> h.b > 0 /\ total # 0
        BY <1>4, <2>1 DEF Accepted, Bounds, Least, Less
    <2>4. /\ Bounds(h, total).start = Less(total, Least(h.b, total))
          /\ Bounds(h, total).end = Less(total, 1)
        BY <1>4 DEF Bounds
    <2>5. h.b > 0 /\ total # 0 => total - 1 \in Asked(h, total)
        BY <2>1, <2>2
    <2> QED BY <2>1, <2>2, <2>3, <2>4, <2>5 DEF Less, Least
<1> QED BY <1>1, <1>2, <1>3, <1>4 DEF Headers

\* A part of the file is sent exactly when the header asks for one, and it is
\* that part, for every header and every size: parse_range and get_range.
THEOREM RangesRight ==
    ASSUME NumbersOK, NEW total \in Nat, NEW h \in Headers
    PROVE  RightFor(h, total)
<1> DEFINE range == Bounds(h, total)
<1>1. CASE ~Fits(h) \/ Asked(h, total) = {}
    <2>1. ~Accepted(h, total)
        BY <1>1, BoundsAsked DEF Accepted
    <2> QED BY <1>1, <2>1 DEF RightFor, Answer
<1>2. CASE Fits(h) /\ Asked(h, total) # {}
    <2>1. Accepted(h, total) /\ Asked(h, total) = range.start .. range.end
        BY <1>2, BoundsAsked
    <2>2. /\ range.start \in Nat /\ range.end \in Nat
          /\ range.start <= range.end /\ range.end < total
        BY <2>1, AcceptedInside
    <2>3. range = [start |-> range.start, end |-> range.end]
        BY <2>1 DEF Bounds, Headers, Accepted
    <2>4. GetRange(range.start, Length(range), total) = range.start .. range.end
        <3> HIDE DEF range
        <3> QED BY <2>2, <2>3, GetRangeWhole
    <2>5. range.start + Length(range) - 1 = range.end
        BY <2>2 DEF Length
    <2> QED BY <1>2, <2>1, <2>4, <2>5 DEF RightFor, Answer
<1> QED BY <1>1, <1>2

\* A download is answered with what its Range header asks for (serve_original).
THEOREM RangeCorrect ==
    ASSUME NumbersOK, ConstantsOK
    PROVE  Spec => []RangeRight
<1>1. RangeRight
    <2>1. \A i \in Ids : Size[i] \in Nat
        BY ConstantsOK DEF ConstantsOK
    <2> QED BY <2>1, NumbersOK, RangesRight DEF RangeRight
<1> QED BY <1>1, PTL

----------------------------------------------------------------------------
(* ORDER BY and LIMIT                                                       *)

Named == name \in [Ids -> Names]

\* Before is a strict total order of the children.
LEMMA ColumnType ==
    ASSUME ConstantsOK, Named, NEW q \in Queries, NEW i \in Ids
    PROVE  Column(q, i) \in Nat /\ Rank(i) \in Nat
<1>1. name[i] \in Nat /\ Size[i] \in Nat
    BY DEF ConstantsOK, Named
<1>2. Rank(i) \in Nat
    BY DEF Rank
<1>3. q.sort \in Sorts
    BY DEF Queries
<1> QED BY <1>1, <1>2, <1>3 DEF Column, Sorts

LEMMA Order ==
    ASSUME ConstantsOK, Named, NEW q \in Queries
    PROVE  /\ \A i \in Ids : ~Before(q, i, i)
           /\ \A i, j \in Ids : i # j => Before(q, i, j) \/ Before(q, j, i)
           /\ \A i, j, k \in Ids : Before(q, i, j) /\ Before(q, j, k) => Before(q, i, k)
<1>1. \A i \in Ids : i \in Nat /\ Column(q, i) \in Nat /\ Rank(i) \in Nat
    BY ColumnType DEF ConstantsOK
<1> QED BY <1>1 DEF Before

\* The rows of S that come before i.
Ahead(q, S, i) == {j \in S : Before(q, j, i)}

LEMMA AheadCount ==
    ASSUME ConstantsOK, Named, NEW q \in Queries, NEW S \in SUBSET Ids
    PROVE  /\ IsFiniteSet(S) /\ Cardinality(S) \in Nat
           /\ \A i \in Ids : /\ IsFiniteSet(Ahead(q, S, i))
                             /\ Cardinality(Ahead(q, S, i)) \in Nat
           /\ \A i \in S : Cardinality(Ahead(q, S, i)) < Cardinality(S)
           /\ \A i, j \in S : Before(q, i, j) =>
                Cardinality(Ahead(q, S, i)) < Cardinality(Ahead(q, S, j))
<1>1. IsFiniteSet(S) /\ Cardinality(S) \in Nat
    BY FS_Subset, FS_CardinalityType DEF ConstantsOK
<1>2. ASSUME NEW i \in Ids
      PROVE  IsFiniteSet(Ahead(q, S, i)) /\ Cardinality(Ahead(q, S, i)) \in Nat
    <2>1. Ahead(q, S, i) \in SUBSET S
        BY DEF Ahead
    <2> QED BY <1>1, <2>1, FS_Subset, FS_CardinalityType
<1>3. ASSUME NEW i \in S
      PROVE  Cardinality(Ahead(q, S, i)) < Cardinality(S)
    <2>1. Ahead(q, S, i) \in SUBSET S /\ i \notin Ahead(q, S, i) /\ i \in Ids
        BY Order DEF Ahead
    <2>2. Cardinality(Ahead(q, S, i)) <= Cardinality(S)
        BY <1>1, <2>1, FS_Subset
    <2>3. Cardinality(Ahead(q, S, i)) # Cardinality(S)
        BY <1>1, <2>1, FS_Subset
    <2> QED BY <1>1, <1>2, <2>1, <2>2, <2>3
<1>4. ASSUME NEW i \in S, NEW j \in S, Before(q, i, j)
      PROVE  Cardinality(Ahead(q, S, i)) < Cardinality(Ahead(q, S, j))
    <2>0. i \in Ids /\ j \in Ids
        OBVIOUS
    <2>1. /\ Ahead(q, S, i) \in SUBSET Ahead(q, S, j)
          /\ i \notin Ahead(q, S, i) /\ i \in Ahead(q, S, j)
        BY <1>4, <2>0, Order DEF Ahead
    <2>2. IsFiniteSet(Ahead(q, S, j))
        BY <1>2, <2>0
    <2>3. Cardinality(Ahead(q, S, i)) <= Cardinality(Ahead(q, S, j))
        BY <2>1, <2>2, FS_Subset
    <2>4. Cardinality(Ahead(q, S, i)) # Cardinality(Ahead(q, S, j))
        BY <2>1, <2>2, FS_Subset
    <2> QED BY <1>2, <2>0, <2>3, <2>4
<1> QED BY <1>1, <1>2, <1>3, <1>4

\* LIMIT takes rows from the front: whoever comes before a row that is taken is
\* taken too.
LEMMA FirstIsFront ==
    ASSUME ConstantsOK, Named, NEW q \in Queries, NEW S \in SUBSET Ids, NEW n \in Nat,
           NEW i \in First(q, S, n), NEW j \in S, Before(q, j, i)
    PROVE  j \in First(q, S, n)
<1>1. i \in S /\ Cardinality(Ahead(q, S, i)) < n
    BY DEF First, Ahead
<1>2. Cardinality(Ahead(q, S, j)) < Cardinality(Ahead(q, S, i))
    BY <1>1, AheadCount
<1>3. Cardinality(Ahead(q, S, j)) < n
    BY <1>1, <1>2, AheadCount
<1> QED BY <1>3 DEF First, Ahead

\* A page is what LIMIT n would have given: the extra row changes nothing.
LEMMA ExtraRow ==
    ASSUME ConstantsOK, Named, NEW q \in Queries, NEW S \in SUBSET Ids, NEW n \in Nat
    PROVE  First(q, First(q, S, n + 1), n) = First(q, S, n)
<1> DEFINE rows == First(q, S, n + 1)
<1>1. rows \in SUBSET S
    BY DEF First
<1>2. ASSUME NEW i \in rows
      PROVE  Ahead(q, rows, i) = Ahead(q, S, i)
    <2>1. i \in S /\ \A j \in S : Before(q, j, i) => j \in rows
        BY <1>1, FirstIsFront
    <2> HIDE DEF rows
    <2> QED BY <1>1, <2>1 DEF Ahead
<1>3. First(q, S, n) \subseteq rows
    BY <1>1, AheadCount DEF First, Ahead
<1>4. \A i \in S : Cardinality(Ahead(q, S, i)) < n <=> i \in First(q, S, n)
    BY DEF First, Ahead
<1>5. \A i \in rows : Cardinality(Ahead(q, rows, i)) < n <=> i \in First(q, rows, n)
    BY DEF First, Ahead
<1>6. First(q, rows, n) \subseteq rows /\ First(q, S, n) \subseteq S
    BY DEF First
<1> HIDE DEF rows
<1> QED BY <1>1, <1>2, <1>3, <1>4, <1>5, <1>6

\* Some element of a set has the least of the numbers given to them.
LEMMA LeastOf ==
    ASSUME NEW T, T # {}, NEW F \in [T -> Nat]
    PROVE  \E x \in T : \A y \in T : F[x] <= F[y]
<1> DEFINE V == {F[x] : x \in T}
           R == OpToRel(<, Nat)
<1>1. V \subseteq Nat /\ V # {}
    OBVIOUS
<1>2. IsWellFoundedOn(R, Nat)
    BY NatLessThanWellFounded
<1>3. \E v \in V : \A u \in V : <<u, v>> \notin R
    <2> HIDE DEF V, R
    <2> QED BY <1>1, <1>2, WFMin
<1>4. \A u, v \in Nat : <<u, v>> \notin R => v <= u
    BY DEF OpToRel
<1> QED BY <1>1, <1>3, <1>4

\* A set of rows has a first and a last one.
LEMMA FirstAndLast ==
    ASSUME ConstantsOK, Named, NEW q \in Queries, NEW S \in SUBSET Ids, S # {}
    PROVE  /\ \E i \in S : \A j \in S \ {i} : Before(q, i, j)
           /\ \E i \in S : \A j \in S \ {i} : Before(q, j, i)
<1> DEFINE F == [i \in S |-> Cardinality(Ahead(q, S, i))]
           G == [i \in S |-> Cardinality(S) - Cardinality(Ahead(q, S, i))]
<1>1. F \in [S -> Nat] /\ G \in [S -> Nat]
    BY AheadCount
<1>2. PICK i \in S : \A j \in S : F[i] <= F[j]
    <2> HIDE DEF F
    <2> QED BY <1>1, LeastOf
<1>3. PICK k \in S : \A j \in S : G[k] <= G[j]
    <2> HIDE DEF G
    <2> QED BY <1>1, LeastOf
<1>4. \A j \in S : Cardinality(Ahead(q, S, j)) \in Nat
    BY AheadCount
<1>5. \A j, l \in S : Before(q, j, l) => F[j] < F[l] /\ G[l] < G[j]
    <2>1. Cardinality(S) \in Nat /\ \A j, l \in S : Before(q, j, l) =>
            Cardinality(Ahead(q, S, j)) < Cardinality(Ahead(q, S, l))
        BY AheadCount
    <2> QED BY <1>4, <2>1
<1>6. \A j, l \in S : Before(q, j, l) => ~(F[l] <= F[j]) /\ ~(G[j] <= G[l])
    <2> HIDE DEF F, G
    <2> QED BY <1>1, <1>5
<1> HIDE DEF F, G
<1>7. ASSUME NEW j \in S \ {i}
      PROVE  Before(q, i, j)
    <2>1. ~Before(q, j, i)
        BY <1>2, <1>6
    <2> QED BY <2>1, Order
<1>8. ASSUME NEW j \in S \ {k}
      PROVE  Before(q, j, k)
    <2>1. ~Before(q, k, j)
        BY <1>3, <1>6
    <2> QED BY <2>1, Order
<1> QED BY <1>7, <1>8

\* A query that finds no more than n rows has found all.
LEMMA NoMore ==
    ASSUME ConstantsOK, Named, NEW q \in Queries, NEW S \in SUBSET Ids, NEW n \in Nat,
           Cardinality(First(q, S, n + 1)) <= n
    PROVE  First(q, S, n) = S
<1> DEFINE rows == First(q, S, n + 1)
<1>1. rows \in SUBSET S /\ S \ rows \in SUBSET Ids
    BY DEF First
<1>2. rows = S
    <2> SUFFICES ASSUME S \ rows # {} PROVE FALSE
        BY <1>1
    <2>1. PICK i \in S \ rows : \A j \in (S \ rows) \ {i} : Before(q, i, j)
        <3> HIDE DEF rows
        <3> QED BY <1>1, FirstAndLast
    <2>2. Ahead(q, S, i) \in SUBSET rows
        <3>1. \A j \in S : Before(q, j, i) => ~Before(q, i, j)
            BY <2>1, Order
        <3>2. ~Before(q, i, i)
            BY Order
        <3> QED BY <2>1, <3>1, <3>2 DEF Ahead
    <2>3. ~(Cardinality(Ahead(q, S, i)) < n + 1)
        BY <2>1 DEF First, Ahead
    <2>4. Cardinality(Ahead(q, S, i)) <= Cardinality(rows)
        <3>1. IsFiniteSet(rows)
            BY <1>1, AheadCount, FS_Subset
        <3> QED BY <2>2, <3>1, FS_Subset
    <2>5. Cardinality(Ahead(q, S, i)) \in Nat /\ Cardinality(rows) \in Nat
        BY <1>1, AheadCount
    <2> QED BY <2>3, <2>4, <2>5
<1>3. \A i \in S : Cardinality(Ahead(q, S, i)) < n
    BY <1>2, AheadCount
<1> QED BY <1>3 DEF First, Ahead

\* What a client gets from one page: all rows and no cursor, or the rows up to
\* the cursor.
LEMMA PageIsFront ==
    ASSUME ConstantsOK, Named, NEW q \in Queries, NEW c, NEW n \in Nat \ {0}
    PROVE  LET page == Page(q, c, n)
               S == Rows(q, c)
           IN  /\ page.items \subseteq S
               /\ \/ page.next = None /\ page.items = S
                  \/ /\ page.next \in page.items
                     /\ \A i \in S : i \in page.items <=>
                            i = page.next \/ Before(q, i, page.next)
<1> DEFINE S == Rows(q, c)
           rows == First(q, S, n + 1)
           items == First(q, S, n)
           Last(i) == \A j \in items \ {i} : Before(q, j, i)
           next == CHOOSE i \in items : Last(i)
<1>1. S \in SUBSET Ids /\ items \in SUBSET S /\ rows \in SUBSET S /\ n \in Nat
    BY DEF Rows, First
<1>2. Page(q, c, n) = [items |-> items, next |-> IF Cardinality(rows) > n THEN next ELSE None]
    <2>1. First(q, rows, n) = items
        BY <1>1, ExtraRow
    <2>2. Page(q, c, n) =
            [items |-> First(q, rows, n),
             next |-> IF Cardinality(rows) > n
                      THEN CHOOSE i \in First(q, rows, n) :
                            \A j \in First(q, rows, n) \ {i} : Before(q, j, i)
                      ELSE None]
        BY DEF Page
    <2> QED BY <2>1, <2>2
<1>3. CASE ~(Cardinality(rows) > n)
    <2>1. Cardinality(rows) \in Nat
        BY <1>1, AheadCount
    <2>2. items = S
        BY <1>1, <1>3, <2>1, NoMore
    <2> QED BY <1>2, <1>3, <2>2
<1>4. CASE Cardinality(rows) > n
    <2>1. S # {}
        <3> SUFFICES ASSUME S = {} PROVE FALSE
            OBVIOUS
        <3>1. rows = {}
            BY <1>1
        <3> QED BY <1>4, <3>1, FS_EmptySet
    <2>2. items # {}
        <3>1. PICK i \in S : \A j \in S \ {i} : Before(q, i, j)
            <4> HIDE DEF S
            <4> QED BY <1>1, <2>1, FirstAndLast
        <3>2. Ahead(q, S, i) = {}
            BY <1>1, <3>1, Order DEF Ahead
        <3>3. Cardinality(Ahead(q, S, i)) = 0
            BY <3>2, FS_EmptySet
        <3>4. i \in items
            BY <3>3 DEF First, Ahead
        <3> QED BY <3>4
    <2>3. \E i \in items : Last(i)
        <3> HIDE DEF items
        <3> QED BY <1>1, <2>2, FirstAndLast
    <2>4. next \in items /\ Last(next)
        <3> HIDE DEF items, Last
        <3> QED BY <2>3
    <2>5. ASSUME NEW i \in S, Before(q, i, next)
          PROVE  i \in items
        <3> HIDE DEF S, next
        <3> QED BY <1>1, <2>4, <2>5, FirstIsFront
    <2>6. \A i \in S : i \in items <=> i = next \/ Before(q, i, next)
        <3> HIDE DEF S, next, items
        <3> QED BY <2>4, <2>5
    <2>7. Page(q, c, n).items = items /\ Page(q, c, n).next = next
        BY <1>2, <1>4
    <2> HIDE DEF S, next, items, rows
    <2> QED BY <1>1, <2>4, <2>6, <2>7 DEF S
<1> QED BY <1>3, <1>4

----------------------------------------------------------------------------
(* A listing                                                                *)

\* What the theorem on listings supposes: the children are all files or all
\* folders.  Then the order of the rows is that of the cursor.
OneKind == \A i, j \in Ids : Kind[i] = Kind[j]

UpTo(i, c) == name[i] < name[c] \/ (name[i] = name[c] /\ i <= c)

\* A client that goes on has got exactly the rows up to its cursor, once.
Progressed ==
    /\ walk.step = "asking" => walk.limit \in Limits
    /\ \A i \in steady : place[i] = "here"
    /\ OneKind /\ walk.step = "asking" /\ held =>
        IF walk.cursor = None THEN \A i \in steady : seen[i] = 0
        ELSE /\ Cursored(walk.query)
             /\ place[walk.cursor] \in {"here", "trashed"}
             /\ \A i \in steady : seen[i] = IF UpTo(i, walk.cursor) THEN 1 ELSE 0

Complete == OneKind => EachOnce
IInv == TypeOK /\ Progressed /\ Complete

\* With one kind of children, the order of the default listing is by name.
LEMMA ByName ==
    ASSUME ConstantsOK, Named, OneKind, NEW i \in Ids, NEW c \in Ids
    PROVE  i = c \/ Before(Default, i, c) <=> UpTo(i, c)
<1>1. Rank(i) = Rank(c) /\ Column(Default, i) = name[i] /\ Column(Default, c) = name[c]
    BY DEF OneKind, Rank, Column, Default
<1>2. name[i] \in Nat /\ name[c] \in Nat /\ i \in Nat /\ c \in Nat /\ Rank(c) \in Nat
    BY DEF ConstantsOK, Named, Rank
<1> QED BY <1>1, <1>2 DEF Before, UpTo, Default

LEMMA InitHolds ==
    ASSUME ConstantsOK, Init
    PROVE  IInv
    BY DEF ConstantsOK, Init, IInv, TypeOK, Progressed, Complete, EachOnce, Places

\* Queries that clients make are queries.
LEMMA QueryType ==
    ASSUME ConstantsOK, TypeOK
    PROVE  walk.query \in Queries
    BY DEF ConstantsOK, TypeOK, Queries, Default, Sorts

\* What others do to the folder neither moves a client nor lets a row that
\* stays pass its cursor.
LEMMA ChangeHolds ==
    ASSUME ConstantsOK, IInv,
           \/ \E i \in Ids, n \in Names : CreateOrMoveIn(i, n) \/ Rename(i, n)
           \/ \E i \in Ids : MoveOut(i) \/ Trash(i) \/ Restore(i) \/ Purge(i) \/ Identify(i)
           \/ TrashFolder
    PROVE  IInv'
<1> USE DEF IInv
<1>1. ASSUME NEW i \in Ids, NEW n \in Names, CreateOrMoveIn(i, n)
      PROVE  IInv'
    <2>1. TypeOK'
        BY <1>1 DEF ConstantsOK, TypeOK, CreateOrMoveIn, Put, Places, Free
    <2>2. Progressed'
        BY <1>1 DEF TypeOK, Progressed, OneKind, UpTo, CreateOrMoveIn, Put, IsCursor
    <2>3. Complete'
        BY <1>1 DEF TypeOK, Complete, OneKind, EachOnce, Matches, CreateOrMoveIn, Put
    <2> QED BY <2>1, <2>2, <2>3
<1>2. ASSUME NEW i \in Ids, NEW n \in Names, Rename(i, n)
      PROVE  IInv'
    <2>1. TypeOK'
        BY <1>2 DEF ConstantsOK, TypeOK, Rename, Places, Free
    <2>2. Progressed'
        BY <1>2 DEF TypeOK, Progressed, OneKind, UpTo, Rename, IsCursor
    <2>3. Complete'
        BY <1>2 DEF TypeOK, Complete, OneKind, EachOnce, Matches, Rename
    <2> QED BY <2>1, <2>2, <2>3
<1>3. ASSUME NEW i \in Ids, MoveOut(i) \/ Trash(i) \/ Restore(i) \/ Purge(i)
      PROVE  IInv'
    <2>1. TypeOK'
        <3>1. CASE Restore(i)
            <4>1. ASSUME NEW j \in Ids, NEW k \in Ids,
                         place'[j] = "here", place'[k] = "here", j # k
                  PROVE  name'[j] # name'[k]
                BY <3>1, <4>1 DEF TypeOK, Restore, Put, Free
            <4>2. /\ place' \in [Ids -> Places] /\ changes' \in 0 .. MaxChanges
                  /\ steady' \subseteq Ids /\ held' \in BOOLEAN
                BY <3>1 DEF ConstantsOK, TypeOK, Restore, Put, Places
            <4> QED BY <3>1, <4>1, <4>2 DEF TypeOK, Restore, Put
        <3>2. CASE MoveOut(i) \/ Trash(i) \/ Purge(i)
            <4>1. PICK to \in {"away", "trashed", "gone"} :
                    Put(i, {"here", "trashed"}, to) /\ UNCHANGED name
                BY <3>2 DEF MoveOut, Trash, Purge, Put
            <4>2. /\ place' \in [Ids -> Places] /\ changes' \in 0 .. MaxChanges
                  /\ steady' \subseteq Ids /\ held' \in BOOLEAN
                BY <4>1 DEF ConstantsOK, TypeOK, Put, Places
            <4>3. \A j \in Ids : place'[j] = "here" => place[j] = "here"
                BY <4>1 DEF TypeOK, Put
            <4> QED BY <4>1, <4>2, <4>3 DEF TypeOK, Put
        <3> QED BY <1>3, <3>1, <3>2
    <2>2. Progressed'
        <3>1. CASE Restore(i)
            BY <3>1 DEF TypeOK, Progressed, OneKind, UpTo, Restore, Put, IsCursor
        <3>2. CASE MoveOut(i)
            BY <3>2 DEF TypeOK, Progressed, OneKind, UpTo, MoveOut, Put, IsCursor
        <3>3. CASE Trash(i)
            BY <3>3 DEF TypeOK, Progressed, OneKind, UpTo, Trash, Put, IsCursor
        <3>4. CASE Purge(i)
            BY <3>4 DEF TypeOK, Progressed, OneKind, UpTo, Purge, Put, IsCursor
        <3> QED BY <1>3, <3>1, <3>2, <3>3, <3>4
    <2>3. Complete'
        BY <1>3 DEF TypeOK, Complete, OneKind, EachOnce, Matches, MoveOut, Trash, Restore,
            Purge, Put
    <2> QED BY <2>1, <2>2, <2>3
<1>4. ASSUME NEW i \in Ids, Identify(i)
      PROVE  IInv'
    <2>1. TypeOK'
        BY <1>4 DEF ConstantsOK, TypeOK, Identify
    <2>2. Progressed'
        BY <1>4 DEF TypeOK, Progressed, OneKind, UpTo, Identify
    <2>3. Complete'
        BY <1>4 DEF TypeOK, Complete, OneKind, EachOnce, Matches, Identify
    <2> QED BY <2>1, <2>2, <2>3
<1>5. ASSUME TrashFolder
      PROVE  IInv'
    <2>1. TypeOK'
        BY <1>5 DEF ConstantsOK, TypeOK, TrashFolder, Places
    <2>2. Progressed'
        BY <1>5 DEF TypeOK, Progressed, OneKind, UpTo, TrashFolder
    <2>3. Complete'
        BY <1>5 DEF TypeOK, Complete, OneKind, EachOnce, TrashFolder
    <2> QED BY <2>1, <2>2, <2>3
<1> QED BY <1>1, <1>2, <1>3, <1>4, <1>5

\* The type of what a page gives.
LEMMA PageType ==
    ASSUME ConstantsOK, TypeOK, Progressed, walk.step = "asking"
    PROVE  LET page == Page(walk.query, walk.cursor, walk.limit)
           IN  page.items \subseteq Ids /\ page.next \in Ids \cup {None}
<1>1. walk.limit \in Nat \ {0} /\ Named
    BY DEF ConstantsOK, TypeOK, Progressed, Named
<1>2. Rows(walk.query, walk.cursor) \subseteq Ids
    BY DEF Rows
<1> QED BY <1>1, <1>2, QueryType, PageIsFront

\* The next page: everything that stays and was not yet there, up to the new
\* cursor, or all of it.
LEMMA ListHolds ==
    ASSUME ConstantsOK, IInv, ListChildren
    PROVE  IInv'
<1> DEFINE q == walk.query
           c == walk.cursor
           page == Page(q, c, walk.limit)
           S == Rows(q, c)
<1> USE DEF IInv
<1>1. CASE folder # "active"
    <2>1. TypeOK' /\ Progressed' /\ Complete'
        BY <1>1 DEF ListChildren, children, TypeOK, Progressed, Complete, OneKind, EachOnce
    <2> QED BY <2>1
<1>2. CASE folder = "active"
    <2>1. walk.limit \in Nat \ {0} /\ Named /\ q \in Queries
        BY QueryType DEF ConstantsOK, ListChildren, TypeOK, Progressed, Named
    <2>2. /\ page.items \subseteq S
          /\ \/ page.next = None /\ page.items = S
             \/ /\ page.next \in page.items
                /\ \A i \in S : i \in page.items <=> i = page.next \/ Before(q, i, page.next)
        BY <2>1, PageIsFront
    <2>3. page.items \subseteq Ids /\ page.next \in Ids \cup {None}
        BY PageType DEF ListChildren
    <2>4. /\ walk.step = "asking"
          /\ seen' = [i \in Ids |->
                IF i \in page.items THEN Least(seen[i] + 1, 2) ELSE seen[i]]
          /\ walk' = [walk EXCEPT
                !.cursor = page.next,
                !.step = IF page.next = None THEN "done"
                         ELSE IF Cursored(q) THEN "asking" ELSE "cut"]
          /\ UNCHANGED <<children, steady, held, changes>>
        BY <1>2 DEF ListChildren
    <2> HIDE DEF page
    <2>5. walk'.query = q /\ walk'.limit = walk.limit /\ walk'.cursor = page.next
        BY <2>4 DEF TypeOK
    <2>6. /\ page.next = None => walk'.step = "done"
          /\ page.next # None /\ Cursored(q) => walk'.step = "asking"
          /\ page.next # None /\ ~Cursored(q) => walk'.step = "cut"
        <3>1. walk \in [step : {"idle", "asking", "done", "cut", "refused"},
                        query : Asks \cup {Default},
                        limit : Limits \cup {0}, cursor : Ids \cup {None}]
            BY DEF TypeOK
        <3>2. CASE page.next = None
            BY <2>4, <3>1, <3>2
        <3>3. CASE page.next # None /\ Cursored(q)
            BY <2>4, <3>1, <3>3
        <3>4. CASE page.next # None /\ ~Cursored(q)
            BY <2>4, <3>1, <3>4
        <3> QED BY <3>2, <3>3, <3>4
    <2>7. TypeOK'
        <3>1. seen' \in [Ids -> 0 .. 2]
            BY <2>4 DEF TypeOK, Least
        <3>2. walk' \in [step : {"idle", "asking", "done", "cut", "refused"},
                        query : Asks \cup {Default},
                        limit : Limits \cup {0}, cursor : Ids \cup {None}]
            <4>1. walk' = [step |-> walk'.step, query |-> q, limit |-> walk.limit,
                           cursor |-> page.next]
                BY <2>4, <2>5 DEF TypeOK
            <4>2. walk'.step \in {"asking", "done", "cut"}
                BY <2>6
            <4> QED BY <2>3, <4>1, <4>2 DEF TypeOK
        <3> QED BY <2>4, <3>1, <3>2 DEF TypeOK, children
    <2>8. ASSUME OneKind, held, NEW i \in steady
          PROVE  i \in Ids /\ seen'[i] = IF i \in page.items THEN seen[i] + 1 ELSE seen[i]
        BY <2>4, <2>8 DEF TypeOK, Progressed, Least
    <2>9. ASSUME OneKind, held, NEW i \in steady
          PROVE  i \in S <=> Matches(q, i) /\ seen[i] = 0
        BY <2>4, <2>9 DEF ConstantsOK, TypeOK, Progressed, Rows, UpTo, Cursored
    <2>10. Progressed'
        <3>1. walk'.step = "asking" => walk'.limit \in Limits
            BY <2>4, <2>5 DEF Progressed
        <3>2. \A i \in steady' : place'[i] = "here"
            BY <2>4 DEF Progressed, children
        <3>3. ASSUME OneKind, walk'.step = "asking", held'
              PROVE  IF walk'.cursor = None THEN \A i \in steady' : seen'[i] = 0
                     ELSE /\ Cursored(walk'.query)
                          /\ place'[walk'.cursor] \in {"here", "trashed"}
                          /\ \A i \in steady' :
                                seen'[i] = IF UpTo(i, walk.cursor)' THEN 1 ELSE 0
            <4>1. page.next # None /\ q = Default /\ held /\ OneKind
                BY <2>4, <2>6, <3>3 DEF Cursored
            <4>2. page.next \in page.items /\ page.next \in S /\ page.next \in Ids
                BY <2>2, <2>3, <4>1
            <4>3. place[page.next] = "here"
                BY <4>2 DEF Rows
            <4>4. ASSUME NEW i \in steady
                  PROVE  seen'[i] = IF UpTo(i, page.next) THEN 1 ELSE 0
                <5>1. i \in page.items <=> i \in S /\ UpTo(i, page.next)
                    BY <2>1, <2>2, <2>8, <4>1, <4>2, ByName
                <5>2. i \in S <=> seen[i] = 0
                    BY <2>9, <4>1 DEF Matches, Default
                <5>3. seen[i] = 1 => UpTo(i, page.next)
                    BY <2>4, <2>8, <4>1, <4>2 DEF ConstantsOK, TypeOK, Progressed, Rows,
                        UpTo, Cursored
                <5>4. seen[i] \in {0, 1}
                    BY <2>4, <4>1 DEF Progressed
                <5> QED BY <2>8, <4>1, <5>1, <5>2, <5>3, <5>4
            <4> QED BY <2>4, <2>5, <4>1, <4>2, <4>3, <4>4 DEF children, Cursored, UpTo
        <3> QED BY <3>1, <3>2, <3>3 DEF Progressed, OneKind, UpTo
    <2>11. Complete'
        <3>1. SUFFICES ASSUME OneKind, page.next = None, held, NEW i \in steady
                       PROVE  seen'[i] = IF Matches(q, i) THEN 1 ELSE 0
            BY <2>4, <2>5, <2>6 DEF Complete, OneKind, EachOnce, children, Matches
        <3>2. page.items = S
            BY <2>2, <3>1, ConstantsOK, <2>3 DEF ConstantsOK
        <3>3. i \in S <=> Matches(q, i) /\ seen[i] = 0
            BY <2>9, <3>1
        <3>4. seen[i] \in {0, 1} /\ (seen[i] = 1 => Matches(q, i))
            BY <2>4, <3>1 DEF Progressed, Cursored, Matches, Default
        <3> QED BY <2>8, <3>1, <3>2, <3>3, <3>4
    <2> QED BY <2>7, <2>10, <2>11
<1> QED BY <1>1, <1>2

\* All that a listing supposes is preserved.
LEMMA NextHolds ==
    ASSUME ConstantsOK, IInv, [Next]_vars
    PROVE  IInv'
<1>1. CASE UNCHANGED vars
    BY <1>1 DEF vars, children, history, IInv, TypeOK, Progressed, UpTo, Complete, OneKind,
        EachOnce, Matches
<1>2. ASSUME NEW q \in Asks, NEW limit \in Limits, Start(q, limit)
      PROVE  IInv'
    <2>1. TypeOK'
        BY <1>2 DEF IInv, ConstantsOK, TypeOK, Start, children
    <2>2. Progressed' /\ Complete'
        BY <1>2 DEF IInv, ConstantsOK, TypeOK, Start, children, Progressed, Complete,
            OneKind, EachOnce
    <2> QED BY <2>1, <2>2 DEF IInv
<1> QED BY <1>1, <1>2, ChangeHolds, ListHolds DEF Next

\* The types of the listing's state.
THEOREM TypeCorrect ==
    ASSUME ConstantsOK
    PROVE  Spec => []TypeOK
<1>1. IInv => TypeOK
    BY DEF IInv
<1> QED BY <1>1, InitHolds, NextHolds, PTL DEF Spec

\* A listing of files, or of folders, that came to its end has everything that
\* stayed in its folder once, for pages of any size and any changes that
\* leave the row of its cursor in place.
THEOREM ListingCorrect ==
    ASSUME ConstantsOK, OneKind
    PROVE  Spec => []EachOnce
<1>1. IInv => EachOnce
    BY DEF IInv, Complete
<1> QED BY <1>1, InitHolds, NextHolds, PTL DEF Spec
=============================================================================
