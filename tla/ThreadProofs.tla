---------------------------- MODULE ThreadProofs ----------------------------
(***************************************************************************)
(* Proofs about the two readers of a task's thread, CommentWalk and        *)
(* GetTaskSince; they share nothing but this module.                       *)
(*                                                                         *)
(* list_comments walks the thread and compares nothing but totals; what    *)
(* makes that enough is that the number of comments not newer than a given *)
(* one never grows.  A comment whose row the walk has not reached when the *)
(* total was T cannot, with the total T again, have moved to a page that   *)
(* the walk has already read.                                              *)
(***************************************************************************)
EXTENDS CommentWalk, GetTaskSince, FiniteSetTheorems, TLAPS

Below(c) == Cardinality({d \in thread : d <= c})

\* As long as the total is the same, the row of c is still to be read.
Ahead(c) == Below(c) <= walk.total - walk.page * PageSize

Copied(c, x, items) == \E y \in items : y[2] = c /\ x[1] <= y[1]

\* Whatever is between the cursor and a collected comment is collected from
\* the same page or a later one, or it is still ahead.
Covered ==
  \A x \in walk.items, c \in thread :
    cursor < c /\ c < x[2] => Ahead(c) \/ Copied(c, x, walk.items)

\* Pages collected are pages read, of comments written after the cursor's,
\* unless the cursor's comment is gone and the walk will find that out.
WithinRead == \A x \in walk.items : x[1] \in 1..walk.page /\ x[2] \in 1..written
CursorAhead ==
  /\ walk.form = "timestamp" => \A x \in walk.items : cursor < x[2]
  /\ walk.form = "uuid" /\ cursor \in thread /\ walk.page >= 1 =>
       Ahead(cursor) /\ \A x \in walk.items : cursor < x[2]

WalkInv == walk # NoWalk =>
  walk.form \in Forms /\ WithinRead /\ CursorAhead

\* A timestamp names one comment, or the agent names its cursor by uuid.
Exact == Forms \subseteq {"uuid"} \/ \A c, d \in Comments : c < d => CreatedAt[c] < CreatedAt[d]

Base == TypeOK /\ WalkInv
IInv == Base /\ (walk # NoWalk => Covered) /\ NothingSkipped

-----------------------------------------------------------------------------
(* Places in the listing *)

LEMMA ThreadInts ==
  ASSUME TypeOK
  PROVE  thread \subseteq Int /\ cursor \in Int /\ written \in Int
BY DEF TypeOK

LEMMA ThreadFinite ==
  ASSUME TypeOK
  PROVE  /\ IsFiniteSet(thread) /\ Cardinality(thread) \in Nat
         /\ \A c : IsFiniteSet({d \in thread : d > c}) /\ Place(c) \in Nat
         /\ \A c : IsFiniteSet({d \in thread : d <= c}) /\ Below(c) \in Nat
<1>1. written \in Int /\ thread \subseteq 1..written
  BY DEF TypeOK
<1>2. IsFiniteSet(1..written)
  BY <1>1, FS_Interval
<1>3. IsFiniteSet(thread)
  BY <1>1, <1>2, FS_Subset
<1>4. \A c : IsFiniteSet({d \in thread : d > c}) /\ IsFiniteSet({d \in thread : d <= c})
  BY <1>3, FS_Subset
<1> QED BY <1>3, <1>4, FS_CardinalityType DEF Place, Below

\* A comment's place and the number of those not newer make up the total.
LEMMA PlaceAndBelow ==
  ASSUME TypeOK, NEW c \in thread
  PROVE  Place(c) + Below(c) = Cardinality(thread) /\ Below(c) >= 1
<1> DEFINE up == {d \in thread : d > c}
           down == {d \in thread : d <= c}
<1>1. c \in Int /\ \A d \in thread : d \in Int
  BY DEF TypeOK
<1>2. up \cup down = thread /\ up \cap down = {}
  <2>1. \A d \in thread : (d > c) <=> ~(d <= c)
    BY <1>1
  <2> QED BY <2>1
<1>3. IsFiniteSet(up) /\ IsFiniteSet(down)
  BY ThreadFinite
<1>4. Cardinality(thread) = Cardinality(up) + Cardinality(down) - Cardinality({})
  BY <1>2, <1>3, FS_Union
<1>5. Cardinality({}) = 0
  BY FS_EmptySet
<1>6. Cardinality(up) = Place(c) /\ Cardinality(down) = Below(c)
  BY DEF Place, Below
<1>7. Place(c) \in Nat /\ Below(c) \in Nat
  BY ThreadFinite
<1>8. down # {}
  BY <1>1
<1>9. Below(c) # 0
  BY <1>3, <1>6, <1>8, FS_EmptySet
<1> QED BY <1>4, <1>5, <1>6, <1>7, <1>9

\* An older comment has a later place.
LEMMA PlaceOrder ==
  ASSUME TypeOK, NEW c \in thread, NEW d \in thread
  PROVE  /\ c < d => Place(d) < Place(c)
         /\ c <= d => Place(d) <= Place(c)
<1> DEFINE above(e) == {f \in thread : f > e}
<1>1. c \in Int /\ d \in Int /\ \A f \in thread : f \in Int
  BY DEF TypeOK
<1>2. IsFiniteSet(above(c)) /\ IsFiniteSet(above(d)) /\ Place(c) \in Nat /\ Place(d) \in Nat
  BY ThreadFinite
<1>3. c <= d => above(d) \subseteq above(c)
  <2>1. ASSUME c <= d PROVE \A f \in thread : f > d => f > c
    BY <1>1, <2>1
  <2> QED BY <2>1
<1>4. c <= d => Place(d) <= Place(c)
  BY <1>2, <1>3, FS_Subset DEF Place
<1>5. ASSUME c < d, Place(d) = Place(c) PROVE FALSE
  <2>1. above(d) = above(c)
    BY <1>1, <1>2, <1>3, <1>5, FS_Subset DEF Place
  <2>2. d \in above(c) /\ d \notin above(d)
    BY <1>1, <1>5
  <2> QED BY <2>1, <2>2
<1> QED BY <1>1, <1>2, <1>4, <1>5

-----------------------------------------------------------------------------
(* Reading one page *)

LEMMA WalkTypes ==
  ASSUME TypeOK, walk # NoWalk
  PROVE  /\ walk \in Walk
         /\ walk.form \in {"uuid", "timestamp"} /\ walk.page \in 0..MaxPages - 1
         /\ walk.total \in Nat /\ walk.items \subseteq (1..MaxPages) \X Comments
<1>1. walk \in Walk
  BY DEF TypeOK
<1> QED BY <1>1 DEF Walk

LEMMA NextPage ==
  ASSUME TypeOK, walk # NoWalk
  PROVE  /\ walk.page * PageSize \in Nat
         /\ (walk.page + 1) * PageSize = walk.page * PageSize + PageSize
<1>1. walk.page \in Nat /\ PageSize \in Nat
  BY WalkTypes, SizeAssumption
<1> QED BY <1>1

\* The rows before and of page n, without products.
LEMMA RowBounds ==
  ASSUME TypeOK, walk # NoWalk, NEW c \in thread
  PROVE  LET n == walk.page + 1
             s == walk.page * PageSize
         IN /\ s \in Nat /\ n * PageSize = s + PageSize
            /\ c \in Rows(n) <=> s <= Place(c) /\ Place(c) < s + PageSize
            /\ walk.page = 0 => s = 0
<1> DEFINE n == walk.page + 1
           s == walk.page * PageSize
<1>1. walk.page \in Nat /\ PageSize \in Nat
  BY WalkTypes, SizeAssumption
<1>2. s \in Nat /\ n * PageSize = s + PageSize /\ (n - 1) * PageSize = s
  BY <1>1
<1>3. walk.page = 0 => s = 0
  BY <1>1
<1>4. c \in Rows(n) <=> (n - 1) * PageSize <= Place(c) /\ Place(c) < n * PageSize
  BY DEF Rows
<1> QED BY <1>2, <1>3, <1>4

\* A row that is still ahead when an unchanged page is read is on it or after.
LEMMA AheadIsNext ==
  ASSUME TypeOK, walk # NoWalk, ~Changed(walk.page + 1), NEW c \in thread,
         walk.page >= 1 => Ahead(c)
  PROVE  walk.page * PageSize <= Place(c)
<1>1. walk.page \in Nat /\ walk.total \in Nat
  BY WalkTypes, SizeAssumption
<1>2. Place(c) + Below(c) = Cardinality(thread) /\ Place(c) \in Nat /\ Below(c) \in Nat
  BY PlaceAndBelow, ThreadFinite
<1>3. walk.page * PageSize \in Nat /\ (walk.page = 0 => walk.page * PageSize = 0)
  BY RowBounds
<1>4. walk.page >= 1 => Cardinality(thread) = walk.total
  BY <1>1 DEF Changed
<1>5. walk.page >= 1 => Below(c) <= walk.total - walk.page * PageSize
  BY DEF Ahead
<1> QED BY <1>1, <1>2, <1>3, <1>4, <1>5

\* What is newer than the cursor, on the page, is taken.
LEMMA NewerIsTaken ==
  ASSUME TypeOK, WalkInv, walk # NoWalk, Exact, NEW c \in Rows(walk.page + 1), cursor < c
  PROVE  c \in Taken(Rows(walk.page + 1))
<1>1. c \in Comments /\ cursor \in Comments
  BY SizeAssumption DEF TypeOK, Rows, Comments
<1>2. walk.form # "uuid" => CreatedAt[cursor] < CreatedAt[c]
  BY <1>1 DEF Exact, WalkInv
<1>3. CreatedAt[c] \in Nat /\ CreatedAt[cursor] \in Nat
  BY <1>1, CursorAssumption
<1> QED BY <1>2, <1>3 DEF Taken

\* The heart: after an unchanged page, what is between the cursor and a
\* collected comment is collected, or is beyond the page.
LEMMA CollectedCovered ==
  ASSUME IInv, Exact, walk # NoWalk, ~Changed(walk.page + 1),
         NEW x \in Collected(walk.page + 1), NEW c \in thread, cursor < c, c < x[2]
  PROVE  \/ (walk.page + 1) * PageSize <= Place(c)
         \/ Copied(c, x, Collected(walk.page + 1))
<1> DEFINE n == walk.page + 1
           s == walk.page * PageSize
           all == Collected(n)
<1> USE DEF IInv, Base
<1>1. /\ walk.page \in Nat /\ walk.total \in Nat /\ PageSize \in Nat
      /\ walk.items \subseteq (1..MaxPages) \X Comments
  BY WalkTypes, SizeAssumption
<1>2. /\ s \in Nat /\ n * PageSize = s + PageSize
      /\ c \in Rows(n) <=> s <= Place(c) /\ Place(c) < s + PageSize
  BY RowBounds
<1>3. Place(c) \in Nat
  BY ThreadFinite
<1>4. SUFFICES ASSUME Place(c) < s + PageSize PROVE Copied(c, x, all)
  BY <1>2, <1>3, <1>1
<1>5. c \in Rows(n) => <<n, c>> \in all
  BY NewerIsTaken DEF Collected
<1>6. CASE x \in walk.items
  <2>1. x[1] \in 1..walk.page
    BY <1>6 DEF WalkInv, WithinRead
  <2>2. Ahead(c) \/ Copied(c, x, walk.items)
    BY <1>6 DEF Covered
  <2>3. CASE Copied(c, x, walk.items)
    BY <2>3 DEF Copied, Collected
  <2>4. CASE Ahead(c)
    <3>1. s <= Place(c)
      BY <2>4, AheadIsNext
    <3>2. <<n, c>> \in all
      BY <3>1, <1>2, <1>4, <1>5
    <3>3. x[1] <= n
      BY <2>1, <1>1
    <3> QED BY <3>2, <3>3 DEF Copied
  <2> QED BY <2>2, <2>3, <2>4
<1>7. CASE x \in {n} \X Taken(Rows(n))
  <2>1. x[1] = n /\ x[2] \in Rows(n)
    BY <1>7 DEF Taken
  <2>2. x[2] \in thread /\ s <= Place(x[2])
    BY <2>1, RowBounds DEF Rows
  <2>3. Place(x[2]) <= Place(c) /\ Place(x[2]) \in Nat
    <3>1. c <= x[2]
      <4>1. c \in Int /\ x[2] \in Int
        BY <2>2, ThreadInts
      <4> QED BY <4>1
    <3>2. Place(x[2]) \in Nat
      BY <2>2, ThreadFinite
    <3> QED BY <2>2, <3>1, <3>2, PlaceOrder
  <2>4. <<n, c>> \in all
    BY <1>2, <1>3, <1>4, <1>5, <2>2, <2>3
  <2> QED BY <2>1, <2>4, <1>1 DEF Copied
<1> QED BY <1>6, <1>7 DEF Collected

\* By either name of the cursor, what is collected up to it is newer, and a
\* cursor that is not on the page is beyond it.
LEMMA CollectedNewer ==
  ASSUME Base, walk # NoWalk, ~Changed(walk.page + 1),
         walk.form = "uuid" => cursor \in thread
  PROVE  /\ \A x \in Collected(walk.page + 1) : cursor < x[2]
         /\ walk.form = "uuid" /\ cursor \notin Rows(walk.page + 1) =>
              (walk.page + 1) * PageSize <= Place(cursor)
<1> DEFINE n == walk.page + 1
           s == walk.page * PageSize
<1> USE DEF Base
<1>1. /\ walk.page \in Nat /\ walk.form \in {"uuid", "timestamp"}
      /\ walk.items \subseteq (1..MaxPages) \X Comments
      /\ cursor \in Int /\ thread \subseteq Int
  BY WalkTypes, SizeAssumption DEF TypeOK
<1>2. PageSize \in Nat
  BY SizeAssumption
<1>3. s \in Nat /\ n * PageSize = s + PageSize
  BY NextPage
<1>4. \A c \in thread : c \in Rows(n) <=> s <= Place(c) /\ Place(c) < s + PageSize
  BY RowBounds
<1>5. walk.page = 0 => walk.items = {}
  BY <1>1 DEF WalkInv, WithinRead
<1>6. CASE walk.form = "timestamp"
  <2>1. \A x \in walk.items : cursor < x[2]
    BY <1>6 DEF WalkInv, CursorAhead
  <2>2. \A c \in Taken(Rows(n)) : c \in Comments /\ CreatedAt[cursor] < CreatedAt[c]
    BY <1>6, SizeAssumption DEF Taken, Rows, TypeOK, Comments
  <2>3. cursor \in Comments
    BY SizeAssumption DEF TypeOK, Comments
  <2>4. \A c \in Taken(Rows(n)) : cursor < c
    <3>1. TAKE c \in Taken(Rows(n))
    <3>2. c \in Comments /\ CreatedAt[cursor] < CreatedAt[c]
      BY <2>2
    <3>3. c <= cursor => CreatedAt[c] <= CreatedAt[cursor]
      BY <2>3, <3>2, CursorAssumption
    <3>4. CreatedAt[c] \in Nat /\ CreatedAt[cursor] \in Nat
      BY <2>3, <3>2, CursorAssumption
    <3> QED BY <2>3, <3>2, <3>3, <3>4 DEF Comments
  <2> QED BY <1>6, <2>1, <2>4 DEF Collected
<1>7. CASE walk.form = "uuid"
  <2>1. cursor \in thread
    BY <1>7
  <2>2. walk.page >= 1 => Ahead(cursor) /\ \A x \in walk.items : cursor < x[2]
    BY <1>7, <2>1 DEF WalkInv, CursorAhead
  <2>3. \A x \in walk.items : cursor < x[2]
    BY <2>2, <1>5, <1>1
  <2>4. s <= Place(cursor) /\ Place(cursor) \in Nat
    BY <2>1, <2>2, AheadIsNext, ThreadFinite
  <2>5. cursor \notin Rows(n) => s + PageSize <= Place(cursor)
    BY <1>2, <1>3, <1>4, <2>1, <2>4
  <2>6. \A c \in Taken(Rows(n)) : cursor < c
    <3>1. TAKE c \in Taken(Rows(n))
    <3>2. c \in Rows(n) /\ c \in thread /\ (cursor \in Rows(n) => cursor < c)
      BY <1>1, <1>7 DEF Taken, Rows
    <3>5. c \in Int /\ cursor \in Int
      BY <1>1, <3>2
    <3>3. SUFFICES ASSUME cursor \notin Rows(n), c <= cursor PROVE FALSE
      BY <3>2, <3>5
    <3>4. Place(cursor) <= Place(c) /\ Place(c) < s + PageSize /\ Place(c) \in Nat
      BY <1>4, <2>1, <3>2, <3>3, PlaceOrder, ThreadFinite
    <3> QED BY <1>2, <1>3, <2>4, <2>5, <3>3, <3>4
  <2> QED BY <1>3, <2>3, <2>5, <2>6 DEF Collected
<1> QED BY <1>1, <1>6, <1>7

-----------------------------------------------------------------------------
(* What is shown *)

LEMMA CollectedTypes ==
  ASSUME Base, walk # NoWalk
  PROVE  /\ Collected(walk.page + 1) \subseteq (1..MaxPages) \X Comments
         /\ IsFiniteSet(Collected(walk.page + 1))
         /\ \A x \in Collected(walk.page + 1) :
              x[1] \in 1..walk.page + 1 /\ x[2] \in 1..written
<1> DEFINE n == walk.page + 1
<1>1. /\ walk.page \in 0..MaxPages - 1 /\ walk.items \subseteq (1..MaxPages) \X Comments
      /\ MaxPages \in Nat /\ MaxComment \in Nat
  BY WalkTypes, SizeAssumption DEF Base
<1>2. written \in 0..MaxComment /\ thread \subseteq 1..written
  BY DEF Base, TypeOK
<1>3. Taken(Rows(n)) \subseteq 1..written
  BY <1>2 DEF Taken, Rows
<1>4. n \in 1..MaxPages /\ 1..written \subseteq Comments
  BY <1>1, <1>2 DEF Comments
<1>5. Collected(n) \subseteq (1..MaxPages) \X Comments
  BY <1>1, <1>3, <1>4 DEF Collected
<1>6. IsFiniteSet(1..MaxPages) /\ IsFiniteSet(Comments)
  <2>1. MaxPages \in Int /\ MaxComment \in Int /\ 1 \in Int
    BY <1>1
  <2>2. IsFiniteSet(1..MaxPages)
    BY <2>1, FS_Interval
  <2>3. IsFiniteSet(1..MaxComment)
    BY <2>1, FS_Interval
  <2> QED BY <2>2, <2>3 DEF Comments
<1>7. IsFiniteSet(Collected(n))
  BY <1>5, <1>6, FS_Product, FS_Subset
<1>8. \A x \in walk.items : x[1] \in 1..walk.page /\ x[2] \in 1..written
  BY DEF Base, WalkInv, WithinRead
<1>9. \A x \in walk.items : x[1] \in 1..n /\ x[2] \in 1..written
  BY <1>1, <1>8
<1>10. \A x \in {n} \X Taken(Rows(n)) : x[1] \in 1..n /\ x[2] \in 1..written
  BY <1>3, <1>4
<1> QED BY <1>5, <1>7, <1>9, <1>10 DEF Collected

\* The first page is what comes first: with a row all that precede it.
LEMMA ShownIsPrefix ==
  ASSUME Base, walk # NoWalk
  PROVE  /\ Shown \subseteq Collected(walk.page + 1)
         /\ \A x \in Shown, y \in Collected(walk.page + 1) : Earlier(x, y) => y \in Shown
<1> DEFINE all == Collected(walk.page + 1)
           count == Cardinality(all)
           before(x) == {z \in all : Precedes("asc", z, x)}
<1>1. IsFiniteSet(all) /\ all \subseteq (1..MaxPages) \X Comments
  BY CollectedTypes
<1>2. count \in Nat
  BY <1>1, FS_CardinalityType
<1>3. Limit \in Nat /\ Limit >= 1
  BY SizeAssumption
<1>4. Start(count, Limit, 1) = 0
  <2>1. 0 <= count \div Limit
    BY <1>2, <1>3
  <2>2. 1 - 1 = 0 /\ 0 * Limit = 0
    BY <1>3
  <2> HIDE DEF count
  <2> QED BY <2>1, <2>2 DEF Start
<1>5. \A x : Cardinality(before(x)) \in Nat /\ IsFiniteSet(before(x))
  <2>1. \A x : before(x) \subseteq all
    OBVIOUS
  <2>2. \A x : IsFiniteSet(before(x))
    BY <1>1, <2>1, FS_Subset
  <2> QED BY <2>2, FS_CardinalityType
<1>6. Shown = {x \in all : /\ 0 <= Cardinality(before(x))
                          /\ Cardinality(before(x)) < End(count, Limit, 1)}
  BY <1>4 DEF Shown, Slice, Index
<1>7. End(count, Limit, 1) \in Int
  <2> HIDE DEF count
  <2> QED BY <1>2, <1>3, <1>4 DEF End
<1>8. ASSUME NEW x \in Shown, NEW y \in all, Earlier(x, y) PROVE y \in Shown
  <2>1. x \in all
    BY <1>6
  <2>2. \A z \in all : Earlier(y, z) => Earlier(x, z)
    <3>1. \A z \in all : z[1] \in Int /\ z[2] \in Int
      BY <1>1 DEF Comments
    <3> QED BY <2>1, <3>1, <1>8 DEF Earlier
  <2>3. before(y) \subseteq before(x)
    BY <2>2 DEF Precedes
  <2>4. Cardinality(before(y)) <= Cardinality(before(x))
    BY <1>5, <2>3, FS_Subset
  <2>5. Cardinality(before(x)) < End(count, Limit, 1)
    BY <1>6
  <2>6. Cardinality(before(y)) \in Nat /\ Cardinality(before(x)) \in Nat
    BY <1>5
  <2> HIDE DEF before, count
  <2>7. /\ 0 <= Cardinality(before(y))
        /\ Cardinality(before(y)) < End(count, Limit, 1)
    BY <1>7, <2>4, <2>5, <2>6
  <2> QED BY <1>6, <2>7
<1> QED BY <1>6, <1>8

-----------------------------------------------------------------------------
(* The steps *)

LEMMA InitInv == Init => IInv
<1> SUFFICES ASSUME Init PROVE IInv
  OBVIOUS
<1>1. Standing \in Nat /\ 1 <= Standing /\ Standing <= MaxComment /\ MaxComment \in Nat
  BY SizeAssumption DEF Comments
<1>2. TypeOK
  BY <1>1 DEF Init, TypeOK
<1>3. NothingSkipped
  BY <1>1 DEF Init, NothingSkipped
<1> QED BY <1>2, <1>3 DEF Init, IInv, Base, WalkInv

\* Nothing the walk relies on is disturbed when comments come or go.
LEMMA ThreadMoves ==
  ASSUME TypeOK, TypeOK', UNCHANGED <<walk, cursor>>, written <= written',
         \A c \in thread' : c \in thread \/ c > written,
         walk # NoWalk
  PROVE  /\ \A c \in thread' \cap thread : Ahead(c) => Ahead(c)'
         /\ WalkInv => WalkInv'
         /\ WalkInv /\ Covered => Covered'
<1>1. /\ walk.page \in Nat /\ walk.total \in Nat /\ PageSize \in Nat
      /\ walk.page * PageSize \in Nat
  BY WalkTypes, NextPage, SizeAssumption
<1>2. /\ thread \subseteq 1..written /\ thread' \subseteq Int
      /\ written \in Nat /\ written' \in Nat /\ cursor \in 1..written
  BY SizeAssumption DEF TypeOK
<1>3. ASSUME NEW c \in thread' \cap thread, Ahead(c) PROVE Ahead(c)'
  <2> DEFINE down == {d \in thread : d <= c}
             after == {d \in thread' : d <= c}
  <2>1. after \subseteq down
    <3>1. ASSUME NEW d \in thread', d <= c PROVE d \in thread
      BY <1>2, <3>1
    <3> QED BY <3>1
  <2>2. IsFiniteSet(down) /\ Below(c) \in Nat /\ Below(c)' \in Nat
    <3>1. IsFiniteSet(down) /\ Below(c) \in Nat
      BY ThreadFinite
    <3>2. IsFiniteSet(after)
      BY <2>1, <3>1, FS_Subset
    <3> QED BY <3>1, <3>2, FS_CardinalityType DEF Below
  <2>3. Below(c)' <= Below(c)
    BY <2>1, <2>2, FS_Subset DEF Below
  <2>4. Below(c) <= walk.total - walk.page * PageSize
    BY <1>3 DEF Ahead
  <2>5. Below(c)' <= walk.total - walk.page * PageSize
    BY <1>1, <2>2, <2>3, <2>4
  <2> QED BY <2>5 DEF Ahead
<1>4. ASSUME WalkInv PROVE WalkInv'
  <2>1. walk' = walk /\ cursor' = cursor
    OBVIOUS
  <2>2. WithinRead'
    <3>1. \A x \in walk.items : x[1] \in 1..walk.page /\ x[2] \in 1..written
      BY <1>4 DEF WalkInv, WithinRead
    <3>2. 1..written \subseteq 1..written'
      BY <1>2
    <3> QED BY <2>1, <3>1, <3>2 DEF WithinRead
  <2>3. CursorAhead'
    <3>1. cursor \in thread' => cursor \in thread
      BY <1>2
    <3> QED BY <1>3, <1>4, <2>1, <3>1 DEF WalkInv, CursorAhead
  <2> QED BY <1>4, <2>1, <2>2, <2>3 DEF WalkInv
<1>5. ASSUME WalkInv, Covered PROVE Covered'
  <2>1. SUFFICES ASSUME NEW x \in walk.items, NEW c \in thread', cursor < c, c < x[2]
                 PROVE  Ahead(c)' \/ Copied(c, x, walk.items)
    BY DEF Covered, Copied
  <2>2. x[2] \in 1..written
    BY <1>5 DEF WalkInv, WithinRead
  <2>3. c \in thread
    BY <1>2, <2>1, <2>2
  <2>4. Ahead(c) \/ Copied(c, x, walk.items)
    BY <1>5, <2>1, <2>3 DEF Covered
  <2> QED BY <1>3, <2>3, <2>4
<1> QED BY <1>3, <1>4, <1>5

LEMMA ReadOnInv ==
  ASSUME Base, ReadOn
  PROVE  Base' /\ (Exact /\ IInv => Covered')
<1> DEFINE n == walk.page + 1
           s == walk.page * PageSize
<1> USE DEF Base
<1>1. /\ walk # NoWalk /\ ~Changed(n) /\ ~Complete /\ HasMore(n) /\ n < MaxPages
      /\ walk' = [walk EXCEPT !.page = n, !.items = Collected(n),
                             !.total = IF n = 1 THEN Cardinality(thread) ELSE @]
      /\ UNCHANGED <<written, thread, cursor, seen>>
  BY DEF ReadOn
<1>2. /\ walk \in Walk /\ walk.page \in 0..MaxPages - 1 /\ walk.total \in Nat
      /\ walk.form \in {"uuid", "timestamp"} /\ MaxPages \in Nat
  BY <1>1, WalkTypes, SizeAssumption
<1>3. Cardinality(thread) \in Nat
  BY ThreadFinite
<1>4. /\ Collected(n) \subseteq (1..MaxPages) \X Comments
      /\ \A x \in Collected(n) : x[1] \in 1..n /\ x[2] \in 1..written
  BY <1>1, CollectedTypes
<1>5. /\ walk'.form = walk.form /\ walk'.page = n /\ walk'.items = Collected(n)
      /\ walk'.total = IF n = 1 THEN Cardinality(thread) ELSE walk.total
      /\ walk' \in Walk /\ walk' # NoWalk
  <2>1. n \in 0..MaxPages - 1
    BY <1>1, <1>2
  <2>2. walk' \in Walk
    BY <1>1, <1>2, <1>3, <1>4, <2>1 DEF Walk
  <2> QED BY <1>1, <1>2, <2>2, NoWalkAssumption DEF Walk
<1>6. TypeOK'
  BY <1>1, <1>5 DEF TypeOK
<1>7. walk'.total = Cardinality(thread)
  BY <1>1, <1>2, <1>5 DEF Changed
<1>8. PageSize \in Nat /\ s \in Nat /\ n * PageSize = s + PageSize
  BY <1>1, NextPage, SizeAssumption
\* What is beyond this page is ahead afterwards.
<1>9. ASSUME NEW c \in thread, n * PageSize <= Place(c) PROVE Ahead(c)'
  <2>1. Place(c) + Below(c) = Cardinality(thread) /\ Place(c) \in Nat /\ Below(c) \in Nat
    BY PlaceAndBelow, ThreadFinite
  <2>2. Below(c) <= Cardinality(thread) - n * PageSize
    BY <1>3, <1>8, <1>9, <2>1
  <2>3. Below(c)' = Below(c)
    BY <1>1 DEF Below
  <2> QED BY <1>5, <1>7, <2>2, <2>3 DEF Ahead
<1>10. WithinRead'
  BY <1>1, <1>4, <1>5 DEF WithinRead
<1>11. CursorAhead'
  <2>1. walk.form = "uuid" => cursor \notin Rows(n)
    BY <1>1 DEF Complete, Found
  <2>2. CASE walk.form = "timestamp"
    BY <1>1, <1>5, <2>2, CollectedNewer DEF CursorAhead
  <2>3. CASE walk.form = "uuid"
    <3>1. SUFFICES ASSUME cursor \in thread
                   PROVE  Ahead(cursor)' /\ \A x \in Collected(n) : cursor < x[2]
      BY <1>1, <1>5, <2>3 DEF CursorAhead
    <3>2. n * PageSize <= Place(cursor) /\ \A x \in Collected(n) : cursor < x[2]
      BY <1>1, <2>1, <2>3, <3>1, CollectedNewer
    <3>3. \A c \in thread : n * PageSize <= Place(c) => Ahead(c)'
      BY <1>9
    <3>4. Ahead(cursor)'
      BY <1>1, <1>9, <3>1, <3>2 DEF Ahead, Below
    <3> QED BY <3>2, <3>4
  <2> QED BY <1>2, <2>2, <2>3
<1>12. WalkInv'
  BY <1>1, <1>5, <1>10, <1>11 DEF WalkInv
<1>13. ASSUME Exact, IInv PROVE Covered'
  <2>1. SUFFICES ASSUME NEW x \in Collected(n), NEW c \in thread, cursor < c, c < x[2]
                 PROVE  Ahead(c)' \/ Copied(c, x, Collected(n))
    BY <1>1, <1>5 DEF Covered, Copied
  <2>2. n * PageSize <= Place(c) \/ Copied(c, x, Collected(n))
    BY <1>1, <1>13, <2>1, CollectedCovered
  <2> QED BY <1>9, <2>2
<1> QED BY <1>6, <1>12, <1>13

LEMMA ShowInv ==
  ASSUME Base, Show
  PROVE  Base' /\ cursor <= cursor' /\ (Exact /\ IInv => NothingSkipped')
<1> DEFINE n == walk.page + 1
           all == Collected(n)
<1> USE DEF Base
<1>1. /\ walk # NoWalk /\ ~Changed(n) /\ Complete /\ walk' = NoWalk
      /\ seen' = seen \cup {x[2] : x \in Shown}
      /\ UNCHANGED <<written, thread>>
  BY DEF Show
<1>2. \/ Shown = {} /\ cursor' = cursor
      \/ \E x \in Shown : (\A y \in Shown \ {x} : Earlier(x, y)) /\ cursor' = x[2]
  BY DEF Show, Precedes
<1>3. /\ Shown \subseteq all
      /\ \A x \in Shown, y \in all : Earlier(x, y) => y \in Shown
  BY <1>1, ShownIsPrefix
<1>4. /\ all \subseteq (1..MaxPages) \X Comments
      /\ \A x \in all : x[1] \in 1..n /\ x[2] \in 1..written
  BY <1>1, CollectedTypes
<1>5. walk.form \in {"uuid", "timestamp"} /\ thread \subseteq Int /\ cursor \in 1..written
      /\ thread \subseteq 1..written /\ seen \subseteq 1..written /\ written \in 0..MaxComment
  BY <1>1, WalkTypes, ThreadInts DEF TypeOK
<1>6. walk.form = "uuid" => cursor \in Rows(n) /\ cursor \in thread
  BY <1>1 DEF Complete, Found, Rows
<1>7. \A x \in all : cursor < x[2]
  BY <1>1, <1>6, CollectedNewer
<1>8. cursor <= cursor' /\ cursor' \in 1..written
  BY <1>2, <1>3, <1>4, <1>5, <1>7
<1>9. TypeOK'
  <2>1. {x[2] : x \in Shown} \subseteq 1..written
    BY <1>3, <1>4
  <2>2. seen' \subseteq 1..written
    BY <1>1, <1>5, <2>1
  <2> QED BY <1>1, <1>5, <1>8, <2>2 DEF TypeOK
<1>10. WalkInv'
  BY <1>1 DEF WalkInv
\* Nothing between the cursor and a collected comment is beyond the last page.
<1>11. ASSUME NEW c \in thread, cursor < c PROVE ~(n * PageSize <= Place(c))
  <2>1. /\ Cardinality(thread) \in Nat /\ Place(c) \in Nat /\ Below(c) \in Nat
        /\ Place(c) + Below(c) = Cardinality(thread) /\ Below(c) >= 1
    BY ThreadFinite, PlaceAndBelow
  <2>2. n * PageSize \in Nat
    <3>1. walk.page * PageSize \in Nat /\ n * PageSize = walk.page * PageSize + PageSize
      BY <1>1, NextPage
    <3> QED BY <3>1, SizeAssumption
  <2>3. CASE cursor \in Rows(n)
    <3>1. cursor \in thread /\ Place(cursor) < n * PageSize
      BY <2>3 DEF Rows
    <3>2. Place(c) < Place(cursor) /\ Place(cursor) \in Nat
      BY <1>11, <3>1, PlaceOrder, ThreadFinite
    <3> QED BY <2>1, <2>2, <3>1, <3>2
  <2>4. CASE ~HasMore(n)
    BY <2>1, <2>2, <2>4 DEF HasMore
  <2> QED BY <1>1, <2>3, <2>4 DEF Complete, Found
<1>12. ASSUME Exact, IInv PROVE NothingSkipped'
  <2>1. SUFFICES ASSUME NEW c \in thread, c <= cursor' PROVE c \in seen'
    BY <1>1 DEF NothingSkipped
  <2>2. CASE c <= cursor
    BY <1>1, <1>12, <2>2 DEF IInv, NothingSkipped
  <2>3. CASE cursor < c
    <3>1. PICK x \in Shown : cursor' = x[2]
      BY <1>2, <1>5, <2>1, <2>3
    <3>2. x \in all /\ x[2] \in Int /\ x[1] \in Int /\ c \in Int
      BY <1>3, <1>4, <1>5
    <3>3. CASE c = x[2]
      BY <1>1, <3>3
    <3>4. CASE c < x[2]
      <4>1. Copied(c, x, all)
        BY <1>1, <1>11, <1>12, <2>3, <3>2, <3>4, CollectedCovered
      <4>2. PICK y \in all : y[2] = c /\ x[1] <= y[1]
        BY <4>1 DEF Copied
      <4>3. y[1] \in Int
        BY <1>4
      <4>4. Earlier(x, y)
        BY <3>2, <3>4, <4>2, <4>3 DEF Earlier
      <4>5. y \in Shown
        BY <1>3, <4>4
      <4> QED BY <1>1, <4>2, <4>5
    <3> QED BY <2>1, <3>1, <3>2, <3>3, <3>4
  <2> QED BY <1>5, <2>2, <2>3
<1> QED BY <1>8, <1>9, <1>10, <1>12

\* Every step keeps the invariant, and none takes the cursor back.
LEMMA StepInv ==
  ASSUME Base, [Next]_vars
  PROVE  Base' /\ cursor <= cursor' /\ (Exact /\ IInv => IInv')
<1> USE DEF Base
<1>1. /\ MaxComment \in Nat /\ written \in 0..MaxComment /\ cursor \in 1..written
      /\ thread \subseteq 1..written /\ seen \subseteq 1..written
  BY SizeAssumption DEF TypeOK
<1>2. cursor <= cursor
  BY <1>1
<1>3. CASE Post
  <2>1. /\ written' = written + 1 /\ thread' = thread \cup {written + 1}
        /\ UNCHANGED <<walk, cursor, seen>> /\ written < MaxComment
    BY <1>3 DEF Post
  <2>2. TypeOK'
    <3>1. written' \in 0..MaxComment /\ 1..written \subseteq 1..written'
      BY <1>1, <2>1
    <3>2. written + 1 \in 1..written'
      BY <1>1, <2>1
    <3> QED BY <1>1, <2>1, <3>1, <3>2 DEF TypeOK
  <2>3. written <= written' /\ \A c \in thread' : c \in thread \/ c > written
    BY <1>1, <2>1
  <2>4. WalkInv' /\ (walk # NoWalk /\ Covered => Covered')
    BY <2>1, <2>2, <2>3, ThreadMoves DEF WalkInv
  <2>5. NothingSkipped => NothingSkipped'
    <3>1. \A c \in thread' : c <= cursor' => c \in thread
      BY <1>1, <2>1
    <3> QED BY <2>1, <3>1 DEF NothingSkipped
  <2> QED BY <1>2, <2>1, <2>2, <2>4, <2>5 DEF IInv
<1>4. CASE \E c \in Comments : Delete(c)
  <2>1. PICK c \in Comments : Delete(c)
    BY <1>4
  <2>2. thread' = thread \ {c} /\ UNCHANGED <<written, walk, cursor, seen>>
    BY <2>1 DEF Delete
  <2>3. TypeOK'
    BY <1>1, <2>2 DEF TypeOK
  <2>4. written <= written' /\ \A d \in thread' : d \in thread \/ d > written
    BY <1>1, <2>2
  <2>5. WalkInv' /\ (walk # NoWalk /\ Covered => Covered')
    BY <2>2, <2>3, <2>4, ThreadMoves DEF WalkInv
  <2>6. NothingSkipped => NothingSkipped'
    BY <2>2 DEF NothingSkipped
  <2> QED BY <1>2, <2>2, <2>3, <2>5, <2>6 DEF IInv
<1>5. CASE \E form \in Forms : Ask(form)
  <2>1. PICK form \in Forms : Ask(form)
    BY <1>5
  <2>2. /\ walk' = [form |-> form, page |-> 0, total |-> 0, items |-> {}]
        /\ UNCHANGED <<written, thread, cursor, seen>>
    BY <2>1 DEF Ask
  <2>3. walk' \in Walk /\ walk'.items = {} /\ walk'.form = form /\ walk'.page = 0
    BY <2>2, CursorAssumption, SizeAssumption DEF Walk
  <2>4. TypeOK'
    BY <1>1, <2>2, <2>3 DEF TypeOK
  <2>5. WalkInv' /\ Covered'
    BY <2>2, <2>3 DEF WalkInv, WithinRead, CursorAhead, Covered
  <2>6. NothingSkipped => NothingSkipped'
    BY <2>2 DEF NothingSkipped
  <2> QED BY <1>2, <2>2, <2>4, <2>5, <2>6 DEF IInv
<1>6. CASE ReadOn
  <2>1. Base' /\ (Exact /\ IInv => Covered')
    BY <1>6, ReadOnInv
  <2>2. UNCHANGED <<thread, cursor, seen>>
    BY <1>6 DEF ReadOn
  <2>3. NothingSkipped => NothingSkipped'
    BY <2>2 DEF NothingSkipped
  <2> QED BY <1>2, <2>1, <2>2, <2>3 DEF IInv
<1>7. CASE Show
  <2>1. Base' /\ cursor <= cursor' /\ (Exact /\ IInv => NothingSkipped')
    BY <1>7, ShowInv
  <2>2. walk' = NoWalk
    BY <1>7 DEF Show
  <2> QED BY <2>1, <2>2 DEF IInv
<1>8. CASE Refuse \/ Break
  <2>1. walk' = NoWalk /\ UNCHANGED <<written, thread, cursor, seen>>
    BY <1>8 DEF Refuse, Break
  <2>2. TypeOK' /\ WalkInv'
    BY <1>1, <2>1 DEF TypeOK, WalkInv
  <2>3. NothingSkipped => NothingSkipped'
    BY <2>1 DEF NothingSkipped
  <2> QED BY <1>2, <2>1, <2>2, <2>3 DEF IInv
<1>9. CASE UNCHANGED vars
  <2>1. UNCHANGED <<written, thread, walk, cursor, seen>>
    BY <1>9 DEF vars
  <2>2. TypeOK' /\ WalkInv'
    BY <2>1 DEF TypeOK, WalkInv, WithinRead, CursorAhead, Ahead, Below
  <2>3. (Covered => Covered') /\ (NothingSkipped => NothingSkipped')
    BY <2>1 DEF Covered, Ahead, Below, Copied, NothingSkipped
  <2> QED BY <1>2, <2>1, <2>2, <2>3 DEF IInv
<1> QED BY <1>3, <1>4, <1>5, <1>6, <1>7, <1>8, <1>9 DEF Next

-----------------------------------------------------------------------------
(* The theorems *)

LEMMA BaseInvariant == Spec => []Base
<1>1. Init => Base
  BY InitInv DEF IInv
<1>2. Base /\ [Next]_vars => Base'
  BY StepInv
<1> QED BY <1>1, <1>2, PTL DEF Spec

\* Type correctness, for all page sizes and numbers of comments (commentsAfter).
THEOREM TypeCorrect == Spec => []TypeOK
<1>1. Base => TypeOK
  BY DEF Base
<1> QED BY <1>1, BaseInvariant, PTL

\* The cursor of an agent that follows a thread never goes back, however its
\* comment is named and whatever happens to it (commentsAfter).
THEOREM NewerOnlyHolds == Spec => NewerOnly
<1>1. Base /\ [Next]_vars => [cursor' >= cursor]_vars
  <2> SUFFICES ASSUME Base, [Next]_vars PROVE cursor' >= cursor
    OBVIOUS
  <2>1. cursor <= cursor' /\ Base'
    BY StepInv
  <2>2. cursor \in Int /\ cursor' \in Int
    BY <2>1 DEF Base, TypeOK
  <2> QED BY <2>1, <2>2
<1> QED BY <1>1, BaseInvariant, PTL DEF Spec, NewerOnly

\* No comment is lost to an agent that names its cursor by uuid, or by a
\* timestamp that no two comments share, whatever is written and deleted
\* between the pages of its walks (commentsAfter).
THEOREM NothingSkippedHolds == ASSUME Exact PROVE Spec => []NothingSkipped
<1>1. Init => IInv
  BY InitInv
<1>2. IInv /\ [Next]_vars => IInv'
  <2> SUFFICES ASSUME IInv, [Next]_vars PROVE IInv'
    OBVIOUS
  <2>1. Base
    BY DEF IInv
  <2> QED BY <2>1, StepInv
<1>3. IInv => NothingSkipped
  BY DEF IInv
<1> QED BY <1>1, <1>2, <1>3, PTL DEF Spec

-----------------------------------------------------------------------------
(* The page of the delta that is returned.                                 *)

LEMMA QuotientBounds ==
  ASSUME NEW n \in Nat, NEW limit \in Nat \ {0}
  PROVE  /\ n \div limit \in Nat
         /\ limit * (n \div limit) <= n /\ n < limit * (n \div limit) + limit
<1>1. n \div limit \in Int /\ n = limit * (n \div limit) + (n % limit)
      /\ n % limit \in 0..(limit - 1)
  OBVIOUS
<1>2. QED
  BY <1>1

LEMMA Multiples ==
  ASSUME NEW limit \in Nat \ {0}, NEW m \in Nat, NEW n \in Nat, m < n
  PROVE  /\ m * limit \in Nat /\ n * limit \in Nat
         /\ m * limit + limit <= n * limit
<1>1. n - m - 1 \in Nat /\ n = m + 1 + (n - m - 1)
  OBVIOUS
<1>2. (n - m - 1) * limit \in Nat /\ m * limit \in Nat /\ n * limit \in Nat
  BY <1>1
<1>3. n * limit = m * limit + limit + (n - m - 1) * limit
  BY <1>1
<1>4. QED
  BY <1>2, <1>3

\* The pages of the delta are all of it once: of count rows, whatever the
\* limit, the row at an index is on the page it is asked for on, on no page
\* before it and on none after it, and a page beyond the last is empty
\* (commentsAfter: start, end and has_more).
THEOREM EachRowOnOnePage ==
  ASSUME NEW count \in Nat, NEW limit \in Nat \ {0},
         NEW index \in 0..(count - 1), NEW page \in Nat \ {0}
  PROVE  /\ Start(count, limit, page) <= index
         /\ index < End(count, limit, page)
         <=> page = (index \div limit) + 1
<1> DEFINE q == index \div limit
<1>1. q \in Nat /\ limit * q <= index /\ index < limit * q + limit
  BY QuotientBounds
<1>2. count \div limit \in Nat /\ count < limit * (count \div limit) + limit
  BY QuotientBounds
<1> DEFINE p == page - 1
<1>3. p \in Nat /\ page = p + 1 /\ p * limit \in Nat /\ q * limit \in Nat
  BY <1>1
<1>4. q <= count \div limit
  <2>1. SUFFICES ASSUME count \div limit < q
                 PROVE  FALSE
    BY <1>1, <1>2
  <2>2. (count \div limit) * limit + limit <= q * limit
    BY <1>1, <1>2, <2>1, Multiples
  <2>3. QED
    BY <1>1, <1>2, <1>3, <2>2
<1>5. CASE p = q
  <2>1. Start(count, limit, page) = q * limit
    BY <1>3, <1>4, <1>5 DEF Start
  <2>2. End(count, limit, page) \in {q * limit + limit, count}
    BY <2>1 DEF End
  <2>3. QED
    BY <1>1, <1>3, <1>5, <2>1, <2>2
<1>6. CASE q < p
  <2>1. q * limit + limit <= p * limit
    BY <1>1, <1>3, <1>6, Multiples
  <2>2. Start(count, limit, page) \in {p * limit, count}
    BY <1>3 DEF Start
  <2>3. QED
    BY <1>1, <1>3, <1>6, <2>1, <2>2
<1>7. CASE p < q
  <2>1. p * limit + limit <= q * limit
    BY <1>1, <1>3, <1>7, Multiples
  <2>2. Start(count, limit, page) = p * limit
    BY <1>1, <1>2, <1>3, <1>4, <1>7 DEF Start
  <2>3. End(count, limit, page) <= p * limit + limit
    BY <1>3, <2>2 DEF End
  <2>4. End(count, limit, page) \in Int
    BY <1>3, <2>2 DEF End
  <2>5. QED
    BY <1>1, <1>3, <1>7, <2>1, <2>3, <2>4
<1>8. QED
  BY <1>1, <1>3, <1>5, <1>6, <1>7
-----------------------------------------------------------------------------
(***************************************************************************)
(* The other reader of a thread: get_task with `since`.  What makes its    *)
(* filters safe is the order of the handler's requests: the task is read   *)
(* before the comments, and after the agent asked, so that both instants   *)
(* the agent may anchor on precede the reading of the thread.              *)
(***************************************************************************)
\* No timestamp is of the future, and the agent's anchor precedes its call.
Stamps ==
  /\ updated <= now /\ agent.since <= now
  /\ \A c \in posted : c <= now
  /\ Busy => /\ call.asked <= now /\ call.updated <= now
             /\ agent.since <= call.asked
             /\ call.since \in {agent.since, Never}

\* Each step is to come, answered or incomplete; the task is never incomplete.
Accounted == Busy =>
  /\ call.todo \cup call.got \cup call.incomplete = {"task"} \cup call.wanted
  /\ call.todo \cap call.got = {} /\ call.todo \cap call.incomplete = {}
  /\ call.got \cap call.incomplete = {}
  /\ "task" \notin call.incomplete
  /\ call.got # {} => "task" \in call.got

\* An anchor that is not before the last edit goes with the last body.
BodyHeld == agent.since >= updated => agent.body = updated

\* What the call knows of the task; a later edit came after the agent asked.
TaskRead == Busy /\ "task" \in call.got =>
  /\ call.updated \in Instants /\ call.updated <= updated
  /\ call.updated # updated => updated > call.asked
  /\ ~call.changed => agent.body = call.updated

\* A covering answer lacks no comment that is not newer than an anchor.
AllCovered == Busy /\ Covers =>
  \A c \in posted : c <= call.asked \/ c <= call.updated =>
    c \in agent.known \cup call.shown

SinceInv ==
  SinceTypeOK /\ Stamps /\ Accounted /\ BodyHeld /\ TaskRead /\ AllCovered /\ NothingMissed

-----------------------------------------------------------------------------
(* Lemmas *)

\* The fields of the call and of the agent, and the numbers among them.
LEMMA SinceTypes ==
  ASSUME SinceTypeOK
  PROVE  /\ now \in Int /\ updated \in Int /\ now >= 0 /\ updated >= 0
         /\ posted \subseteq Int
         /\ agent.since \in Int /\ agent.body \in Int /\ agent.known \subseteq Instants
         /\ Busy => /\ call \in Call /\ call.asked \in Int /\ call.updated \in Int
                    /\ call.since \in Int /\ call.limit \in Nat
                    /\ call.shown \subseteq Instants
<1>1. \A i \in Instants \cup {Never} : i \in Int
  BY ReadAssumption DEF Instants, Never
<1>2. \A i \in Instants : i >= 0
  BY ReadAssumption DEF Instants
<1>3. now \in Instants /\ updated \in Instants /\ posted \subseteq Instants /\ agent \in Agent
  BY DEF SinceTypeOK
<1>4. agent.since \in Instants \cup {Never} /\ agent.body \in Instants \cup {Never}
      /\ agent.known \subseteq Instants
  BY <1>3 DEF Agent
<1>5. ASSUME Busy
      PROVE  /\ call \in Call /\ call.asked \in Instants
             /\ call.updated \in Instants \cup {Never}
             /\ call.since \in Instants \cup {Never} /\ call.limit \in Nat
             /\ call.shown \subseteq Instants
  <2>1. call \in Call
    BY <1>5 DEF SinceTypeOK, Busy
  <2>2. call.limit \in Limits
    BY <2>1 DEF Call
  <2>3. call.limit \in Nat
    BY <2>2, ReadAssumption
  <2> QED BY <2>1, <2>3 DEF Call
<1> QED BY <1>1, <1>2, <1>3, <1>4, <1>5

\* Before the comments are requested, the task has been read.
LEMMA TaskFirst ==
  ASSUME SinceTypeOK, Accounted, NEW p \in Parts, Turn(p)
  PROVE  "task" \in call.got /\ "task" \notin call.todo
<1>1. "task" \notin call.todo
  BY DEF Turn, Order, Parts
<1> QED BY <1>1 DEF Accounted, Turn

\* Whatever a covering page leaves out is not newer than `since`.
LEMMA PageReachesBack ==
  ASSUME NEW page \in SUBSET posted, NEW n \in Nat, NEW since \in Int,
         posted \subseteq Int, Newest(page, n),
         page # posted => Cardinality(CommentsSince(page, since)) < n,
         NEW c \in posted, c > since
  PROVE  c \in CommentsSince(page, since)
<1>1. CASE c \in page
  BY <1>1 DEF CommentsSince
<1>2. CASE c \notin page
  <2>1. Cardinality(page) = n /\ Cardinality(CommentsSince(page, since)) < n
    BY <1>2 DEF Newest
  <2>2. CommentsSince(page, since) # page
    BY <2>1
  <2>3. PICK d \in page : ~(d > since)
    BY <2>2 DEF CommentsSince
  <2>4. c > d
    BY <2>3
  <2> QED BY <1>2, <2>3, <2>4 DEF Newest
<1> QED BY <1>1, <1>2

-----------------------------------------------------------------------------
(* The invariant, action by action *)

LEMMA InitSinceInv == SinceInit => SinceInv
<1> SUFFICES ASSUME SinceInit PROVE SinceInv
  OBVIOUS
<1>1. SinceTypeOK
  BY ReadAssumption DEF SinceInit, SinceTypeOK, Instants, Never, Agent
<1>2. ~Busy
  BY DEF SinceInit, Busy
<1> QED BY <1>1, <1>2 DEF SinceInit, SinceInv, Stamps, Accounted, BodyHeld, TaskRead,
     AllCovered, NothingMissed, Never

LEMMA WriteStep ==
  ASSUME SinceInv, Write
  PROVE  SinceInv'
<1> USE DEF SinceInv
<1>t. SinceTypeOK'
  <2>0. now < Horizon => now + 1 \in Instants
    <3>1. now \in 0..Horizon
      BY DEF SinceTypeOK, Instants
    <3> QED BY <3>1, ReadAssumption DEF Instants
  <2>1. CASE Edit
    BY <2>0, <2>1 DEF Edit, SinceTypeOK
  <2>2. CASE PostComment
    BY <2>0, <2>2 DEF PostComment, SinceTypeOK
  <2>3. ASSUME NEW c \in Instants, DeleteComment(c) PROVE SinceTypeOK'
    BY <2>3 DEF DeleteComment, SinceTypeOK
  <2> QED BY <2>1, <2>2, <2>3 DEF Write
<1>0. call' = call /\ agent' = agent
  BY DEF Write, Edit, PostComment, DeleteComment
<1>1. CASE Edit
  <2>1. now' = now + 1 /\ updated' = now + 1 /\ posted' = posted
    BY <1>1 DEF Edit
  <2>2. Stamps' /\ BodyHeld' /\ NothingMissed' /\ Accounted'
    BY <1>0, <2>1, SinceTypes DEF Stamps, BodyHeld, NothingMissed, Accounted, Busy
  <2>3. TaskRead'
    BY <1>0, <2>1, SinceTypes DEF TaskRead, Busy, Stamps
  <2>4. AllCovered'
    BY <1>0, <2>1 DEF AllCovered, Covers, Busy
  <2> QED BY <1>t, <2>2, <2>3, <2>4
<1>2. CASE PostComment
  <2>1. /\ now' = now + 1 /\ posted' = posted \cup {now + 1}
        /\ updated' = updated \/ updated' = now + 1
    BY <1>2 DEF PostComment
  <2>2. Stamps' /\ BodyHeld' /\ NothingMissed' /\ Accounted'
    BY <1>0, <2>1, SinceTypes DEF Stamps, BodyHeld, NothingMissed, Accounted, Busy
  <2>3. TaskRead'
    BY <1>0, <2>1, SinceTypes DEF TaskRead, Busy, Stamps
  <2>4. AllCovered'
    BY <1>0, <2>1, SinceTypes DEF AllCovered, Covers, Busy, Stamps
  <2> QED BY <1>t, <2>2, <2>3, <2>4
<1>3. ASSUME NEW c \in Instants, DeleteComment(c) PROVE SinceInv'
  <2>1. now' = now /\ updated' = updated /\ posted' \subseteq posted
    BY <1>3 DEF DeleteComment
  <2>2. Stamps' /\ BodyHeld' /\ NothingMissed' /\ Accounted' /\ TaskRead'
    BY <1>0, <2>1 DEF Stamps, BodyHeld, NothingMissed, Accounted, Busy, TaskRead
  <2>3. AllCovered'
    BY <1>0, <2>1 DEF AllCovered, Covers, Busy
  <2> QED BY <1>t, <2>2, <2>3
<1> QED BY <1>1, <1>2, <1>3 DEF Write

LEMMA AskStep ==
  ASSUME SinceInv, NEW since \in {agent.since, Never}, NEW limit \in Limits,
         NEW wanted \in Wanted, GetTask(since, limit, wanted)
  PROVE  SinceInv'
<1> USE DEF SinceInv
<1>0. now' = now /\ updated' = updated /\ posted' = posted /\ agent' = agent
  BY DEF GetTask
<1>1. wanted \subseteq Parts /\ "task" \in Steps /\ Parts \subseteq Steps
  BY ReadAssumption DEF Steps
<1>2. since \in Instants \cup {Never}
  BY DEF SinceTypeOK, Agent
<1>3. call' \in Call
  BY <1>1, <1>2, ReadAssumption DEF GetTask, Call, SinceTypeOK
<1>4. /\ call'.since = since /\ call'.asked = now /\ call'.wanted = wanted
      /\ call'.todo = {"task"} \cup wanted /\ call'.got = {}
      /\ call'.incomplete = {} /\ call'.updated = Never
  BY DEF GetTask
<1>5. SinceTypeOK' /\ Accounted'
  BY <1>0, <1>3, <1>4 DEF SinceTypeOK, Accounted
<1>6. Stamps' /\ BodyHeld' /\ NothingMissed'
  BY <1>0, <1>4, SinceTypes DEF Stamps, BodyHeld, NothingMissed, Never
<1>7. TaskRead' /\ AllCovered'
  BY <1>4 DEF TaskRead, AllCovered, Covers
<1> QED BY <1>5, <1>6, <1>7

LEMMA ReadTaskStep ==
  ASSUME SinceInv, ReadTask
  PROVE  SinceInv'
<1> USE DEF SinceInv
<1>0. /\ now' = now /\ updated' = updated /\ posted' = posted /\ agent' = agent
      /\ Busy /\ "task" \in call.todo
  BY DEF ReadTask, Turn
<1>1. call \in Call
  BY <1>0, SinceTypes
<1>2. /\ call'.since = call.since /\ call'.asked = call.asked
      /\ call'.wanted = call.wanted /\ call'.todo = call.todo \ {"task"}
      /\ call'.got = call.got \cup {"task"} /\ call'.incomplete = call.incomplete
      /\ call'.updated = updated /\ call'.shown = call.shown
      /\ call'.changed = (updated > call.since)
  BY <1>1 DEF ReadTask, Call, TaskChanged
<1>3. call' \in Call
  <2>1. TaskChanged(updated, call.since) \in BOOLEAN
    BY DEF TaskChanged
  <2>2. updated \in Instants
    BY DEF SinceTypeOK
  <2> QED BY <1>1, <2>1, <2>2 DEF ReadTask, Call, Steps
<1>4. call.got = {}
  BY <1>0 DEF Accounted
<1>5. SinceTypeOK' /\ Accounted'
  BY <1>0, <1>2, <1>3, <1>4 DEF SinceTypeOK, Accounted
<1>6. Stamps' /\ BodyHeld' /\ NothingMissed'
  BY <1>0, <1>2, SinceTypes DEF Stamps, BodyHeld, NothingMissed
<1>7. TaskRead'
  <2>1. ~(updated > call.since) => agent.since >= updated
    BY <1>0, SinceTypes DEF Stamps, Never
  <2>2. updated \in Instants /\ updated <= updated
    BY SinceTypes DEF SinceTypeOK
  <2>3. ~call'.changed => agent.body = updated
    BY <1>2, <2>1 DEF BodyHeld
  <2> QED BY <1>0, <1>2, <2>2, <2>3 DEF TaskRead
<1>8. AllCovered'
  BY <1>2, <1>4 DEF AllCovered, Covers
<1> QED BY <1>5, <1>6, <1>7, <1>8

LEMMA ReadCommentsStep ==
  ASSUME SinceInv, NEW page \in SUBSET posted, ReadComments(page)
  PROVE  SinceInv'
<1> USE DEF SinceInv
<1>0. /\ now' = now /\ updated' = updated /\ posted' = posted /\ agent' = agent
      /\ Busy /\ "comments" \in call.todo /\ Newest(page, call.limit)
  BY DEF ReadComments, Turn
<1>1. call \in Call
  BY <1>0, SinceTypes
<1> DEFINE shown == CommentsSince(page, call.since)
<1>2. /\ call'.since = call.since /\ call'.asked = call.asked
      /\ call'.limit = call.limit
      /\ call'.wanted = call.wanted /\ call'.todo = call.todo \ {"comments"}
      /\ call'.got = call.got \cup {"comments"} /\ call'.incomplete = call.incomplete
      /\ call'.updated = call.updated /\ call'.shown = shown
      /\ call'.changed = call.changed /\ call'.more = (page # posted)
  BY <1>1 DEF ReadComments, Call
<1>3. call' \in Call
  BY <1>1 DEF ReadComments, Call, Steps, Parts, SinceTypeOK, CommentsSince
<1>4. "task" \in call.got /\ "task" \notin call.todo
  BY TaskFirst DEF ReadComments, Parts
<1>5. SinceTypeOK' /\ Accounted'
  BY <1>0, <1>2, <1>3, <1>4 DEF SinceTypeOK, Accounted
<1>6. Stamps' /\ BodyHeld' /\ NothingMissed' /\ TaskRead'
  BY <1>0, <1>2, <1>4 DEF Stamps, BodyHeld, NothingMissed, TaskRead, Busy
<1>7. AllCovered'
  <2>1. SUFFICES ASSUME Covers', NEW c \in posted
                 PROVE  c \in agent.known \cup shown
    BY <1>0, <1>2 DEF AllCovered
  <2>2. page # posted => Cardinality(shown) < call.limit
    BY <1>2, <2>1 DEF Covers
  <2>3. CASE c > call.since
    BY <1>0, <2>2, <2>3, SinceTypes, PageReachesBack
  <2>4. CASE ~(c > call.since)
    <3>1. call.since = agent.since \/ call.since = Never
      BY <1>0 DEF Stamps
    <3>2. c >= 0 /\ c \in Int
      BY ReadAssumption DEF SinceTypeOK, Instants
    <3> QED BY <1>0, <2>4, <3>1, <3>2, SinceTypes DEF NothingMissed, Never
  <2> QED BY <2>3, <2>4
<1> QED BY <1>5, <1>6, <1>7

\* A part other than the comments, read or throttled, and throttled comments.
LEMMA PartStep ==
  ASSUME SinceInv, NEW p \in Parts, ReadPart(p) \/ Throttled(p)
  PROVE  SinceInv'
<1> USE DEF SinceInv
<1>0. /\ now' = now /\ updated' = updated /\ posted' = posted /\ agent' = agent
      /\ Busy /\ p \in call.todo /\ Turn(p)
  BY DEF ReadPart, Throttled, Turn
<1>1. call \in Call
  BY <1>0, SinceTypes
<1>2. /\ call'.since = call.since /\ call'.asked = call.asked
      /\ call'.limit = call.limit
      /\ call'.wanted = call.wanted /\ call'.todo = call.todo \ {p}
      /\ call'.updated = call.updated /\ call'.shown = call.shown
      /\ call'.changed = call.changed /\ call'.more = call.more
      /\ \/ /\ p # "comments" /\ call'.got = call.got \cup {p}
            /\ call'.incomplete = call.incomplete
         \/ /\ call'.got = call.got /\ call'.incomplete = call.incomplete \cup {p}
  BY <1>1 DEF ReadPart, Throttled, Call
<1>3. call' \in Call
  <2>1. CASE ReadPart(p)
    BY <1>1, <2>1 DEF ReadPart, Call, Steps
  <2>2. CASE Throttled(p)
    BY <1>1, <2>2 DEF Throttled, Call, Steps
  <2> QED BY <2>1, <2>2
<1>4. "task" \in call.got /\ "task" \notin call.todo /\ p # "task"
  BY <1>0, TaskFirst DEF Parts
<1>5. SinceTypeOK' /\ Accounted'
  BY <1>0, <1>2, <1>3, <1>4 DEF SinceTypeOK, Accounted
<1>6. Stamps' /\ BodyHeld' /\ NothingMissed' /\ TaskRead'
  BY <1>0, <1>2, <1>4 DEF Stamps, BodyHeld, NothingMissed, TaskRead, Busy
<1>7. Covers' => Covers
  BY <1>2 DEF Covers
<1>8. AllCovered'
  BY <1>0, <1>2, <1>7 DEF AllCovered
<1> QED BY <1>5, <1>6, <1>8

LEMMA FailStep ==
  ASSUME SinceInv, Fail
  PROVE  SinceInv'
BY DEF SinceInv, Fail, SinceTypeOK, Stamps, Accounted, BodyHeld, TaskRead, AllCovered,
   NothingMissed, Busy

LEMMA ReplyStep ==
  ASSUME SinceInv, NEW anchor \in Instants, Reply(anchor)
  PROVE  SinceInv'
<1> USE DEF SinceInv
<1>0. /\ now' = now /\ updated' = updated /\ posted' = posted
      /\ Busy /\ ~Busy' /\ call.todo = {} /\ anchor \in {call.updated, call.asked}
  BY DEF Reply, Busy, Anchors
<1>1. /\ agent'.body = IF call.changed THEN call.updated ELSE agent.body
      /\ agent'.known = agent.known \cup call.shown
      /\ agent'.since = IF Covers THEN anchor ELSE agent.since
  BY DEF Reply
<1>2. "task" \in call.got
  BY <1>0 DEF Accounted
<1>3. call.updated \in Instants /\ call.shown \subseteq Instants
  BY <1>0, <1>2, SinceTypes DEF TaskRead
<1>4. SinceTypeOK'
  <2>1. agent \in Agent
    BY DEF SinceTypeOK
  <2>2. agent' \in Agent
    BY <1>3, <2>1 DEF Reply, Agent
  <2> QED BY <1>0, <2>2 DEF SinceTypeOK, Reply
<1>5. Stamps' /\ Accounted' /\ TaskRead' /\ AllCovered'
  BY <1>0, <1>1, SinceTypes DEF Stamps, Accounted, TaskRead, AllCovered
<1>6. BodyHeld'
  <2>1. SUFFICES ASSUME agent'.since >= updated PROVE agent'.body = updated
    BY <1>0 DEF BodyHeld
  <2>2. call.updated <= updated /\ (call.updated # updated => updated > call.asked)
    BY <1>0, <1>2 DEF TaskRead
  <2>3. agent'.since = call.updated \/ agent'.since <= call.asked
    BY <1>0, <1>1, SinceTypes DEF Stamps
  <2>4. call.updated = updated
    BY <1>0, <1>1, <2>1, <2>2, <2>3, SinceTypes
  <2> QED BY <1>0, <1>1, <1>2, <2>4 DEF TaskRead
<1>7. NothingMissed'
  <2>1. SUFFICES ASSUME NEW c \in posted, c <= agent'.since
                 PROVE  c \in agent.known \cup call.shown
    BY <1>0, <1>1 DEF NothingMissed
  <2>2. CASE Covers
    BY <1>0, <1>1, <2>1, <2>2 DEF AllCovered
  <2>3. CASE ~Covers
    BY <1>1, <2>1, <2>3 DEF NothingMissed
  <2> QED BY <2>2, <2>3
<1> QED BY <1>4, <1>5, <1>6, <1>7

LEMMA NextSinceInv == SinceInv /\ [SinceNext]_sinceVars => SinceInv'
<1> SUFFICES ASSUME SinceInv, [SinceNext]_sinceVars PROVE SinceInv'
  OBVIOUS
<1>1. CASE Write
  BY <1>1, WriteStep
<1>2. CASE AskSome
  BY <1>2, AskStep DEF AskSome
<1>3. CASE Handle
  <2>1. CASE ReadTask
    BY <2>1, ReadTaskStep
  <2>2. CASE \E page \in SUBSET posted : ReadComments(page)
    BY <2>2, ReadCommentsStep
  <2>3. CASE \E p \in Parts : ReadPart(p) \/ Throttled(p)
    BY <2>3, PartStep
  <2>4. CASE Fail
    BY <2>4, FailStep
  <2> QED BY <1>3, <2>1, <2>2, <2>3, <2>4 DEF Handle
<1>4. CASE \E anchor \in Instants : Reply(anchor)
  BY <1>4, ReplyStep
<1>5. CASE UNCHANGED sinceVars
  BY <1>5 DEF sinceVars, SinceInv, SinceTypeOK, Stamps, Accounted, BodyHeld, TaskRead, AllCovered,
     Covers, NothingMissed, Busy
<1> QED BY <1>1, <1>2, <1>3, <1>4, <1>5 DEF SinceNext

\* The strengthened invariant holds in every state.
THEOREM SinceInvariance == SinceSpec => []SinceInv
BY InitSinceInv, NextSinceInv, PTL DEF SinceSpec

-----------------------------------------------------------------------------
(* The properties *)

\* Type correctness, for any number of writes and any limits.
THEOREM SinceTypeCorrect == SinceSpec => []SinceTypeOK
<1>1. SinceInv => SinceTypeOK
  BY DEF SinceInv
<1> QED BY <1>1, SinceInvariance, PTL

\* task_changed=false is the truth about the body the agent holds.
THEOREM UnchangedIsHeldHolds == SinceSpec => []UnchangedIsHeld
<1>1. SinceInv => UnchangedIsHeld
  BY DEF SinceInv, TaskRead, UnchangedIsHeld
<1> QED BY <1>1, SinceInvariance, PTL

\* Nothing that is not newer than the agent's anchor is unknown to it.
THEOREM NothingMissedHolds == SinceSpec => []NothingMissed
<1>1. SinceInv => NothingMissed
  BY DEF SinceInv
<1> QED BY <1>1, SinceInvariance, PTL

\* A part that is neither in the answer nor named as incomplete was not asked for.
THEOREM NeverMistakenHolds == SinceSpec => []NeverMistaken
<1>1. SinceInv => NeverMistaken
  BY DEF SinceInv, Accounted, NeverMistaken
<1> QED BY <1>1, SinceInvariance, PTL

\* A covering answer brings the agent every comment of before its call.
THEOREM ReadToTheEndHolds == SinceSpec => ReadToTheEnd
<1>1. ASSUME SinceInv, NEW anchor \in Instants, Reply(anchor), Covers,
             NEW c \in posted, c <= call.asked
      PROVE  c \in agent'.known
  <2>1. agent'.known = agent.known \cup call.shown
    BY <1>1 DEF Reply
  <2> QED BY <1>1, <2>1 DEF SinceInv, AllCovered, Reply
<1>2. SinceInv /\ [SinceNext]_sinceVars =>
        [\A anchor \in Instants :
           Reply(anchor) /\ Covers =>
             \A c \in posted : c <= call.asked => c \in agent'.known]_sinceVars
  BY <1>1
<1> QED BY <1>2, SinceInvariance, PTL DEF SinceSpec, ReadToTheEnd
=============================================================================
