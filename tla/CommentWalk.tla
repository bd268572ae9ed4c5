---------------------------- MODULE CommentWalk ----------------------------
(***************************************************************************)
(* list_comments with `after` (compact_read.go commentsAfter): the server  *)
(* walks a task's whole thread, newest first, one page per request, and    *)
(* returns a page of what is newer than the cursor.  Comments are written  *)
(* and deleted between the requests of a walk; the walk notices no more of *)
(* that than a change of the total.  The consumer is an agent that follows *)
(* a thread: it asks for the oldest comments newer than the last it was    *)
(* shown, again and again.                                                 *)
(*                                                                         *)
(* A comment is the number of its creation.  The thread is the set of      *)
(* comments that exist; a comment's place in the newest-first listing is   *)
(* the number of newer ones.  What a walk has collected is a set of pairs  *)
(* of a page and a comment: a comment may be collected from two pages.     *)
(***************************************************************************)
EXTENDS Integers, FiniteSets

CONSTANTS
  PageSize,     \* rows per request of the walk (200)
  MaxPages,     \* requests per walk (1000)
  Limit,        \* page_size the consumer asks for
  MaxComment,   \* bound on the comments ever written
  Standing,     \* the comments that exist when the agent starts
  CreatedAt,    \* the instant each comment was written
  Forms,        \* how the consumer may name its cursor: "uuid", "timestamp"
  NoWalk        \* no walk is under way

Comments == 1..MaxComment

ASSUME SizeAssumption ==
  /\ PageSize \in Nat \ {0} /\ MaxPages \in Nat \ {0} /\ Limit \in Nat \ {0}
  /\ MaxComment \in Nat /\ Standing \in Comments
ASSUME CursorAssumption ==
  /\ CreatedAt \in [Comments -> Nat]
  /\ \A c, d \in Comments : c <= d => CreatedAt[c] <= CreatedAt[d]
  /\ Forms \subseteq {"uuid", "timestamp"}

VARIABLES
  written,   \* the number of comments ever written
  thread,    \* the comments that exist
  walk,      \* the walk under way
  cursor,    \* the last comment the agent was shown
  seen       \* every comment it was shown
vars == <<written, thread, walk, cursor, seen>>

Walk == [form : {"uuid", "timestamp"}, page : 0..MaxPages - 1,
         total : Nat, items : SUBSET ((1..MaxPages) \X Comments)]
ASSUME NoWalkAssumption == NoWalk \notin Walk

-----------------------------------------------------------------------------
(* The API: pages of the newest-first listing *)

Place(c) == Cardinality({d \in thread : d > c})

Rows(n) == {c \in thread : (n - 1) * PageSize <= Place(c) /\ Place(c) < n * PageSize}

HasMore(n) == Cardinality(thread) > n * PageSize

-----------------------------------------------------------------------------
(* The page of the delta that is returned *)

\* Items in the order in which the walk collected them.
Earlier(x, y) == x[1] < y[1] \/ (x[1] = y[1] /\ x[2] > y[2])

Precedes(order, x, y) == IF order = "desc" THEN Earlier(x, y) ELSE Earlier(y, x)

Index(order, items, x) == Cardinality({y \in items : Precedes(order, y, x)})

\* Beyond the last page the slice starts at the end: it is empty.
Start(count, limit, page) ==
  IF page - 1 <= count \div limit THEN (page - 1) * limit ELSE count

End(count, limit, page) ==
  LET end == Start(count, limit, page) + limit
  IN IF end > count THEN count ELSE end

Slice(order, items, limit, page) ==
  {x \in items :
     /\ Start(Cardinality(items), limit, page) <= Index(order, items, x)
     /\ Index(order, items, x) < End(Cardinality(items), limit, page)}

-----------------------------------------------------------------------------
(* The walk *)

Found(rows) == walk.form = "uuid" /\ cursor \in rows

\* By uuid everything above the cursor's row; by timestamp what is later.
Taken(rows) ==
  {c \in rows : IF walk.form = "uuid" THEN cursor \in rows => c > cursor
                ELSE CreatedAt[c] > CreatedAt[cursor]}

Collected(n) == walk.items \cup ({n} \X Taken(Rows(n)))

\* Mutant of Changed: the total is not compared.
ChangedNever(n) == FALSE

\* Mutant of Changed: the first page is compared too, with nothing.
ChangedAtOnce(n) == Cardinality(thread) # walk.total

\* The only change the walk notices.
Changed(n) == n > 1 /\ Cardinality(thread) # walk.total

\* The walk may end here: at the cursor, or for a timestamp at the last page.
Complete ==
  \/ Found(Rows(walk.page + 1))
  \/ walk.form = "timestamp" /\ ~HasMore(walk.page + 1)

Init ==
  /\ written = Standing
  /\ thread = 1..Standing
  /\ walk = NoWalk
  /\ cursor = 1
  /\ seen = {1}

Post ==
  /\ written < MaxComment
  /\ written' = written + 1
  /\ thread' = thread \cup {written + 1}
  /\ UNCHANGED <<walk, cursor, seen>>

Delete(c) ==
  /\ c \in thread
  /\ thread' = thread \ {c}
  /\ UNCHANGED <<written, walk, cursor, seen>>

Ask(form) ==
  /\ walk = NoWalk
  /\ walk' = [form |-> form, page |-> 0, total |-> 0, items |-> {}]
  /\ UNCHANGED <<written, thread, cursor, seen>>

\* Neither the cursor nor the end of the thread is on this page.
ReadOn ==
  /\ walk # NoWalk
  /\ LET n == walk.page + 1 IN
     /\ ~Changed(n) /\ ~Complete /\ HasMore(n)
     /\ n < MaxPages
     /\ walk' = [walk EXCEPT !.page = n, !.items = Collected(n),
                             !.total = IF n = 1 THEN Cardinality(thread) ELSE @]
  /\ UNCHANGED <<written, thread, cursor, seen>>

\* The first page of a finished walk, oldest first.
Shown == Slice("asc", Collected(walk.page + 1), Limit, 1)

\* The agent is shown it, and keeps its place.
Show ==
  /\ walk # NoWalk
  /\ ~Changed(walk.page + 1) /\ Complete
  /\ seen' = seen \cup {x[2] : x \in Shown}
  /\ IF Shown = {} THEN UNCHANGED cursor
     ELSE \E x \in Shown :
            /\ \A y \in Shown \ {x} : Precedes("asc", y, x)
            /\ cursor' = x[2]
  /\ walk' = NoWalk
  /\ UNCHANGED <<written, thread>>

\* An error: the thread changed, the cursor is nowhere in it, or the walk is
\* too long.
Refuse ==
  /\ walk # NoWalk
  /\ LET n == walk.page + 1 IN
       \/ Changed(n)
       \/ ~Complete /\ ~HasMore(n)
       \/ ~Complete /\ HasMore(n) /\ n = MaxPages
  /\ walk' = NoWalk
  /\ UNCHANGED <<written, thread, cursor, seen>>

\* A request of the walk fails.
Break ==
  /\ walk # NoWalk
  /\ walk' = NoWalk
  /\ UNCHANGED <<written, thread, cursor, seen>>

Next ==
  \/ Post
  \/ \E c \in Comments : Delete(c)
  \/ \E form \in Forms : Ask(form)
  \/ ReadOn
  \/ Show
  \/ Refuse
  \/ Break

Spec == Init /\ [][Next]_vars

\* The handler goes on; the agent keeps asking, by timestamp among other ways,
\* and no request of those walks, first or later, fails for ever.
ByTimestamp == walk # NoWalk /\ walk.form = "timestamp"
FairSpec ==
  /\ Spec /\ WF_vars(ReadOn \/ Show \/ Refuse)
  /\ SF_vars(Ask("timestamp"))
  /\ SF_vars(ByTimestamp /\ Show)
  /\ \A n \in 0..MaxPages - 1 : SF_vars(ByTimestamp /\ walk.page = n /\ ReadOn)

-----------------------------------------------------------------------------
(* Properties *)

\* Types: a walk has read fewer pages than it may, of comments that were written.
TypeOK ==
  /\ written \in 0..MaxComment
  /\ thread \subseteq 1..written
  /\ walk \in Walk \cup {NoWalk}
  /\ cursor \in 1..written
  /\ seen \subseteq 1..written

\* No comment is lost to an agent that follows the thread: whatever was
\* written and deleted between the pages of its walks, every comment that
\* still exists and is not newer than the last one shown has been shown
\* ("would silently lose newer comments", compact_read.go).
NothingSkipped == \A c \in thread : c <= cursor => c \in seen

\* Only newer comments are shown: the cursor of a walk never goes back, not
\* even when the comment it names is deleted while it is being looked for.
NewerOnly == [][cursor' >= cursor]_vars

\* Every comment that is not deleted is shown in the end, as long as the thread
\* is not too long for a walk ("use a narrower timestamp").
TooLong == Cardinality(thread) > MaxPages * PageSize
EverythingShown ==
  \A c \in Comments : c \in thread ~> (c \in seen \/ c \notin thread \/ TooLong)
=============================================================================
