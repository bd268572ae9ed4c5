----------------------------- MODULE PageWalks -----------------------------
(***************************************************************************)
(* The paged reads of the server, while others add and remove rows:        *)
(*                                                                         *)
(*   "docs"      list_docs: every call walks the project's documents page  *)
(*               by page (fetchProjectDocuments), computes their paths     *)
(*               over the whole listing and answers a slice of it; the     *)
(*               agent goes on with the next offset (docs.go)              *)
(*   "comments"  list_doc_comments: one call walks the comments of a       *)
(*               document (fetchDocComments) and nests the replies         *)
(*               (threadDocComments, doc_comments.go)                      *)
(*   "tasks"     list_tasks: one page per call, cut to a character budget; *)
(*               the answer names the page that begins at the first row    *)
(*               cut off (capListTasksPage, list_tasks.go), and the agent  *)
(*               follows it                                                *)
(*                                                                         *)
(* The API lists the rows that exist, and are not hidden, in one order     *)
(* (position, creation): a row that is added or shown again comes in at    *)
(* its place.  Each page is read in one instant.                           *)
(***************************************************************************)
EXTENDS Integers, Sequences, FiniteSets, Folds

CONSTANTS
  Order,        \* all rows there may be, in the API's order
  Above,        \* row -> the document it is under, or NoRow
  Answers,      \* row -> the comment it answers, or NoRow
  NoRow,
  Slug,         \* row -> the slug of the document, unique under its parent
  Weight,       \* row -> the characters a task row takes in a compact page
  Budget,       \* listTasksCompactCharBudget
  PageSize, MaxPages,   \* of fetchProjectDocuments and fetchDocComments
  Slice,        \* limit of list_docs
  Limits,       \* what an agent asks of list_tasks; 0 is no limit
  LimitCeiling, \* listTasksCompactLimitCeiling
  ApiSize,      \* the API's page size when it is given none
  MaxChanges    \* bound: rows added or removed while an agent reads

Row == {Order[i] : i \in 1..Len(Order)}

\* Where a row stands in the API's order.
Index == [r \in Row |-> CHOOSE i \in 1..Len(Order) : Order[i] = r]

ASSUME SizesAssumption ==
  /\ PageSize \in Nat \ {0} /\ MaxPages \in Nat \ {0} /\ Slice \in Nat \ {0}
  /\ ApiSize \in Nat \ {0} /\ LimitCeiling \in Nat \ {0} /\ Limits \subseteq Nat
  /\ Budget \in Nat /\ MaxChanges \in Nat
ASSUME RowsAssumption ==
  /\ Order \in Seq(Row)
  /\ \A i, j \in 1..Len(Order) : Order[i] = Order[j] => i = j
  /\ Weight \in [Row -> Nat] /\ NoRow \notin Row
  /\ Above \in [Row -> Row \cup {NoRow}] /\ Answers \in [Row -> Row \cup {NoRow}]
\* "Threading is one level deep server-side."
ASSUME ThreadsAssumption ==
  \A r \in Row : Answers[r] \in Row => Answers[Answers[r]] = NoRow
\* The documents of a project are a tree, and siblings differ in their slug.
ASSUME TreeAssumption ==
  /\ \E depth \in [Row -> 0..Len(Order)] :
       \A r \in Row : Above[r] \in Row => depth[Above[r]] < depth[r]
  /\ \A r, s \in Row : Above[r] = Above[s] /\ Slug[r] = Slug[s] => r = s

VARIABLES
  kind,     \* which tool is called
  visible,  \* the rows the API lists now
  phase,    \* "walking", "done", "cut" (at the page cap), "failed"
  page,     \* the page the next request asks for
  limit,    \* and its size (list_tasks)
  got,      \* the rows of this call; for list_tasks of all its calls
  offset,   \* of the slice of list_docs
  shown,    \* the rows the agent has been shown
  stayed,   \* the rows listed all the time since it began
  still,    \* nothing has changed since this walk began
  changes, removed   \* how many rows were added or removed, and removed, since it began

agentVars == <<kind, offset, shown>>
walkVars  == <<phase, page, limit, got>>
pagedVars == <<agentVars, visible, walkVars, stayed, still, changes, removed>>

\* The rows of v in the API's order: each comes after as many as precede it.
Place(v, r) == Cardinality({s \in v : Index[s] < Index[r]})
Listing(v)  == [i \in 1..Cardinality(v) |-> CHOOSE r \in v : Place(v, r) = i - 1]
rows == Listing(visible)

Upto(a, b) == IF a <= b THEN a ELSE b
RowsOf(s)  == {s[i] : i \in 1..Len(s)}

PagedTypeOK ==
  /\ kind \in {"docs", "comments", "tasks"}
  /\ visible \subseteq Row /\ stayed \subseteq visible
  /\ phase \in {"walking", "done", "cut", "failed"}
  /\ page \in Nat \ {0} /\ limit \in Nat
  /\ got \in Seq(Row) /\ shown \in Seq(Row)
  /\ offset \in Nat /\ still \in BOOLEAN
  /\ changes \in 0..MaxChanges /\ removed \in 0..changes

\* The page size of a request: the walks ask for their own, list_tasks for
\* the agent's, or leaves it to the API.
RowsAsked(k, l) == IF k # "tasks" THEN PageSize ELSE IF l = 0 THEN ApiSize ELSE l
start == (page - 1) * RowsAsked(kind, limit)

\* A page of the API, and whether there are rows after it.
Page    == SubSeq(rows, start + 1, Upto(start + RowsAsked(kind, limit), Len(rows)))
HasMore == start + RowsAsked(kind, limit) < Len(rows)

\* The limit list_tasks sends: clamped in the compact view.
Clamped(asked) == Upto(asked, LimitCeiling)

PagedInit ==
  /\ kind \in {"docs", "comments", "tasks"}
  /\ visible \in SUBSET Row /\ stayed = visible
  /\ phase = "walking" /\ page = 1
  /\ limit \in IF kind = "tasks" THEN {Clamped(l) : l \in Limits} ELSE {0}
  /\ got = <<>> /\ shown = <<>> /\ offset = 0
  /\ still = TRUE /\ changes = 0 /\ removed = 0

\* Mutant of PhaseAfter: a walk that stops at the cap passes for a complete one.
PhaseAfterSwallowed ==
  IF ~HasMore \/ Page = <<>> \/ page = MaxPages THEN "done" ELSE "walking"

\* What list_docs answers of a listing.
SliceOf(listing) ==
  SubSeq(listing, Upto(offset, Len(listing)) + 1, Upto(offset + Slice, Len(listing)))

\* How a walk stands after a page: at its end, at the page cap, or going on.
PhaseAfter ==
  IF ~HasMore \/ Page = <<>> THEN "done"
  ELSE IF page = MaxPages THEN "cut"
  ELSE "walking"

(***************************************************************************)
(* fetchProjectDocuments, fetchDocComments: a page is appended; the walk   *)
(* ends at the last page or at an empty one, and is cut at the page cap.   *)
(***************************************************************************)
FetchPage ==
  /\ kind \in {"docs", "comments"} /\ phase = "walking"
  /\ got' = got \o Page
  /\ page' = page + 1
  /\ phase' = PhaseAfter
  /\ shown' = IF phase' = "walking" THEN shown
              ELSE IF kind = "comments" THEN got'
              ELSE shown \o SliceOf(got')
  /\ UNCHANGED <<kind, offset, limit, visible, stayed, still, changes, removed>>

\* A page is refused, or does not arrive: the call is an error, nothing is shown.
FetchFails ==
  /\ phase = "walking"
  /\ phase' = "failed"
  /\ UNCHANGED <<agentVars, page, limit, got, visible, stayed, still, changes, removed>>

(***************************************************************************)
(* list_docs says has_more while its slice ends before the listing does;   *)
(* the agent calls again with the next offset, and the server walks again. *)
(***************************************************************************)
NextSlice ==
  /\ kind = "docs" /\ phase \in {"done", "cut"}
  /\ offset + Slice < Len(got)
  /\ offset' = offset + Slice
  /\ phase' = "walking" /\ page' = 1 /\ got' = <<>> /\ still' = TRUE
  /\ UNCHANGED <<kind, limit, shown, visible, stayed, changes, removed>>

(***************************************************************************)
(* list_tasks: the rows of a page that fit the budget (the first always    *)
(* does), and the largest number of them that divides the offset of the    *)
(* page, so that the next one can be asked for as a page of that size.     *)
(***************************************************************************)
Used(n) == MapThenFoldSet(+, 0, LAMBDA i : Weight[Page[i]] + 1,
                          LAMBDA s : CHOOSE i \in s : TRUE, 1..n)
WithinBudget(n) == n = 1 \/ Used(n) <= Budget

Fit == CHOOSE n \in 1..Len(Page) :
         /\ \A m \in 1..n : WithinBudget(m)
         /\ n < Len(Page) => ~WithinBudget(n + 1)

Keep(n) == CHOOSE k \in 1..n :
             /\ start % k = 0
             /\ \A j \in (k + 1)..n : start % j # 0

\* Mutant of NextPage: the page that begins where the cut one began.
NextPageAgain(k) == start \div k + 1

\* The page, of k rows each, that begins k rows after the start of this one.
NextPage(k) == start \div k + 2

\* A page that is cut: there is something to cut, and the offset is known,
\* which without a limit it is only on page 1.
Cut == Len(Page) >= 2 /\ Fit < Len(Page) /\ (limit >= 1 \/ page = 1)

ListTasks ==
  /\ kind = "tasks" /\ phase = "walking"
  /\ IF Cut
       THEN /\ got' = got \o SubSeq(Page, 1, Keep(Fit))
            /\ limit' = Keep(Fit)
            /\ page' = NextPage(Keep(Fit))
            /\ UNCHANGED phase
       ELSE /\ got' = got \o Page
            /\ page' = page + 1
            /\ phase' = IF HasMore THEN "walking" ELSE "done"
            /\ UNCHANGED limit
  /\ shown' = got'
  /\ UNCHANGED <<kind, offset, visible, stayed, still, changes, removed>>

(***************************************************************************)
(* Others add a row, or show it again; or delete, archive or resolve one.  *)
(* A document may be listed without the one above it, as when that one is  *)
(* not for this reader to see.                                             *)
(***************************************************************************)
Change(v) ==
  /\ changes < MaxChanges
  /\ changes' = changes + 1
  /\ visible' = v
  /\ stayed' = stayed \cap v
  /\ still' = FALSE
  /\ UNCHANGED <<agentVars, walkVars>>

AddRow(r) ==
  /\ r \notin visible
  /\ Change(visible \cup {r})
  /\ UNCHANGED removed

RemoveRow(r) ==
  /\ r \in visible
  /\ Change(visible \ {r})
  /\ removed' = removed + 1

PagedNext ==
  \/ FetchPage
  \/ FetchFails
  \/ NextSlice
  \/ ListTasks
  \/ \E r \in Row : AddRow(r) \/ RemoveRow(r)

PagedSpec == PagedInit /\ [][PagedNext]_pagedVars

-----------------------------------------------------------------------------
(***************************************************************************)
(* The answers.                                                            *)
(***************************************************************************)
\* documentPaths: the slugs from the first ancestor that is not in the
\* listing down to the document itself.
DocumentPaths(docs) ==
  LET path[r \in docs] ==
        IF Above[r] \in docs THEN Append(path[Above[r]], Slug[r]) ELSE <<Slug[r]>>
  IN path

\* Mutant of PathBase: the paths are computed over the slice of the answer.
PathBaseSlice == RowsOf(SliceOf(got))

\* The listing the paths of an answer are computed over: all that was fetched.
PathBase == RowsOf(got)

\* threadDocComments: a reply goes under the comment it answers, when that
\* was fetched; every other comment is at the top, marked if it is a reply.
Known(r) == Answers[r] \in RowsOf(got)

\* Mutant of Top: a reply whose comment is not in the listing is dropped.
TopThreads == {r \in RowsOf(got) : Answers[r] = NoRow}

Top == {r \in RowsOf(got) : ~Known(r)}

Replies(p) == {r \in RowsOf(got) : Known(r) /\ Answers[r] = p}
Orphans == {r \in Top : Answers[r] # NoRow}

(***************************************************************************)
(* Properties.                                                             *)
(***************************************************************************)
Finished == phase = "done" /\ (kind = "docs" => offset + Slice >= Len(got))

\* A row that was there all the time an agent read, and that it was not
\* shown although no answer said it was cut short, is paid for by a row that
\* was removed meanwhile: rows shift past an offset one by one, and insertion
\* hides nothing.  Without removals nothing is missed at all.
MissedOnlyByDeletion ==
  Finished => Cardinality(stayed \ RowsOf(shown)) <= removed

\* list_doc_comments read while nothing changed shows every comment once:
\* at the top or under the comment it answers, and a reply whose comment is
\* hidden is at the top and marked ("Nothing is dropped").
EveryCommentPlaced ==
  kind = "comments" /\ phase = "done" /\ still =>
    /\ Len(got) = Cardinality(visible)
    /\ visible = Top \cup UNION {Replies(p) : p \in Top}
    /\ Orphans = {r \in visible : Answers[r] # NoRow /\ Answers[r] \notin visible}

\* A document that is listed with all that are above it, up to the root.
FromRoot(r, docs) ==
  \E S \in SUBSET docs : r \in S /\ \A q \in S : Above[q] \in S \cup {NoRow}

Ends(path, part) == \E n \in 1..Len(path) : part = SubSeq(path, n, Len(path))

\* When nothing changed during the walk and it was not cut, the path list_docs
\* gives a document of its slice is the end of the one from the root of the
\* tree, whichever page the documents above it were on; and when those are all
\* listed, it is the whole of it, which no other document of the project has.
\* (Beneath a document that is not listed the path is short, and may be that
\* of another: the code says so, docs.go:118-120.)
PathsOpenTheirRow ==
  kind = "docs" /\ phase = "done" /\ still =>
    LET listed == DocumentPaths(PathBase)
        live   == DocumentPaths(Row)
    IN \A r \in RowsOf(got) :
         r \in RowsOf(SliceOf(got)) =>
           /\ r \in PathBase
           /\ Ends(live[r], listed[r])
           /\ FromRoot(r, visible) =>
                /\ listed[r] = live[r]
                /\ \A s \in Row : live[s] = listed[r] => s = r

\* Every walk, whatever its pages, reads windows that follow each other: the
\* page of list_tasks that is named after a cut begins at the first row left
\* out, and a walk of documents or comments at the end of its last page.
Reader == INSTANCE RowReader WITH off <- start
ReadsRowByRow == Reader!Spec
=============================================================================
