-------------------------- MODULE ToolCallsProofs --------------------------
(***************************************************************************)
(* Proofs about ToolCalls.  The argument has two halves.                   *)
(*                                                                         *)
(* The first is about the text of the handlers alone: every script of      *)
(* every tool keeps four rules (Sound), which are what the order of the    *)
(* requests, and what each failure does to the call, are for.  After a row *)
(* is added no request ends the call in a plain error (NoReturn); a write  *)
(* is best effort, or its failure ends the call or is told, and what it    *)
(* waits for is told as well (Told); a write after a lookup comes after    *)
(* one that cannot have come to nothing (Aims); and a tool writes no more  *)
(* than its annotations say (Hinted).  The scripts are put together from   *)
(* few pieces, and so are these proofs: what only reads keeps the rules    *)
(* (Reading), and a step added to a good script leaves it good (AddStep).  *)
(*                                                                         *)
(* The second half is about the calls: whatever script is run, if it keeps *)
(* the rules, then the answers, failures, lost answers, renames and        *)
(* repeats leave what is done, told and found as CallInv says, and the     *)
(* four properties follow.                                                 *)
(***************************************************************************)
EXTENDS ToolCalls, SequenceTheorems, TLAPS

-----------------------------------------------------------------------------
(***************************************************************************)
(* The rules that a script s of the tool t keeps.                          *)
(***************************************************************************)
\* A step that is made whatever became of the others; the ways a call ends.
Always(x) == x.after = {} /\ x.instead = {}
Ending == {"error", "named"}

\* No plain error after a row was added, in a tool that is not to be repeated.
NoReturn(t, s) == t \notin MayRepeat =>
  \A i, j \in 1..Len(s) :
    i < j /\ s[i].of.effect = "adds" => s[j].fail \notin {"error", "fallback"}

\* A write that fails ends the call or is told, and so is what it waits for.
Reported(x) == Always(x) /\ x.fail = "report"
Told(t, s) == \A i \in 1..Len(s) : IsWrite(s[i].of) =>
  \/ <<t, s[i].of>> \in BestEffort
  \/ /\ s[i].instead = {} /\ s[i].fail \in Ending \cup {"report"}
     /\ \A q \in s[i].after : \E j \in 1..(i - 1) : s[j].of = q /\ Reported(s[j])

\* A lookup that ends the call when it fails; one that may fail, and the
\* other that is made then.
Sure(x)  == x.finds /\ Always(x) /\ x.fail \in Ending
Tried(x) == x.finds /\ Always(x) /\ x.fail = "fallback"
Backs(x, y) == x.finds /\ x.after = {} /\ x.instead = {y.of} /\ x.fail \in Ending
FoundBy(s, J, q) == \A j \in J : s[j].of = q => s[j].finds

\* When the step k is made, a lookup before it has found something.
Settled(s, k) ==
  \/ \E i \in 1..(k - 1) : Sure(s[i])
  \/ \E q \in s[k].after : FoundBy(s, 1..(k - 1), q)
  \/ \E i, j \in 1..(k - 1) : i < j /\ Tried(s[i]) /\ Backs(s[j], s[i])
Aims(s) == \A k \in 1..Len(s) :
  IsWrite(s[k].of) /\ (\E i \in 1..(k - 1) : s[i].finds) => Settled(s, k)

\* What only reads writes nothing; what may be repeated adds nothing but the
\* comment of move_task.
Harmless(t, r) ==
  /\ t \in ReadOnly => ~IsWrite(r)
  /\ t \in MayRepeat /\ r.effect = "adds" => t = "move_task" /\ r = AddComment
Hinted(t, s) == \A i \in 1..Len(s) : Harmless(t, s[i].of)

Sound(t, s) == Len(s) \in Nat /\ NoReturn(t, s) /\ Told(t, s) /\ Aims(s) /\ Hinted(t, s)

-----------------------------------------------------------------------------
(***************************************************************************)
(* Scripts that only read.                                                 *)
(***************************************************************************)
\* The script p only reads; the scripts of P do.
IsReading(p) == \E S : p \in Seq(S) /\ \A x \in S : ~IsWrite(x.of)
Reading(P) == \A p \in P : IsReading(p)

\* A script of P ++ Q is one of P followed by one of Q.
LEMMA InJoin ==
  ASSUME NEW P, NEW Q, NEW x \in P ++ Q
  PROVE  \E p \in P, q \in Q : x = p \o q
BY DEF ++

\* A sequence of reads is a script that only reads.
LEMMA ReadingIn ==
  ASSUME NEW S, NEW p, p \in Seq(S), \A y \in S : ~IsWrite(y.of)
  PROVE  IsReading(p)
BY DEF IsReading

\* A script of up to three reads.
LEMMA ReadingThree ==
  ASSUME NEW x, NEW y, NEW z, ~IsWrite(x.of), ~IsWrite(y.of), ~IsWrite(z.of)
  PROVE  IsReading(<<x, y, z>>) /\ IsReading(<<x, y>>) /\ IsReading(<<x>>) /\ IsReading(<<>>)
<1> DEFINE S == {x, y, z}
           p0 == <<>>  p1 == <<x>>  p2 == <<x, y>>  p3 == <<x, y, z>>
<1>1. p0 \in Seq(S) /\ p1 \in Seq(S) /\ p2 \in Seq(S) /\ p3 \in Seq(S)
  OBVIOUS
<1>2. \A w \in S : ~IsWrite(w.of)
  OBVIOUS
<1> HIDE DEF S, p0, p1, p2, p3
<1>3. IsReading(p0) /\ IsReading(p1) /\ IsReading(p2) /\ IsReading(p3)
  BY <1>1, <1>2, ReadingIn
<1>. QED
  BY <1>3 DEF p0, p1, p2, p3

\* Two reads, or nothing.
LEMMA ReadingTwo ==
  ASSUME NEW x, NEW y, ~IsWrite(x.of), ~IsWrite(y.of)
  PROVE  IsReading(<<x, y>>) /\ Reading({<<x, y>>}) /\ Reading({<<>>, <<x, y>>})
<1>1. IsReading(<<x, y>>) /\ IsReading(<<>>)
  BY ReadingThree
<1>. QED
  BY <1>1 DEF Reading

\* One read, or one or none.
LEMMA ReadingOnly ==
  ASSUME NEW x, ~IsWrite(x.of)
  PROVE  Reading(Only(x)) /\ Reading(Optional(x))
<1>1. IsReading(<<x>>) /\ IsReading(<<>>)
  BY ReadingThree
<1>. QED
  BY <1>1 DEF Reading, Only, Optional

\* The script without a step.
LEMMA ReadingNone == IsReading(<<>>) /\ Reading({<<>>})
<1> DEFINE p == <<>>
<1>1. p \in Seq({}) /\ \A y \in {} : ~IsWrite(y.of)
  OBVIOUS
<1> HIDE DEF p
<1>2. IsReading(p)
  BY <1>1, ReadingIn
<1>. QED
  BY <1>2 DEF Reading, p

\* What only reads, after what only reads.
LEMMA ReadingJoin ==
  ASSUME NEW P, NEW Q, Reading(P), Reading(Q)
  PROVE  Reading(P ++ Q)
<1> SUFFICES ASSUME NEW x \in P ++ Q
             PROVE  IsReading(x)
  BY DEF Reading
<1>1. PICK p \in P, q \in Q : x = p \o q
  BY InJoin
<1>2. PICK S : p \in Seq(S) /\ \A y \in S : ~IsWrite(y.of)
  BY DEF Reading, IsReading
<1>3. PICK T : q \in Seq(T) /\ \A y \in T : ~IsWrite(y.of)
  BY DEF Reading, IsReading
<1>4. p \in Seq(S \cup T) /\ q \in Seq(S \cup T)
  BY <1>2, <1>3
<1>5. p \o q \in Seq(S \cup T)
  BY <1>4, ConcatProperties
<1>. QED
  BY <1>1, <1>2, <1>3, <1>5 DEF IsReading

\* What only reads, or what only reads.
LEMMA ReadingCup ==
  ASSUME NEW P, NEW Q, Reading(P), Reading(Q)
  PROVE  Reading(P \cup Q)
BY DEF Reading

-----------------------------------------------------------------------------
\* A step that may follow whatever sound script has looked its name up well.
Clear(p) ==
  \/ \A i \in 1..Len(p) : ~p[i].finds
  \/ \E i \in 1..Len(p) : Sure(p[i])
  \/ \E i, j \in 1..Len(p) : i < j /\ Tried(p[i]) /\ Backs(p[j], p[i])

Good(t, p) == (\E S : p \in Seq(S)) /\ Sound(t, p) /\ Clear(p)

Fits(t, x) ==
  /\ ~x.finds /\ Harmless(t, x.of)
  /\ IsWrite(x.of) =>
       \/ <<t, x.of>> \in BestEffort
       \/ x.after = {} /\ x.instead = {} /\ x.fail \in Ending \cup {"report"}

\* No plain error of x comes after a row that the steps of p added.
Safely(t, p, x) ==
  \/ t \in MayRepeat
  \/ x.fail \notin {"error", "fallback"}
  \/ \A i \in 1..Len(p) : p[i].of.effect # "adds"

\* A step that fits a good script leaves it good. This is the induction that the
\* scripts need: each is a few steps long, and each step keeps the four rules.
LEMMA AddStep ==
  ASSUME NEW t, NEW p, Good(t, p), NEW x, Fits(t, x), Safely(t, p, x)
  PROVE  Good(t, p \o <<x>>)
<1>1. PICK S : p \in Seq(S)
  BY DEF Good
<1> DEFINE T == S \cup {x}
           n == Len(p)
           s == p \o <<x>>
<1>2. p \in Seq(T) /\ x \in T /\ n \in Nat
  BY <1>1, LenProperties
<1>3. s = Append(p, x)
  BY <1>2, AppendIsConcat
<1>4. s \in Seq(T) /\ Len(s) = n + 1 /\ s[n + 1] = x /\ \A i \in 1..n : s[i] = p[i]
  BY <1>2, <1>3, AppendProperties
<1>5. /\ 1..Len(s) = (1..n) \cup {n + 1}
      /\ \A i \in 1..n : i < n + 1 /\ ~(n + 1 < i) /\ 1..(i - 1) \subseteq 1..n
  BY <1>2, <1>4
<1>6. 1..((n + 1) - 1) = 1..n /\ ~(n + 1 < n + 1)
  BY <1>2
<1> HIDE DEF T, s, n
<1>7. NoReturn(t, s)
  <2> SUFFICES ASSUME t \notin MayRepeat, NEW i \in 1..Len(s), NEW j \in 1..Len(s), i < j,
                      s[i].of.effect = "adds"
               PROVE  s[j].fail \notin {"error", "fallback"}
    BY DEF NoReturn
  <2>1. i \in 1..n
    BY <1>5, <1>6, <1>2
  <2>2. CASE j \in 1..n
    BY <1>4, <2>1, <2>2 DEF Good, Sound, NoReturn, n
  <2>3. CASE j = n + 1
    BY <1>4, <2>1, <2>3 DEF Safely, n
  <2>. QED
    BY <1>5, <2>2, <2>3
<1>8. Told(t, s)
  <2>1. ASSUME NEW i \in 1..n, IsWrite(s[i].of), <<t, s[i].of>> \notin BestEffort
        PROVE  /\ s[i].instead = {} /\ s[i].fail \in Ending \cup {"report"}
               /\ \A q \in s[i].after : \E j \in 1..(i - 1) : s[j].of = q /\ Reported(s[j])
    <3>1. /\ p[i].instead = {} /\ p[i].fail \in Ending \cup {"report"}
          /\ \A q \in p[i].after : \E j \in 1..(i - 1) : p[j].of = q /\ Reported(p[j])
      BY <1>4, <2>1 DEF Good, Sound, Told, n
    <3>. QED
      BY <1>4, <1>5, <3>1
  <2>2. IsWrite(x.of) /\ <<t, x.of>> \notin BestEffort =>
          x.instead = {} /\ x.fail \in Ending \cup {"report"} /\ x.after = {}
    BY DEF Fits
  <2>. QED
    BY <1>4, <1>5, <2>1, <2>2 DEF Told
<1>9. Clear(s)
  <2>1. CASE \A i \in 1..n : ~p[i].finds
    BY <1>4, <1>5, <2>1 DEF Clear, Fits
  <2>2. CASE \E i \in 1..n : Sure(p[i])
    BY <1>4, <1>5, <2>2 DEF Clear
  <2>3. CASE \E i, j \in 1..n : i < j /\ Tried(p[i]) /\ Backs(p[j], p[i])
    BY <1>4, <1>5, <2>3 DEF Clear
  <2>. QED
    BY <2>1, <2>2, <2>3 DEF Good, Clear, n
<1>10. Aims(s)
  <2> SUFFICES ASSUME NEW k \in 1..Len(s), IsWrite(s[k].of), \E i \in 1..(k - 1) : s[i].finds
               PROVE  Settled(s, k)
    BY DEF Aims
  <2>1. CASE k \in 1..n
    <3>1. IsWrite(p[k].of) /\ \E i \in 1..(k - 1) : p[i].finds
      BY <1>4, <1>5, <2>1
    <3>2. Settled(p, k)
      BY <2>1, <3>1 DEF Good, Sound, Aims, n
    <3>3. CASE \E i \in 1..(k - 1) : Sure(p[i])
      BY <1>4, <1>5, <2>1, <3>3 DEF Settled
    <3>4. CASE \E q \in p[k].after : FoundBy(p, 1..(k - 1), q)
      <4>1. PICK q \in s[k].after : FoundBy(p, 1..(k - 1), q)
        BY <1>4, <2>1, <3>4
      <4>2. FoundBy(s, 1..(k - 1), q)
        BY <1>4, <1>5, <2>1, <4>1 DEF FoundBy
      <4>. QED
        BY <4>1, <4>2 DEF Settled
    <3>5. CASE \E i, j \in 1..(k - 1) : i < j /\ Tried(p[i]) /\ Backs(p[j], p[i])
      BY <1>4, <1>5, <2>1, <3>5 DEF Settled
    <3>. QED
      BY <3>2, <3>3, <3>4, <3>5 DEF Settled
  <2>2. CASE k = n + 1
    <3>1. ~\A i \in 1..n : ~p[i].finds
      BY <1>4, <1>6, <2>2
    <3>2. CASE \E i \in 1..n : Sure(p[i])
      BY <1>4, <1>6, <2>2, <3>2 DEF Settled
    <3>3. CASE \E i, j \in 1..n : i < j /\ Tried(p[i]) /\ Backs(p[j], p[i])
      BY <1>4, <1>6, <2>2, <3>3 DEF Settled
    <3>. QED
      BY <3>1, <3>2, <3>3 DEF Good, Clear, n
  <2>. QED
    BY <1>5, <2>1, <2>2
<1>11. Hinted(t, s)
  <2>1. \A i \in 1..n : Harmless(t, p[i].of)
    BY DEF Good, Sound, Hinted, n
  <2>. QED
    BY <1>4, <1>5, <2>1 DEF Hinted, Fits
<1>12. Len(s) \in Nat
  BY <1>2, <1>4
<1>. QED
  BY <1>4, <1>7, <1>8, <1>9, <1>10, <1>11, <1>12 DEF Good, Sound, s

AllGood(t, P) == \A p \in P : Good(t, p)

\* The same for a set of scripts, and for a step that may be left out.
LEMMA AddSteps ==
  ASSUME NEW t, NEW P, AllGood(t, P), NEW x, Fits(t, x), \A p \in P : Safely(t, p, x)
  PROVE  AllGood(t, P ++ Only(x)) /\ AllGood(t, P ++ Optional(x))
<1> DEFINE one == <<x>>
           none == <<>>
<1>1. ASSUME NEW p \in P
      PROVE  Good(t, p \o one) /\ Good(t, p \o none)
  <2>1. Good(t, p) /\ Safely(t, p, x)
    BY DEF AllGood
  <2>2. p \o none = p
    BY <2>1, ConcatEmptySeq DEF Good
  <2>3. Good(t, p \o one)
    BY <2>1, AddStep
  <2>. QED
    BY <2>1, <2>2, <2>3
<1>2. \A q \in Only(x) : q = one
  BY DEF Only
<1>3. \A q \in Optional(x) : q = one \/ q = none
  BY DEF Optional
<1> HIDE DEF one, none
<1>4. ASSUME NEW s \in P ++ Only(x)
      PROVE  Good(t, s)
  <2>1. PICK p \in P, q \in Only(x) : s = p \o q
    BY InJoin
  <2>. QED
    BY <1>1, <1>2, <2>1
<1>5. ASSUME NEW s \in P ++ Optional(x)
      PROVE  Good(t, s)
  <2>1. PICK p \in P, q \in Optional(x) : s = p \o q
    BY InJoin
  <2>. QED
    BY <1>1, <1>3, <2>1
<1>. QED
  BY <1>4, <1>5 DEF AllGood

\* Whatever only reads is sound, and keeps a write after it safe.
LEMMA ReadingGood ==
  ASSUME NEW t, NEW p, IsReading(p)
  PROVE  /\ Sound(t, p)
         /\ Clear(p) => Good(t, p)
         /\ \A x : Safely(t, p, x)
<1>1. PICK S : p \in Seq(S) /\ \A x \in S : ~IsWrite(x.of)
  BY DEF IsReading
<1>2. Len(p) \in Nat /\ \A i \in 1..Len(p) : ~IsWrite(p[i].of) /\ p[i].of.effect # "adds"
  <2>1. \A i \in 1..Len(p) : ~IsWrite(p[i].of)
    BY <1>1, ElementOfSeq
  <2>. QED
    BY <1>1, <2>1, LenProperties DEF IsWrite
<1>3. Sound(t, p)
  BY <1>2 DEF Sound, NoReturn, Told, Aims, Hinted, Harmless
<1>4. \A x : Safely(t, p, x)
  BY <1>2 DEF Safely
<1>. QED
  BY <1>1, <1>3, <1>4 DEF Good

-----------------------------------------------------------------------------
(***************************************************************************)
(* The scripts of the handlers.                                            *)
(***************************************************************************)
\* What the requests of the scripts are.
LEMMA RequestsAre ==
  /\ ~IsWrite(GetProjectStatuses) /\ ~IsWrite(GetTaskStatuses) /\ ~IsWrite(GetTask)
  /\ ~IsWrite(GetProject) /\ ~IsWrite(GetWorkspace) /\ ~IsWrite(ListProjectUpdates)
  /\ ~IsWrite(GetTeamDirectory) /\ ~IsWrite(GetTaskDependencies)
  /\ ~IsWrite(GetProjectCustomFields) /\ ~IsWrite(ListTasks) /\ ~IsWrite(GetTaskContext)
  /\ ~IsWrite(GetRecurringHistory) /\ ~IsWrite(GetContext) /\ ~IsWrite(GetProjectKnowledge)
  /\ ~IsWrite(RecallMemories) /\ ~IsWrite(ListProjects) /\ ~IsWrite(GetDocumentByPath)
BY DEF IsWrite, Reads, GetProjectStatuses, GetTaskStatuses, GetTask, GetProject, GetWorkspace,
       ListProjectUpdates, GetTeamDirectory, GetTaskDependencies, GetProjectCustomFields,
       ListTasks, GetTaskContext, GetRecurringHistory, GetContext, GetProjectKnowledge,
       RecallMemories, ListProjects, GetDocumentByPath

\* What the requests of the steps are.
LEMMA StepIsOf ==
  ASSUME NEW r, NEW q
  PROVE  /\ Must(r).of = r /\ Softly(r).of = r /\ Falling(r).of = r
         /\ Finding(Must(r)).of = r /\ Finding(Falling(r)).of = r /\ Finding(Reporting(r)).of = r
         /\ After(Softly(r), q).of = r
         /\ Instead(Must(r), q).of = r /\ Instead(Finding(Must(r)), q).of = r
BY DEF Must, Softly, Falling, Reporting, Finding, After, Instead, Step

\* The parts that several handlers share only read.
LEMMA PartsRead ==
  /\ Reading(StatusOfProject) /\ Reading(StatusOfRows) /\ Reading(StatusOfTask)
  /\ Reading(UpdatesPage) /\ Reading(LatestUpdate)
<1>1. Reading(StatusOfProject)
  BY RequestsAre, StepIsOf, ReadingOnly DEF StatusOfProject
<1>2. Reading(StatusOfRows)
  BY RequestsAre, StepIsOf, ReadingTwo DEF StatusOfRows
<1>3. Reading(StatusOfTask)
  <2> DEFINE a == Finding(Falling(GetTaskStatuses))
             b == Instead(Must(GetTask), GetTaskStatuses)
             c == Instead(Finding(Must(GetProjectStatuses)), GetTaskStatuses)
  <2>1. ~IsWrite(a.of) /\ ~IsWrite(b.of) /\ ~IsWrite(c.of)
    BY RequestsAre, StepIsOf
  <2> HIDE DEF a, b, c
  <2>2. IsReading(<<a, b, c>>)
    BY <2>1, ReadingThree
  <2>. QED
    BY <2>2 DEF StatusOfTask, Reading, a, b, c
<1>4. Reading(UpdatesPage)
  BY RequestsAre, StepIsOf, ReadingTwo DEF UpdatesPage
<1>5. Reading(LatestUpdate)
  BY <1>4, RequestsAre, StepIsOf, ReadingOnly, ReadingNone, ReadingJoin, ReadingCup DEF LatestUpdate
<1>. QED
  BY <1>1, <1>2, <1>3, <1>4, <1>5

\* get_project: three requests for the project, and its latest update.
LEMMA GetProjectReads == Reading(get_project)
<1> DEFINE a == Must(GetProject)
           b == Must(GetProjectStatuses)
           c == Must(GetProjectCustomFields)
<1>1. ~IsWrite(a.of) /\ ~IsWrite(b.of) /\ ~IsWrite(c.of)
  BY RequestsAre, StepIsOf
<1> HIDE DEF a, b, c
<1>2. Reading({<<a, b, c>>})
  BY <1>1, ReadingThree DEF Reading
<1>. QED
  BY <1>2, PartsRead, ReadingJoin DEF get_project, a, b, c

\* list_tasks: an assignee is looked up, and the statuses of the rows.
LEMMA ListTasksRead == Reading(list_tasks)
<1>1. Reading({<<>>} \cup Only(Finding(Must(GetTeamDirectory))))
      /\ Reading(Only(Must(ListTasks)))
  BY RequestsAre, StepIsOf, ReadingOnly, ReadingNone, ReadingCup
<1>2. Reading({<<>>} \cup StatusOfRows)
  BY PartsRead, ReadingNone, ReadingCup
<1>. QED
  BY <1>1, <1>2, ReadingJoin DEF list_tasks

\* get_task_context: the context, the series of the task, and the latest update.
LEMMA GetTaskContextReads == Reading(get_task_context)
<1>1. Reading(Optional(Must(GetTask))) /\ Reading(Only(Must(GetTaskContext)))
      /\ Reading(Optional(Softly(GetRecurringHistory)))
  BY RequestsAre, StepIsOf, ReadingOnly
<1>. QED
  BY <1>1, PartsRead, ReadingJoin DEF get_task_context

\* get_canonical: memories, or the knowledge of the project of a slug.
LEMMA GetCanonicalReads == Reading(get_canonical)
<1>1. Reading(Only(Softly(RecallMemories)))
  BY RequestsAre, StepIsOf, ReadingOnly
<1> DEFINE a == Softly(ListProjects)
           b == After(Softly(GetProjectKnowledge), ListProjects)
<1>2. ~IsWrite(a.of) /\ ~IsWrite(b.of)
  BY RequestsAre, StepIsOf
<1> HIDE DEF a, b
<1>3. Reading({<<>>, <<a, b>>})
  BY <1>2, ReadingTwo
<1>. QED
  BY <1>1, <1>3, ReadingJoin DEF get_canonical, a, b

\* get_memory: a page of memories after another, the last with the key.
LEMMA GetMemoryReads == Reading(get_memory)
<1> SUFFICES ASSUME NEW n \in 1..GetMemoryPages
             PROVE  IsReading([i \in 1..n |-> IF i = n THEN Finding(Must(RecallMemories))
                                              ELSE Must(RecallMemories)])
  BY DEF get_memory, Reading
<1> DEFINE a == Finding(Must(RecallMemories))
           b == Must(RecallMemories)
           p == [i \in 1..n |-> IF i = n THEN a ELSE b]
<1>1. a.of = RecallMemories /\ b.of = RecallMemories
  BY StepIsOf
<1>2. p \in [1..n -> {a, b}] /\ n \in Nat
  BY DEF GetMemoryPages
<1> HIDE DEF a, b, p
<1>3. p \in Seq({a, b})
  BY <1>2, SeqDef
<1>4. \A y \in {a, b} : ~IsWrite(y.of)
  BY <1>1, RequestsAre
<1>5. IsReading(p)
  BY <1>3, <1>4, ReadingIn
<1>. QED
  BY <1>5 DEF p, a, b

\* A tool annotated read-only has scripts that only read.
LEMMA ReadersRead ==
  /\ Reading(list_projects) /\ Reading(get_project_updates) /\ Reading(list_artifacts)
  /\ Reading(get_artifact) /\ Reading(get_context) /\ Reading(get_my_rules)
  /\ Reading(get_project_rules) /\ Reading(list_sub_agents) /\ Reading(get_team_directory)
  /\ Reading(get_assignment_rules) /\ Reading(get_workflow_rules)
  /\ Reading(export_workspace_config) /\ Reading(poll_tasks)
  /\ Reading(get_operator_runtime) /\ Reading(get_workspace_runtime)
  /\ Reading(get_operator_runtime_history) /\ Reading(get_workspace_runtime_revisions)
  /\ Reading(list_recurring_schedules) /\ Reading(get_recurring_history) /\ Reading(recall)
  /\ Reading(recall_with_graph) /\ Reading(get_project_knowledge)
  /\ Reading(get_canonical_updates) /\ Reading(search_docs)
<1>1. \A r : ~IsWrite(r) => Reading(Only(Must(r))) /\ Reading(Only(Softly(r)))
  BY StepIsOf, ReadingOnly
<1> USE <1>1 DEF IsWrite, Reads
<1>2. Reading(list_projects) /\ Reading(get_project_updates) /\ Reading(list_artifacts)
      /\ Reading(get_artifact)
  BY DEF list_projects, get_project_updates, list_artifacts, get_artifact, ListProjects,
         ListProjectUpdates, ListArtifacts, GetArtifact
<1>3. Reading(get_my_rules) /\ Reading(get_project_rules) /\ Reading(list_sub_agents)
      /\ Reading(get_team_directory) /\ Reading(get_assignment_rules)
      /\ Reading(get_workflow_rules)
  BY DEF get_my_rules, get_project_rules, list_sub_agents, get_team_directory,
         get_assignment_rules, get_workflow_rules, GetEffectiveRules, ListSubAgents,
         GetTeamDirectory, GetAssignmentRules, GetWorkflowRules
<1>4. Reading(export_workspace_config) /\ Reading(poll_tasks)
      /\ Reading(get_operator_runtime) /\ Reading(get_workspace_runtime)
      /\ Reading(get_operator_runtime_history) /\ Reading(get_workspace_runtime_revisions)
      /\ Reading(list_recurring_schedules) /\ Reading(get_recurring_history)
  BY DEF export_workspace_config, poll_tasks, get_operator_runtime, get_workspace_runtime,
         get_operator_runtime_history, get_workspace_runtime_revisions,
         list_recurring_schedules, get_recurring_history, ExportWorkspaceConfig, PollTasks,
         ReadRuntime, ListRecurringSchedules, GetRecurringHistory
<1>5. Reading(recall) /\ Reading(recall_with_graph) /\ Reading(get_project_knowledge)
      /\ Reading(get_canonical_updates)
  BY DEF recall, recall_with_graph, get_project_knowledge, get_canonical_updates,
         RecallFinal, RecallWithGraph, GetProjectKnowledge, GetCanonicalUpdates
<1>6. Reading(Only(Must(GetContext))) /\ Reading(Only(Softly(GetProjectKnowledge)))
      /\ Reading(Only(Must(SearchDocuments))) /\ Reading(Only(Must(ListDocuments)))
  BY DEF GetContext, GetProjectKnowledge, SearchDocuments, ListDocuments
<1>7. Reading(get_context) /\ Reading(search_docs)
  BY <1>6, ReadingJoin DEF get_context, search_docs
<1>. QED
  BY <1>2, <1>3, <1>4, <1>5, <1>7

-----------------------------------------------------------------------------
\* Lookups before a write: of the status of a project or of a task, of the
\* edge of two tasks.
Lookup(P) == Reading(P) /\ \A p \in P : Clear(p)

\* A lookup is good, and any step may follow it.
LEMMA LookupGood ==
  ASSUME NEW t, NEW P, Lookup(P)
  PROVE  AllGood(t, P) /\ \A p \in P : \A x : Safely(t, p, x)
BY ReadingGood DEF Lookup, Reading, AllGood

\* No step is a lookup too: there is nothing to find.
LEMMA NoLookup == Lookup({<<>>})
<1>1. Len(<<>>) = 0
  OBVIOUS
<1>2. Clear(<<>>)
  BY <1>1 DEF Clear
<1>. QED
  BY <1>2, ReadingNone DEF Lookup

\* One lookup, or another.
LEMMA LookupCup ==
  ASSUME NEW P, NEW Q, Lookup(P), Lookup(Q)
  PROVE  Lookup(P \cup Q)
BY ReadingCup DEF Lookup

\* A lookup that ends the call when it fails.
LEMMA SureLookup ==
  ASSUME NEW P, Reading(P), NEW r, ~IsWrite(r)
  PROVE  Lookup(Only(Finding(Must(r)))) /\ Lookup(P ++ Only(Finding(Must(r))))
<1> DEFINE x == Finding(Must(r))
           one == <<x>>
<1>1. Reading(Only(x))
  BY StepIsOf, ReadingOnly
<1>2. Sure(x)
  BY DEF Sure, Finding, Must, Step, Always, Ending
<1>3. Len(one) = 1 /\ one[1] = x /\ \A q \in Only(x) : q = one
  BY DEF Only
<1> HIDE DEF one, x
<1>4. Clear(one)
  BY <1>2, <1>3 DEF Clear
<1>5. ASSUME NEW s \in P ++ Only(x)
      PROVE  Clear(s)
  <2>1. PICK p \in P, q \in Only(x) : s = p \o q
    BY InJoin
  <2>2. PICK S : p \in Seq(S)
    BY DEF Reading, IsReading
  <2>3. p \in Seq(S \cup {x}) /\ x \in S \cup {x} /\ Len(p) \in Nat
    BY <2>2, LenProperties
  <2>4. s = Append(p, x)
    BY <1>3, <2>1, <2>3, AppendIsConcat DEF one
  <2>5. Len(s) = Len(p) + 1 /\ s[Len(p) + 1] = x
    BY <2>3, <2>4, AppendProperties
  <2>6. Len(p) + 1 \in 1..Len(s)
    BY <2>3, <2>5
  <2>. QED
    BY <1>2, <2>5, <2>6 DEF Clear
<1>6. Reading(P ++ Only(x))
  BY <1>1, ReadingJoin
<1>7. Lookup(Only(x)) /\ Lookup(P ++ Only(x))
  BY <1>1, <1>3, <1>4, <1>5, <1>6 DEF Lookup
<1>. QED
  BY <1>7 DEF x

\* The status of a task: where the task's own statuses are not to be seen,
\* those of its project are.
LEMMA StatusOfTaskLookup == Lookup(StatusOfTask)
<1> DEFINE a == Finding(Falling(GetTaskStatuses))
           b == Instead(Must(GetTask), GetTaskStatuses)
           c == Instead(Finding(Must(GetProjectStatuses)), GetTaskStatuses)
           s == <<a, b, c>>
<1>1. Len(s) = 3 /\ s[1] = a /\ s[3] = c
  OBVIOUS
<1>2. Tried(a) /\ Backs(c, a)
  BY DEF Tried, Backs, Finding, Falling, Instead, Must, Step, Always, Ending
<1> HIDE DEF s, a, c
<1>3. 1 \in 1..3 /\ 3 \in 1..3 /\ 1 < 3
  OBVIOUS
<1>4. Clear(s)
  BY <1>1, <1>2, <1>3 DEF Clear
<1>. QED
  BY <1>4, PartsRead DEF Lookup, StatusOfTask, s, a, c

\* The edge of two tasks: its absence ends the call.
LEMMA EdgeOfPairLookup == Lookup(EdgeOfPair)
<1>1. Reading(Only(Must(GetTask))) /\ Reading(Optional(Must(GetTask)))
  BY RequestsAre, StepIsOf, ReadingOnly
<1>. QED
  BY <1>1, RequestsAre, ReadingJoin, SureLookup DEF EdgeOfPair

-----------------------------------------------------------------------------
\* A script of one step.
LEMMA OneStepGood ==
  ASSUME NEW t, NEW x, Fits(t, x)
  PROVE  AllGood(t, Only(x)) /\ AllGood(t, Optional(x))
<1> DEFINE none == <<>>
           one == <<x>>
<1>1. one \in Seq({x}) /\ Len(none) = 0
  OBVIOUS
<1>2. none \o one = one
  BY <1>1, ConcatEmptySeq
<1>3. Good(t, none) /\ Safely(t, none, x)
  BY NoLookup, LookupGood DEF AllGood
<1>4. Good(t, none \o one)
  BY <1>3, AddStep
<1> HIDE DEF none, one
<1>5. Good(t, none) /\ Good(t, one)
  BY <1>2, <1>3, <1>4
<1>. QED
  BY <1>5 DEF AllGood, Only, Optional, none, one

\* A write of a tool that may write, whose failure ends the call or is told.
LEMMA WriteFits ==
  ASSUME NEW t, t \notin ReadOnly, NEW r, t \in MayRepeat => r.effect # "adds"
  PROVE  Fits(t, Must(r)) /\ Fits(t, Naming(r)) /\ Fits(t, Reporting(r))
BY DEF Fits, Harmless, Must, Naming, Reporting, Step, Ending

\* One such write.
LEMMA WriteGood ==
  ASSUME NEW t, t \notin ReadOnly, NEW r, t \in MayRepeat => r.effect # "adds"
  PROVE  AllGood(t, Only(Must(r))) /\ AllGood(t, Optional(Must(r)))
BY WriteFits, OneStepGood

\* A write after lookups.
LEMMA LookedUpWrite ==
  ASSUME NEW t, t \notin ReadOnly, NEW r, t \in MayRepeat => r.effect # "adds",
         NEW P, Lookup(P)
  PROVE  AllGood(t, P ++ Only(Must(r))) /\ AllGood(t, P ++ Optional(Must(r)))
BY WriteFits, LookupGood, AddSteps

\* What is good keeps the rules.
LEMMA GoodSound ==
  ASSUME NEW t, NEW P, AllGood(t, P)
  PROVE  \A s \in P : Sound(t, s)
BY DEF AllGood, Good

\* The tools that look something up for their write.
LEMMA LookingToolsSound ==
  /\ \A s \in create_task : Sound("create_task", s)
  /\ \A s \in create_subtask : Sound("create_subtask", s)
  /\ \A s \in update_dependency : Sound("update_dependency", s)
  /\ \A s \in remove_dependency : Sound("remove_dependency", s)
  /\ \A s \in comment_doc : Sound("comment_doc", s)
  /\ \A s \in subscribe_events : Sound("subscribe_events", s)
<1>1. /\ "create_task" \notin MayRepeat /\ "create_subtask" \notin MayRepeat
      /\ "update_dependency" \notin MayRepeat /\ "remove_dependency" \notin MayRepeat
      /\ "comment_doc" \notin MayRepeat
      /\ "subscribe_events" \notin ReadOnly /\ UpdateMe.effect # "adds"
  BY DEF MayRepeat, ReadOnly, Idempotent, UpdateMe, Sets
<1>2. ReadOnly \subseteq MayRepeat
  BY DEF MayRepeat
<1>3. AllGood("create_task", create_task)
  <2>1. Lookup(StatusOfProject)
    BY RequestsAre, ReadingNone, SureLookup DEF StatusOfProject
  <2>2. Lookup({<<>>} \cup StatusOfProject)
    BY <2>1, NoLookup, LookupCup
  <2>. QED
    BY <1>1, <1>2, <2>2, LookedUpWrite DEF create_task
<1>4. AllGood("create_subtask", create_subtask)
  <2>1. Lookup({<<>>} \cup StatusOfTask)
    BY StatusOfTaskLookup, NoLookup, LookupCup
  <2>. QED
    BY <1>1, <1>2, <2>1, LookedUpWrite DEF create_subtask
<1>5. AllGood("update_dependency", update_dependency)
  BY <1>1, <1>2, EdgeOfPairLookup, LookedUpWrite DEF update_dependency
<1>6. AllGood("remove_dependency", remove_dependency)
  BY <1>1, <1>2, EdgeOfPairLookup, LookedUpWrite DEF remove_dependency
<1>7. AllGood("comment_doc", comment_doc)
  <2> DEFINE x == Must(GetDocumentByPath)
             none == <<>>
             one == <<x>>
  <2>1. Reading(Optional(x))
    BY RequestsAre, StepIsOf, ReadingOnly
  <2>2. Len(none) = 0 /\ Len(one) = 1 /\ one[1] = x /\ \A p \in Optional(x) : p = none \/ p = one
    BY DEF Optional
  <2>3. ~x.finds
    BY DEF Must, Step
  <2> HIDE DEF x, none, one
  <2>4. Lookup(Optional(x))
    BY <2>1, <2>2, <2>3 DEF Lookup, Clear
  <2>. QED
    BY <1>1, <1>2, <2>4, LookedUpWrite DEF comment_doc, x
<1>8. AllGood("subscribe_events", subscribe_events)
  BY <1>1, WriteGood DEF subscribe_events
<1>. QED
  BY <1>3, <1>4, <1>5, <1>6, <1>7, <1>8, GoodSound

\* The tools that make one write.
LEMMA WritersSound ==
  /\ \A s \in post_project_update : Sound("post_project_update", s)
  /\ \A s \in update_task : Sound("update_task", s)
  /\ \A s \in add_dependency : Sound("add_dependency", s)
  /\ \A s \in assign_task : Sound("assign_task", s)
  /\ \A s \in add_comment : Sound("add_comment", s)
  /\ \A s \in mark_vcs_deployed : Sound("mark_vcs_deployed", s)
  /\ \A s \in upload_artifact : Sound("upload_artifact", s)
  /\ \A s \in clear_start_after : Sound("clear_start_after", s)
  /\ \A s \in set_human_gate : Sound("set_human_gate", s)
  /\ \A s \in clear_human_gate : Sound("clear_human_gate", s)
  /\ \A s \in publish_event : Sound("publish_event", s)
  /\ \A s \in publish_summary : Sound("publish_summary", s)
  /\ \A s \in heartbeat : Sound("heartbeat", s)
  /\ \A s \in register_sub_agent : Sound("register_sub_agent", s)
  /\ \A s \in import_workspace_config : Sound("import_workspace_config", s)
  /\ \A s \in session_report : Sound("session_report", s)
  /\ \A s \in save_operator_runtime : Sound("save_operator_runtime", s)
  /\ \A s \in save_workspace_runtime : Sound("save_workspace_runtime", s)
  /\ \A s \in set_agent_limits : Sound("set_agent_limits", s)
  /\ \A s \in create_recurring_task : Sound("create_recurring_task", s)
  /\ \A s \in trigger_recurring_now : Sound("trigger_recurring_now", s)
  /\ \A s \in update_recurring_schedule : Sound("update_recurring_schedule", s)
  /\ \A s \in delete_recurring_schedule : Sound("delete_recurring_schedule", s)
  /\ \A s \in remember : Sound("remember", s)
  /\ \A s \in set_project_knowledge : Sound("set_project_knowledge", s)
  /\ \A s \in forget : Sound("forget", s)
  /\ \A s \in create_doc : Sound("create_doc", s)
  /\ \A t \in DOMAIN TurnOutcomeTools : \A s \in TurnOutcomeTools[t] : Sound(t, s)
<1>1. ASSUME NEW t, t \notin ReadOnly, NEW r, t \in Idempotent => r.effect # "adds"
      PROVE  \A s \in Only(Must(r)) : Sound(t, s)
  BY <1>1, WriteGood, GoodSound DEF MayRepeat
<1> USE DEF ReadOnly, Idempotent, Adds, Sets
<1>2. /\ \A s \in post_project_update : Sound("post_project_update", s)
      /\ \A s \in update_task : Sound("update_task", s)
      /\ \A s \in add_dependency : Sound("add_dependency", s)
      /\ \A s \in assign_task : Sound("assign_task", s)
      /\ \A s \in add_comment : Sound("add_comment", s)
      /\ \A s \in mark_vcs_deployed : Sound("mark_vcs_deployed", s)
  BY <1>1 DEF post_project_update, update_task, add_dependency, assign_task, add_comment,
     mark_vcs_deployed, CreateProjectUpdate, UpdateTask, AddDependency, AssignTask, AddComment,
     MarkVCSLinkDeployed
<1>3. /\ \A s \in upload_artifact : Sound("upload_artifact", s)
      /\ \A s \in clear_start_after : Sound("clear_start_after", s)
      /\ \A s \in set_human_gate : Sound("set_human_gate", s)
      /\ \A s \in clear_human_gate : Sound("clear_human_gate", s)
      /\ \A s \in publish_event : Sound("publish_event", s)
      /\ \A s \in publish_summary : Sound("publish_summary", s)
      /\ \A s \in heartbeat : Sound("heartbeat", s)
  BY <1>1 DEF upload_artifact, clear_start_after, set_human_gate, clear_human_gate,
     publish_event, publish_summary, heartbeat, UploadArtifact, ClearStartAfter, SetHumanGate,
     ClearHumanGate, PublishEvent, Heartbeat
<1>4. /\ \A s \in register_sub_agent : Sound("register_sub_agent", s)
      /\ \A s \in import_workspace_config : Sound("import_workspace_config", s)
      /\ \A s \in save_operator_runtime : Sound("save_operator_runtime", s)
      /\ \A s \in save_workspace_runtime : Sound("save_workspace_runtime", s)
      /\ \A s \in set_agent_limits : Sound("set_agent_limits", s)
      /\ \A s \in create_recurring_task : Sound("create_recurring_task", s)
  BY <1>1 DEF register_sub_agent, import_workspace_config, save_operator_runtime,
     save_workspace_runtime, set_agent_limits, create_recurring_task, RegisterSubAgent,
     ImportWorkspaceConfig, SaveRuntime, SetAgentLimits, CreateRecurringSchedule
<1>5. /\ \A s \in trigger_recurring_now : Sound("trigger_recurring_now", s)
      /\ \A s \in update_recurring_schedule : Sound("update_recurring_schedule", s)
      /\ \A s \in delete_recurring_schedule : Sound("delete_recurring_schedule", s)
      /\ \A s \in remember : Sound("remember", s)
      /\ \A s \in set_project_knowledge : Sound("set_project_knowledge", s)
      /\ \A s \in forget : Sound("forget", s)
      /\ \A s \in create_doc : Sound("create_doc", s)
  BY <1>1 DEF trigger_recurring_now, update_recurring_schedule, delete_recurring_schedule,
     remember, set_project_knowledge, forget, create_doc, TriggerRecurringNow,
     UpdateRecurringSchedule, DeleteRecurringSchedule, Remember, SetProjectKnowledge,
     ForgetMemory, CreateDocument
<1>6. \A t \in DOMAIN TurnOutcomeTools : \A s \in TurnOutcomeTools[t] : Sound(t, s)
  BY <1>1 DEF TurnOutcomeTools, continue_next, wait_for, ask_agent, answer_decision,
     finish_task, hand_off, add_note, TurnCommand
<1>7. \A s \in session_report : Sound("session_report", s)
  <2>1. Fits("session_report", Reporting(ReportSession))
    BY WriteFits DEF MayRepeat
  <2>. QED
    BY <2>1, OneStepGood, GoodSound DEF session_report
<1>. QED
  BY <1>2, <1>3, <1>4, <1>5, <1>6, <1>7

\* To a tool that may be repeated any fitting step is added safely.
LEMMA AddWrite ==
  ASSUME NEW t, t \in MayRepeat, NEW P, AllGood(t, P), NEW x, Fits(t, x)
  PROVE  AllGood(t, P ++ Only(x)) /\ AllGood(t, P ++ Optional(x))
BY AddSteps DEF Safely

\* move_task: the status is looked up, the comment is best effort, and the last
\* read names what was done before it failed.
LEMMA MoveTaskSound == \A s \in move_task : Sound("move_task", s)
<1>1. "move_task" \in MayRepeat /\ "move_task" \notin ReadOnly
  BY DEF MayRepeat, ReadOnly, Idempotent
<1>2. Fits("move_task", Must(MoveTask)) /\ Fits("move_task", Naming(GetTask))
  BY <1>1, WriteFits DEF MoveTask, GetTask, Sets, Reads
<1>3. Fits("move_task", Softly(AddComment))
  BY <1>1 DEF Fits, Harmless, Softly, Step, BestEffort
<1>4. AllGood("move_task", StatusOfTask)
  BY StatusOfTaskLookup, LookupGood
<1>5. AllGood("move_task", StatusOfTask ++ Only(Must(MoveTask)))
  BY <1>1, <1>2, <1>4, AddWrite
<1>6. AllGood("move_task", StatusOfTask ++ Only(Must(MoveTask)) ++ Optional(Softly(AddComment)))
  BY <1>1, <1>3, <1>5, AddWrite
<1>7. AllGood("move_task", move_task)
  BY <1>1, <1>2, <1>6, AddWrite DEF move_task
<1>. QED
  BY <1>7, GoodSound

\* add_vcs_link: the second request, should it fail, says that the link is there.
LEMMA AddVcsLinkSound == \A s \in add_vcs_link : Sound("add_vcs_link", s)
<1>1. "add_vcs_link" \notin MayRepeat /\ "add_vcs_link" \notin ReadOnly
  BY DEF MayRepeat, ReadOnly, Idempotent
<1>2. AllGood("add_vcs_link", Only(Must(AddVCSLink)))
  BY <1>1, WriteGood
<1>3. Fits("add_vcs_link", Naming(PatchVCSLinkMetadata))
  BY <1>1, WriteFits
<1>4. \A p : Safely("add_vcs_link", p, Naming(PatchVCSLinkMetadata))
  BY DEF Safely, Naming, Step
<1>. QED
  BY <1>2, <1>3, <1>4, AddSteps, GoodSound DEF add_vcs_link

\* update_agent_profile: one or two requests that set what they are given.
LEMMA UpdateAgentProfileSound ==
  \A s \in update_agent_profile : Sound("update_agent_profile", s)
<1>1. /\ "update_agent_profile" \in MayRepeat /\ "update_agent_profile" \notin ReadOnly
      /\ UpdateAgentProfile.effect # "adds" /\ UpdateMe.effect # "adds"
  BY DEF MayRepeat, ReadOnly, Idempotent, UpdateAgentProfile, UpdateMe, Sets
<1>2. AllGood("update_agent_profile", Optional(Must(UpdateAgentProfile)))
  BY <1>1, WriteGood
<1>3. Fits("update_agent_profile", Naming(UpdateMe))
  BY <1>1, WriteFits
<1>4. AllGood("update_agent_profile",
              Optional(Must(UpdateAgentProfile)) ++ Optional(Naming(UpdateMe)))
  BY <1>1, <1>2, <1>3, AddWrite
<1>. QED
  BY <1>4, GoodSound DEF update_agent_profile

\* report_error: its answer is "reported" whatever becomes of its two writes.
LEMMA ReportErrorSound == \A s \in report_error : Sound("report_error", s)
<1> DEFINE a == Softly(GetTask)
           b == After(Softly(PublishEvent), GetTask)
           none == <<>>
           pair == <<a, b>>
           first == <<a>>
           second == <<b>>
           P == {<<>>, <<a, b>>}
<1>1. Fits("report_error", a) /\ Fits("report_error", Softly(UpdateAgent))
  BY DEF Fits, Harmless, Softly, Step, BestEffort, ReadOnly, MayRepeat, Idempotent, IsWrite,
         GetTask, Reads
<1>2. Fits("report_error", b)
  BY DEF Fits, Harmless, Softly, After, Step, BestEffort, ReadOnly, MayRepeat, Idempotent
<1>3. b.fail = "skip" /\ Softly(UpdateAgent).fail = "skip"
  BY DEF Softly, After, Step
<1>4. pair = first \o second
  OBVIOUS
<1>5. AllGood("report_error", Optional(a))
  BY <1>1, OneStepGood
<1> HIDE DEF a, b
<1>6. Good("report_error", first) /\ Good("report_error", none)
  BY <1>5 DEF AllGood, Optional
<1>7. Good("report_error", pair)
  BY <1>2, <1>3, <1>4, <1>6, AddStep DEF Safely
<1>8. AllGood("report_error", P)
  BY <1>6, <1>7 DEF AllGood
<1>9. \A p \in P : Safely("report_error", p, Softly(UpdateAgent))
  BY <1>3 DEF Safely
<1> HIDE DEF P
<1>10. AllGood("report_error", P ++ Optional(Softly(UpdateAgent)))
  BY <1>1, <1>8, <1>9, AddSteps
<1>. QED
  BY <1>10, GoodSound DEF report_error, P, a, b

\* Tuples put together.
LEMMA JoinedTuples ==
  ASSUME NEW x, NEW y, NEW z
  PROVE  <<x>> \o <<y, z>> = <<x, y, z>> /\ <<x>> \o <<y>> = <<x, y>>
<1> DEFINE S == {x, y, z}
           a == <<x>>  b == <<y, z>>  c == <<x, y, z>>  e == <<y>>  f == <<x, y>>
<1>1. a \in Seq(S) /\ b \in Seq(S) /\ c \in Seq(S) /\ e \in Seq(S) /\ f \in Seq(S)
  OBVIOUS
<1>2. /\ Len(a) = 1 /\ Len(b) = 2 /\ Len(c) = 3 /\ Len(e) = 1 /\ Len(f) = 2
      /\ a[1] = x /\ b[1] = y /\ b[2] = z /\ c[1] = x /\ c[2] = y /\ c[3] = z
      /\ e[1] = y /\ f[1] = x /\ f[2] = y
  OBVIOUS
<1> HIDE DEF a, b, c, e, f, S
<1>3. a \o b = c
  <2>1. /\ a \o b \in Seq(S) /\ Len(a \o b) = 3
        /\ \A i \in 1..3 : (a \o b)[i] = IF i <= 1 THEN a[i] ELSE b[i - 1]
    <3>1. /\ a \o b \in Seq(S) /\ Len(a \o b) = Len(a) + Len(b)
          /\ \A i \in 1..Len(a) + Len(b) :
               (a \o b)[i] = IF i <= Len(a) THEN a[i] ELSE b[i - Len(a)]
      BY <1>1, ConcatProperties, Zenon
    <3>2. Len(a) + Len(b) = 3 /\ Len(a) = 1
      BY <1>2
    <3>. QED
      BY <3>1, <3>2
  <2>2. (a \o b)[1] = c[1] /\ (a \o b)[2] = c[2] /\ (a \o b)[3] = c[3]
    BY <1>2, <2>1
  <2>3. \A i \in 1..3 : i = 1 \/ i = 2 \/ i = 3
    OBVIOUS
  <2>. QED
    BY <1>1, <1>2, <2>1, <2>2, <2>3, SeqEqual
<1>4. a \o e = f
  <2>1. /\ a \o e \in Seq(S) /\ Len(a \o e) = 2
        /\ \A i \in 1..2 : (a \o e)[i] = IF i <= 1 THEN a[i] ELSE e[i - 1]
    <3>1. /\ a \o e \in Seq(S) /\ Len(a \o e) = Len(a) + Len(e)
          /\ \A i \in 1..Len(a) + Len(e) :
               (a \o e)[i] = IF i <= Len(a) THEN a[i] ELSE e[i - Len(a)]
      BY <1>1, ConcatProperties, Zenon
    <3>2. Len(a) + Len(e) = 2 /\ Len(a) = 1
      BY <1>2
    <3>. QED
      BY <3>1, <3>2
  <2>2. (a \o e)[1] = f[1] /\ (a \o e)[2] = f[2]
    BY <1>2, <2>1
  <2>3. \A i \in 1..2 : i = 1 \/ i = 2
    OBVIOUS
  <2>. QED
    BY <1>1, <1>2, <2>1, <2>2, <2>3, SeqEqual
<1>. QED
  BY <1>3, <1>4 DEF a, b, c, e, f

\* What only reads keeps the rules, whatever the tool.
LEMMA ReadingSound ==
  ASSUME NEW t, NEW P, Reading(P)
  PROVE  \A s \in P : Sound(t, s)
BY ReadingGood DEF Reading

\* record_owner_decision: the decision is remembered first, and a human who is not
\* found, or a decision that is not linked, is told in the answer. The only write
\* after a lookup that need not have succeeded: it waits for the lookup.
LEMMA RecordOwnerDecisionSound ==
  \A s \in record_owner_decision : Sound("record_owner_decision", s)
<1> DEFINE t == "record_owner_decision"
           r == Must(Remember)
           d == Finding(Reporting(GetTeamDirectory))
           c == After(Reporting(CreateHumanGateDecision), GetTeamDirectory)
           none == <<>>
           one == <<r>>
           tail == <<d, c>>
           dOnly == <<d>>
           cOnly == <<c>>
           all == <<r, d, c>>
<1>1. t \notin MayRepeat /\ t \notin ReadOnly
  BY DEF MayRepeat, ReadOnly, Idempotent
<1>2. AllGood(t, Only(r))
  BY <1>1, WriteGood
<1>3. /\ r.of = Remember /\ d.of = GetTeamDirectory /\ c.of = CreateHumanGateDecision
      /\ Remember.effect # "adds" /\ GetTeamDirectory.effect # "adds"
      /\ ~IsWrite(GetTeamDirectory)
      /\ GetTeamDirectory # Remember
  BY DEF Must, Finding, Reporting, After, Step, IsWrite, Remember, GetTeamDirectory, Reads, Sets
<1>4. /\ r.instead = {} /\ r.after = {} /\ r.fail = "error" /\ ~r.finds
      /\ Reported(d) /\ d.finds
      /\ c.instead = {} /\ c.after = {GetTeamDirectory} /\ c.fail = "report" /\ ~c.finds
  BY DEF Must, Finding, Reporting, After, Step, Reported, Always
<1>5. one \o none = one /\ one \o tail = all /\ dOnly \o cOnly = tail
  <2>1. one \in Seq({r})
    OBVIOUS
  <2>2. one \o none = one
    BY <2>1, ConcatEmptySeq
  <2>3. one \o tail = all /\ dOnly \o cOnly = tail
    BY JoinedTuples
  <2>. QED
    BY <2>2, <2>3
<1>6. Len(all) = 3 /\ all[1] = r /\ all[2] = d /\ all[3] = c
  OBVIOUS
<1>7. /\ \A q \in Only(r) : q = one
      /\ \A q \in Only(d) : q = dOnly
      /\ \A q \in Only(c) : q = cOnly
  BY DEF Only
<1> HIDE DEF r, d, c, none, one, tail, dOnly, cOnly, all, t
<1>8. \A q \in {none} \cup (Only(d) ++ Only(c)) : q = none \/ q = tail
  <2>1. ASSUME NEW q \in Only(d) ++ Only(c)
        PROVE  q = tail
    <3>1. PICK x \in Only(d), y \in Only(c) : q = x \o y
      BY InJoin
    <3>. QED
      BY <1>5, <1>7, <3>1
  <2>. QED
    BY <2>1
<1>9. \A s \in record_owner_decision : s = one \/ s = all
  <2>1. record_owner_decision = Only(r) ++ ({none} \cup (Only(d) ++ Only(c)))
    BY DEF record_owner_decision, DecidingUser, r, d, c, none
  <2>2. ASSUME NEW s \in Only(r) ++ ({none} \cup (Only(d) ++ Only(c)))
        PROVE  s = one \/ s = all
    <3>1. PICK x \in Only(r), y \in {none} \cup (Only(d) ++ Only(c)) : s = x \o y
      BY InJoin
    <3>. QED
      BY <1>5, <1>7, <1>8, <3>1
  <2>. QED
    BY <2>1, <2>2
<1>10. 1..Len(all) = {1, 2, 3} /\ 1..(3 - 1) = {1, 2} /\ 1..(1 - 1) = {} /\ 1..(2 - 1) = {1}
  BY <1>6
<1>11. NoReturn(t, all)
  <2> SUFFICES ASSUME NEW i \in 1..Len(all), NEW j \in 1..Len(all), i < j,
                      all[i].of.effect = "adds"
               PROVE  FALSE
    BY DEF NoReturn
  <2>1. i = 1 \/ i = 2
    BY <1>10
  <2>. QED
    BY <1>3, <1>6, <2>1
<1>12. Told(t, all)
  <2>1. all[1].instead = {} /\ all[1].fail \in Ending /\ all[1].after = {}
    BY <1>4, <1>6 DEF Ending
  <2>2. ~IsWrite(all[2].of)
    BY <1>3, <1>6
  <2>3. /\ all[3].instead = {} /\ all[3].fail \in Ending \cup {"report"}
        /\ \A q \in all[3].after : \E j \in {1, 2} : all[j].of = q /\ Reported(all[j])
    BY <1>3, <1>4, <1>6
  <2>4. /\ all[3].instead = {} /\ all[3].fail \in Ending \cup {"report"}
        /\ \A q \in all[3].after : \E j \in 1..(3 - 1) : all[j].of = q /\ Reported(all[j])
    BY <1>10, <2>3
  <2>. QED
    BY <1>10, <2>1, <2>2, <2>4 DEF Told
<1>13. Aims(all)
  <2>1. FoundBy(all, {1, 2}, GetTeamDirectory)
    BY <1>3, <1>4, <1>6 DEF FoundBy
  <2>2. Settled(all, 3)
    BY <1>4, <1>6, <1>10, <2>1 DEF Settled
  <2>3. ~IsWrite(all[2].of)
    BY <1>3, <1>6
  <2>. QED
    BY <1>10, <2>2, <2>3 DEF Aims
<1>14. Hinted(t, all)
  BY <1>1 DEF Hinted, Harmless
<1>15. Sound(t, all)
  BY <1>6, <1>11, <1>12, <1>13, <1>14 DEF Sound
<1>16. Sound(t, one)
  BY <1>2, GoodSound DEF Only, one
<1>. QED
  BY <1>9, <1>15, <1>16 DEF t

\* The core tools keep the rules, then the others.
LEMMA CoreSound == \A t \in DOMAIN CoreTools : \A s \in CoreTools[t] : Sound(t, s)
<1> USE DEF CoreTools
<1>1. DOMAIN CoreTools =
        {"heartbeat", "get_project_knowledge", "get_my_rules", "get_context", "create_task",
         "update_task", "move_task", "assign_task", "get_task_context", "add_comment",
         "add_vcs_link", "publish_event", "recall", "get_memory", "recall_with_graph", "remember",
         "forget", "set_project_knowledge", "record_owner_decision", "get_canonical_updates",
         "list_projects", "list_tasks", "report_error", "session_report"}
  OBVIOUS
<1>2. ASSUME NEW t \in {"get_project_knowledge", "get_my_rules", "get_context",
                        "get_task_context", "recall", "get_memory", "recall_with_graph",
                        "get_canonical_updates", "list_projects", "list_tasks"}
      PROVE  \A s \in CoreTools[t] : Sound(t, s)
  <2>1. Reading(CoreTools[t])
    BY ReadersRead, GetTaskContextReads, GetMemoryReads, ListTasksRead
  <2>. QED
    BY <2>1, ReadingSound
<1>3. ASSUME NEW t \in {"heartbeat", "update_task", "assign_task", "add_comment",
                        "publish_event", "remember", "forget", "set_project_knowledge",
                        "session_report"}
      PROVE  \A s \in CoreTools[t] : Sound(t, s)
  BY WritersSound
<1>4. ASSUME NEW t \in {"create_task", "move_task", "add_vcs_link", "record_owner_decision",
                        "report_error"}
      PROVE  \A s \in CoreTools[t] : Sound(t, s)
  BY LookingToolsSound, MoveTaskSound, AddVcsLinkSound, RecordOwnerDecisionSound, ReportErrorSound
<1>. QED
  BY <1>1, <1>2, <1>3, <1>4

\* The advanced tools.
LEMMA AdvancedSound ==
  \A t \in DOMAIN AdvancedTools : \A s \in AdvancedTools[t] : Sound(t, s)
<1> USE DEF AdvancedTools
<1>1. ASSUME NEW t \in {"get_project_updates", "search_docs", "get_project", "list_artifacts",
                        "get_artifact", "list_sub_agents", "get_team_directory",
                        "get_project_rules", "get_assignment_rules", "get_workflow_rules",
                        "export_workspace_config", "poll_tasks", "list_recurring_schedules",
                        "get_recurring_history", "get_canonical"}
      PROVE  \A s \in AdvancedTools[t] : Sound(t, s)
  <2>1. Reading(AdvancedTools[t])
    BY ReadersRead, GetProjectReads, GetCanonicalReads
  <2>. QED
    BY <2>1, ReadingSound
<1>2. ASSUME NEW t \in {"clear_start_after", "post_project_update", "create_doc",
                        "add_dependency", "mark_vcs_deployed", "set_human_gate",
                        "clear_human_gate", "upload_artifact", "publish_summary",
                        "register_sub_agent", "import_workspace_config",
                        "create_recurring_task", "trigger_recurring_now",
                        "update_recurring_schedule", "delete_recurring_schedule"}
      PROVE  \A s \in AdvancedTools[t] : Sound(t, s)
  BY WritersSound
<1>3. ASSUME NEW t \in {"comment_doc", "create_subtask", "update_dependency",
                        "remove_dependency", "subscribe_events", "update_agent_profile"}
      PROVE  \A s \in AdvancedTools[t] : Sound(t, s)
  BY LookingToolsSound, UpdateAgentProfileSound
<1>. QED
  BY <1>1, <1>2, <1>3

\* The runtime tools.
LEMMA RuntimeSound ==
  \A t \in DOMAIN RuntimeTools : \A s \in RuntimeTools[t] : Sound(t, s)
<1> USE DEF RuntimeTools
<1>1. ASSUME NEW t \in {"get_operator_runtime", "get_operator_runtime_history",
                        "get_workspace_runtime", "get_workspace_runtime_revisions"}
      PROVE  \A s \in RuntimeTools[t] : Sound(t, s)
  <2>1. Reading(RuntimeTools[t])
    BY ReadersRead
  <2>. QED
    BY <2>1, ReadingSound
<1>2. ASSUME NEW t \in {"save_operator_runtime", "save_workspace_runtime", "set_agent_limits"}
      PROVE  \A s \in RuntimeTools[t] : Sound(t, s)
  BY WritersSound
<1>. QED
  BY <1>1, <1>2

\* Every script of every tool keeps the rules.
LEMMA EverySound == \A t \in DOMAIN Tools : \A s \in Tools[t] : Sound(t, s)
<1> SUFFICES ASSUME NEW t \in DOMAIN Tools
             PROVE  \A s \in Tools[t] : Sound(t, s)
  OBVIOUS
<1>1. t \in (DOMAIN CoreTools) \cup (DOMAIN TurnOutcomeTools)
              \cup (DOMAIN AdvancedTools) \cup (DOMAIN RuntimeTools)
  BY DEF Tools
<1>2. CASE t \in DOMAIN CoreTools
  <2>1. Tools[t] = CoreTools[t]
    BY <1>2 DEF Tools
  <2>. QED
    BY <1>2, <2>1, CoreSound
<1>3. CASE t \notin DOMAIN CoreTools /\ t \in DOMAIN TurnOutcomeTools
  <2>1. Tools[t] = TurnOutcomeTools[t]
    BY <1>3 DEF Tools
  <2>. QED
    BY <1>3, <2>1, WritersSound
<1>4. CASE t \notin DOMAIN CoreTools /\ t \notin DOMAIN TurnOutcomeTools
           /\ t \in DOMAIN AdvancedTools
  <2>1. Tools[t] = AdvancedTools[t]
    BY <1>4 DEF Tools
  <2>. QED
    BY <1>4, <2>1, AdvancedSound
<1>5. CASE t \notin DOMAIN CoreTools /\ t \notin DOMAIN TurnOutcomeTools
           /\ t \notin DOMAIN AdvancedTools /\ t \in DOMAIN RuntimeTools
  <2>1. Tools[t] = RuntimeTools[t]
    BY <1>5 DEF Tools
  <2>. QED
    BY <1>5, <2>1, RuntimeSound
<1>. QED
  BY <1>1, <1>2, <1>3, <1>4, <1>5

-----------------------------------------------------------------------------
(***************************************************************************)
(* The call.  Passed are the steps that were made or passed over.          *)
(***************************************************************************)
Passed == {j \in 1..Len(script) : j < at}

Placed == tool \in DOMAIN Tools /\ script \in Tools[tool] /\ at \in Nat /\ at >= 1

\* Only the writes of the script are carried out, and one whose answer was not
\* lost belongs to a step that was passed.
Sent == \A r \in made \cup before :
  IsWrite(r) /\ \E i \in 1..Len(script) : script[i].of = r
Counted == \A r \in made \ unsure : r.effect = "adds" => \E j \in Passed : script[j].of = r

\* A plain error comes after no row that is known to have been added.
Returned == tool \notin MayRepeat =>
  /\ end = "error" => \A r \in made : r.effect = "adds" => r \in unsure
  /\ \A r \in before : r.effect = "adds" => r \in unsure

\* While the call goes on, and when it has ended well, each write passed was
\* made, or it or what it waited for is named in the answer.
IsTold(x) == x.of \in made \/ ({x.of} \cup x.after) \cap said # {}
InAnswer == end \in {"running", "ok"} => \A j \in Passed :
  /\ Reported(script[j]) => script[j].of \in done \cup said
  /\ IsWrite(script[j].of) /\ <<tool, script[j].of>> \notin BestEffort => IsTold(script[j])
AtEnd == end = "ok" => at > Len(script)

\* What the lookups passed have come to.
Looked == end = "running" =>
  /\ \A j \in Passed : Sure(script[j]) => found # NoId
  /\ \A j \in Passed : Tried(script[j]) => found # NoId \/ script[j].of \in failed
  /\ \A i, j \in Passed :
       i < j /\ Tried(script[i]) /\ Backs(script[j], script[i]) => found # NoId
  /\ \A q \in done : FoundBy(script, Passed, q) => found # NoId

\* What is found, and what is aimed at, bore the name during the call.
Borne ==
  /\ end = "running" => holder \in bore \cup {NoId}
  /\ found \in bore \cup {NoId}
  /\ target \in bore \cup {Unaimed}

CallInv == Placed /\ Sent /\ Counted /\ Returned /\ InAnswer /\ AtEnd /\ Looked /\ Borne

\* The script of the call keeps the rules.
LEMMA ScriptSound ==
  ASSUME Placed
  PROVE  Sound(tool, script) /\ Len(script) \in Nat
BY EverySound DEF Placed, Sound

\* What becomes of a call whose request failed.
LEMMA EndsIs ==
  ASSUME NEW absent \in BOOLEAN
  PROVE  /\ Ends(absent) \in {"running", "error", "named"}
         /\ Ends(absent) = "running" =>
              step.fail \notin Ending /\ (step.fail = "fallback" => absent)
         /\ Ends(absent) = "error" => step.fail \in {"error", "fallback"}
BY DEF Ends, Ending

\* What a failed request changes, and what it leaves alone.
LEMMA FailingDoes ==
  ASSUME NEW absent \in BOOLEAN, Failing(absent)
  PROVE  /\ end' = Ends(absent)
         /\ end' = "running" => at' = at + 1
         /\ end' # "running" => at' = at
         /\ failed' = failed \cup {step.of}
         /\ said \subseteq said' /\ (step.fail = "report" => step.of \in said')
         /\ UNCHANGED <<tool, script, tries, done, found, before, holder, bore>>
BY DEF Failing, callVars, nameVars

\* A write that is carried out is the step's, and is aimed at what was found.
LEMMA CarriedOutDoes ==
  ASSUME CarriedOut
  PROVE  /\ made \subseteq made' /\ made' \subseteq made \cup {step.of}
         /\ IsWrite(step.of) => step.of \in made' /\ target' = IF Aimed THEN found ELSE target
         /\ ~IsWrite(step.of) => made' = made /\ target' = target
BY DEF CarriedOut

\* A request that is due, and the steps before it.
LEMMA AtStep ==
  ASSUME Placed, Running
  PROVE  /\ at \in 1..Len(script) /\ at \notin Passed
         /\ Passed = 1..(at - 1)
         /\ script[at] = step
BY ScriptSound DEF Placed, Running, Passed, step

\* A step that is made, and how it went.
Made == Answer \/ Refusal \/ NotFound \/ LoseAnswer

\* A new try, of another call or of the same.
Anew == (\E t \in DOMAIN Tools : Begin(t)) \/ AgentRepeats \/ HostRepeats

\* A new try starts from nothing done; what was made before is kept in mind, and
\* only hosts repeat a call that did not end in a plain error.
LEMMA AnewDoes ==
  ASSUME Anew, Placed
  PROVE  /\ Placed' /\ at' = 1 /\ end' = "running"
         /\ done' = {} /\ failed' = {} /\ said' = {} /\ made' = {}
         /\ found' = NoId /\ target' = Unaimed
         /\ bore' = {holder} \ {NoId} /\ holder' = holder
         /\ \/ before' = {} /\ unsure' = {}
            \/ /\ before' = before \cup made
               /\ UNCHANGED <<tool, script, unsure>>
               /\ tool \notin MayRepeat => end = "error"
<1>1. CASE \E t \in DOMAIN Tools : Begin(t)
  BY <1>1 DEF Begin, Fresh, Placed
<1>2. CASE AgentRepeats
  BY <1>2 DEF AgentRepeats, Again, Fresh, Placed
<1>3. CASE HostRepeats
  BY <1>3 DEF HostRepeats, Again, Fresh, Placed
<1>. QED
  BY <1>1, <1>2, <1>3 DEF Anew

\* A step that is made has its request answered, and the call goes on, or
\* failed, and the call goes on or ends as the step says.
LEMMA MadeDoes ==
  ASSUME Placed, Made
  PROVE  /\ Running /\ Due /\ at \in 1..Len(script)
         /\ UNCHANGED <<tool, script, before, holder, bore>>
         /\ made \subseteq made' /\ made' \subseteq made \cup {step.of}
         /\ made' # made => IsWrite(step.of)
         /\ target' # target => IsWrite(step.of) /\ Aimed /\ target' = found
         /\ \/ /\ Answer /\ at' = at + 1 /\ end' = "running"
               /\ done' = done \cup {step.of} /\ failed' = failed /\ said' = said
               /\ unsure' = unsure /\ CarriedOut
               /\ (step.finds => holder # NoId)
               /\ found' = IF step.finds THEN holder ELSE found
            \/ /\ done' = done /\ found' = found /\ failed' = failed \cup {step.of}
               /\ unsure \subseteq unsure' /\ (made' \ made) \subseteq unsure'
               /\ said \subseteq said' /\ (step.fail = "report" => step.of \in said')
               /\ \/ /\ end' = "running" /\ at' = at + 1 /\ step.fail \notin Ending
                  \/ /\ end' \in {"error", "named"} /\ at' = at
                     /\ end' = "error" => step.fail \in {"error", "fallback"}
<1>0. Running /\ Due
  BY DEF Made, Answer, Refusal, NotFound, LoseAnswer
<1>1. at \in 1..Len(script)
  BY <1>0, AtStep
<1>2. CASE Answer
  BY <1>0, <1>1, <1>2, CarriedOutDoes DEF Answer, callVars, nameVars, Running, Pick
<1>3. CASE Refusal
  <2>1. PICK absent \in BOOLEAN : Failing(absent)
    BY <1>3 DEF Refusal
  <2>. QED
    BY <1>0, <1>1, <1>3, <2>1, FailingDoes, EndsIs DEF Refusal
<1>4. CASE NotFound
  <2>1. Failing(FALSE)
    BY <1>4 DEF NotFound
  <2>. QED
    BY <1>0, <1>1, <1>4, <2>1, FailingDoes, EndsIs DEF NotFound
<1>5. CASE LoseAnswer
  <2>1. Failing(FALSE) /\ CarriedOut /\ unsure' = unsure \cup {step.of}
    BY <1>5 DEF LoseAnswer
  <2>. QED
    BY <1>0, <1>1, <1>5, <2>1, FailingDoes, EndsIs, CarriedOutDoes DEF LoseAnswer
<1>. QED
  BY <1>2, <1>3, <1>4, <1>5 DEF Made

\* A step of the system is a new try, a request, or none of these.
LEMMA NextCases ==
  ASSUME Next
  PROVE  Anew \/ Made \/ BadArguments \/ Pass \/ Finish \/ Rename
BY DEF Next, Anew, Made

\* The steps of the handler itself, and of those who rename.
LEMMA QuietDoes ==
  ASSUME Placed, BadArguments \/ Pass \/ Finish \/ Rename
  PROVE  /\ UNCHANGED <<callVars, doneVars, before>>
         /\ \/ BadArguments /\ end' = "error" /\ at' = at /\ at = 1
            \/ Pass /\ Running /\ end' = end /\ at' = at + 1 /\ at \in 1..Len(script) /\ ~Due
            \/ Finish /\ end = "running" /\ end' = "ok" /\ at' = at /\ at > Len(script)
            \/ Rename /\ end' = end /\ at' = at
         /\ ~Rename => UNCHANGED nameVars
         /\ Rename => bore \subseteq bore' /\ holder' \in bore' \cup {NoId}
<1>1. CASE BadArguments
  BY <1>1 DEF BadArguments, Pass, Finish, Rename, callVars, doneVars, nameVars
<1>2. CASE Pass
  BY <1>2, AtStep DEF BadArguments, Pass, Finish, Rename, callVars, doneVars, nameVars, Running
<1>3. CASE Finish
  BY <1>3 DEF BadArguments, Pass, Finish, Rename, callVars, doneVars, nameVars
<1>4. CASE Rename
  BY <1>4 DEF BadArguments, Pass, Finish, Rename, callVars, doneVars, nameVars
<1>. QED
  BY <1>1, <1>2, <1>3, <1>4

\* The three kinds of steps there are, for every part of the invariant.
LEMMA PlacedKept ==
  ASSUME Placed, [Next]_vars
  PROVE  Placed'
<1>1. CASE Anew
  BY <1>1, AnewDoes
<1>2. CASE Made
  BY <1>2, MadeDoes DEF Placed
<1>3. CASE BadArguments \/ Pass \/ Finish \/ Rename
  BY <1>3, QuietDoes DEF Placed, callVars
<1>4. CASE UNCHANGED vars
  BY <1>4 DEF Placed, vars, callVars
<1>. QED
  BY <1>1, <1>2, <1>3, <1>4, NextCases

\* Every step keeps Sent: what is carried out is the step that was due.
LEMMA SentKept ==
  ASSUME Placed, Sent, [Next]_vars
  PROVE  Sent'
<1>1. CASE Anew
  BY <1>1, AnewDoes DEF Sent
<1>2. CASE Made
  <2>1. script' = script /\ before' = before /\ made' \subseteq made \cup {step.of}
        /\ (made' # made => IsWrite(step.of)) /\ at \in 1..Len(script)
    BY <1>2, MadeDoes
  <2>2. step = script[at]
    BY DEF step
  <2>. QED
    BY <2>1, <2>2 DEF Sent
<1>3. CASE BadArguments \/ Pass \/ Finish \/ Rename
  BY <1>3, QuietDoes DEF Sent, callVars, doneVars
<1>4. CASE UNCHANGED vars
  BY <1>4 DEF Sent, vars, callVars, doneVars
<1>. QED
  BY <1>1, <1>2, <1>3, <1>4, NextCases

\* Every step keeps Counted: a request that was carried out and answered is passed,
\* and one whose answer was lost is among the unsure.
LEMMA CountedKept ==
  ASSUME Placed, Counted, [Next]_vars
  PROVE  Counted'
<1>0. at \in Nat
  BY DEF Placed
<1>1. CASE Anew
  BY <1>1, AnewDoes DEF Counted
<1>2. CASE Made
  <2>1. PICK i \in 1..Len(script) : i = at
    BY <1>2, MadeDoes
  <2>2. /\ script' = script /\ made' \subseteq made \cup {step.of}
        /\ unsure \subseteq unsure'
        /\ at' = at + 1 \/ at' = at
        /\ step.of \notin made => step.of \notin made' \/ at' = at + 1 \/ step.of \in unsure'
    BY <1>2, MadeDoes
  <2>3. step = script[i]
    BY <2>1 DEF step
  <2>4. Passed \subseteq Passed' /\ (at' = at + 1 => i \in Passed')
    BY <1>0, <2>1, <2>2 DEF Passed
  <2>. QED
    BY <2>2, <2>3, <2>4 DEF Counted
<1>3. CASE BadArguments \/ Pass \/ Finish \/ Rename
  <2>1. script' = script /\ made' = made /\ unsure' = unsure /\ (at' = at \/ at' = at + 1)
    BY <1>3, QuietDoes DEF callVars, doneVars
  <2>2. Passed \subseteq Passed'
    BY <1>0, <2>1 DEF Passed
  <2>. QED
    BY <2>1, <2>2 DEF Counted
<1>4. CASE UNCHANGED vars
  BY <1>4 DEF Counted, Passed, vars, callVars, doneVars
<1>. QED
  BY <1>1, <1>2, <1>3, <1>4, NextCases

\* Every step keeps Returned. A plain error of a step comes, by NoReturn, after no
\* step that added a row, and a row of an earlier step would have to be counted.
LEMMA ReturnedKept ==
  ASSUME Placed, Counted, Returned, [Next]_vars
  PROVE  Returned'
<1>1. CASE Anew
  BY <1>1, AnewDoes DEF Returned
<1>2. CASE Made
  <2>1. PICK i \in 1..Len(script) : i = at
    BY <1>2, MadeDoes
  <2>2. /\ script' = script /\ tool' = tool /\ made' \subseteq made \cup {step.of}
        /\ unsure \subseteq unsure' /\ before' = before
        /\ end' = "error" => /\ step.fail \in {"error", "fallback"}
                             /\ (made' \ made) \subseteq unsure'
    BY <1>2, MadeDoes
  <2>3. step = script[i]
    BY <2>1 DEF step
  <2>4. ASSUME tool \notin MayRepeat, end' = "error",
               NEW r \in made', r.effect = "adds", r \notin unsure'
        PROVE  FALSE
    <3>1. r \in made \ unsure
      BY <2>2, <2>4
    <3>2. PICK j \in Passed : script[j].of = r
      BY <2>4, <3>1 DEF Counted
    <3>3. j \in 1..Len(script) /\ j < i
      BY <2>1, <3>2 DEF Passed
    <3>4. NoReturn(tool, script)
      BY ScriptSound DEF Sound
    <3>. QED
      BY <2>2, <2>3, <2>4, <3>2, <3>3, <3>4 DEF NoReturn
  <2>. QED
    BY <2>2, <2>4 DEF Returned
<1>3. CASE BadArguments
  <2>1. at = 1 /\ UNCHANGED <<tool, made, unsure, before>>
    BY <1>3 DEF BadArguments, callVars, doneVars
  <2>2. Passed = {}
    BY <2>1 DEF Passed
  <2>. QED
    BY <2>1, <2>2 DEF Returned, Counted
<1>4. CASE Pass \/ Finish \/ Rename
  <2>1. UNCHANGED <<tool, made, unsure, before>> /\ (end' = end \/ end' = "ok")
    BY <1>4 DEF Pass, Finish, Rename, callVars, doneVars
  <2>. QED
    BY <2>1 DEF Returned
<1>5. CASE UNCHANGED vars
  BY <1>5 DEF Returned, vars, callVars, doneVars
<1>. QED
  BY <1>1, <1>2, <1>3, <1>4, <1>5, NextCases

\* The steps passed when the call goes on from one step to the next.
LEMMA PassedGrows ==
  ASSUME Placed, at \in 1..Len(script), script' = script, at' = at + 1
  PROVE  /\ Passed' = Passed \cup {at}
         /\ \A i, j \in Passed' : i < j => i \in Passed
<1>1. at \in Nat /\ Len(script) \in Nat
  BY ScriptSound DEF Placed
<1>2. Passed' = Passed \cup {at} /\ Passed \subseteq Int /\ \A j \in Passed : j < at
  BY <1>1 DEF Passed
<1>3. ASSUME NEW i \in Passed', NEW j \in Passed', i < j
      PROVE  i # at
  <2>1. i \in Int /\ j \in Int /\ at \in Int /\ ~(at < j)
    BY <1>1, <1>2, <1>3
  <2>. QED
    BY <1>3, <2>1
<1>. QED
  BY <1>2, <1>3

\* Every step keeps InAnswer. A write is passed over only because what it waits
\* for has failed, and that is told by Told.
LEMMA InAnswerKept ==
  ASSUME Placed, InAnswer, [Next]_vars
  PROVE  InAnswer'
<1>0. at \in Nat /\ Len(script) \in Nat /\ Told(tool, script)
  BY ScriptSound DEF Placed, Sound
<1>1. CASE Anew
  <2>1. Passed' = {}
    BY <1>1, AnewDoes DEF Passed
  <2>. QED
    BY <2>1 DEF InAnswer
<1>2. CASE Made
  <2>1. Running /\ Due /\ at \in 1..Len(script) /\ script' = script /\ tool' = tool
    BY <1>2, MadeDoes
  <2>2. CASE end' # "running"
    <3>1. end' \in {"error", "named"}
      BY <1>2, <2>2, MadeDoes
    <3>. QED
      BY <3>1 DEF InAnswer
  <2>3. CASE end' = "running"
    <3>1. /\ at' = at + 1
          /\ made \subseteq made' /\ done \subseteq done' /\ said \subseteq said'
          /\ \/ step.of \in done' /\ (IsWrite(step.of) => step.of \in made')
             \/ step.fail \notin Ending /\ (step.fail = "report" => step.of \in said')
      BY <1>2, <2>3, MadeDoes, CarriedOutDoes
    <3>2. Passed' = Passed \cup {at}
      BY <2>1, <3>1, PassedGrows
    <3>3. \A j \in Passed : /\ Reported(script[j]) => script[j].of \in done \cup said
                            /\ IsWrite(script[j].of) /\ <<tool, script[j].of>> \notin BestEffort
                                 => IsTold(script[j])
      BY <2>1 DEF InAnswer, Running
    <3>4. step = script[at]
      BY DEF step
    <3>5. Reported(step) => step.of \in done' \cup said'
      BY <3>1 DEF Reported
    <3>6. ASSUME IsWrite(step.of), <<tool, step.of>> \notin BestEffort
          PROVE  step.of \in made' \/ ({step.of} \cup step.after) \cap said' # {}
      <4>1. step.fail \in Ending \cup {"report"}
        BY <1>0, <2>1, <3>4, <3>6 DEF Told
      <4>2. step.of \in made' \/ step.of \in said'
        BY <3>1, <3>6, <4>1
      <4>. QED
        BY <4>2
    <3>7. ASSUME NEW j \in Passed'
          PROVE  /\ Reported(script[j]) => script[j].of \in done' \cup said'
                 /\ IsWrite(script[j].of) /\ <<tool, script[j].of>> \notin BestEffort
                      => \/ script[j].of \in made'
                         \/ ({script[j].of} \cup script[j].after) \cap said' # {}
      <4>1. CASE j \in Passed
        BY <3>1, <3>3, <4>1 DEF IsTold
      <4>2. CASE j = at
        BY <3>4, <3>5, <3>6, <4>2
      <4>. QED
        BY <3>2, <3>7, <4>1, <4>2
    <3>. QED
      BY <2>1, <3>7 DEF InAnswer, IsTold, Reported, Always
  <2>. QED
    BY <2>2, <2>3
<1>3. CASE BadArguments
  BY <1>3 DEF BadArguments, InAnswer
<1>4. CASE Pass
  <2>1. /\ Running /\ ~Due /\ at \in 1..Len(script) /\ at' = at + 1
        /\ UNCHANGED <<tool, script, made, done, said>>
    BY <1>4, QuietDoes DEF Pass, callVars, doneVars
  <2>2. Passed' = Passed \cup {at}
    BY <2>1, PassedGrows
  <2>3. \A j \in Passed : /\ Reported(script[j]) => script[j].of \in done \cup said
                          /\ IsWrite(script[j].of) /\ <<tool, script[j].of>> \notin BestEffort
                               => IsTold(script[j])
    BY <2>1 DEF InAnswer, Running
  <2>4. step = script[at]
    BY DEF step
  <2>5. ~Reported(step)
    BY <2>1 DEF Reported, Always, Due
  <2>6. ASSUME IsWrite(step.of), <<tool, step.of>> \notin BestEffort
        PROVE  IsTold(step)
    <3>1. /\ step.instead = {}
          /\ \A q \in step.after : \E j \in 1..(at - 1) : script[j].of = q /\ Reported(script[j])
      BY <1>0, <2>1, <2>4, <2>6 DEF Told
    <3>2. PICK q \in step.after : q \notin done
      BY <2>1, <3>1 DEF Due
    <3>3. PICK j \in 1..(at - 1) : script[j].of = q /\ Reported(script[j])
      BY <3>1
    <3>4. j \in Passed
      BY <1>0, <2>1 DEF Passed
    <3>. QED
      BY <2>3, <3>2, <3>3, <3>4 DEF IsTold
  <2>. QED
    BY <2>1, <2>2, <2>3, <2>4, <2>5, <2>6 DEF InAnswer, IsTold
<1>5. CASE Finish \/ Rename
  <2>1. /\ UNCHANGED <<tool, script, made, done, said, at>>
        /\ end' = end \/ (end = "running" /\ end' = "ok")
    BY <1>5 DEF Finish, Rename, callVars, doneVars
  <2>2. Passed' = Passed
    BY <2>1 DEF Passed
  <2>. QED
    BY <2>1, <2>2 DEF InAnswer, IsTold
<1>6. CASE UNCHANGED vars
  BY <1>6 DEF InAnswer, IsTold, Passed, vars, callVars, doneVars
<1>. QED
  BY <1>1, <1>2, <1>3, <1>4, <1>5, <1>6, NextCases

\* Every step keeps AtEnd.
LEMMA AtEndKept ==
  ASSUME Placed, AtEnd, [Next]_vars
  PROVE  AtEnd'
<1>1. CASE Anew
  BY <1>1, AnewDoes DEF AtEnd
<1>2. CASE Made
  BY <1>2, MadeDoes DEF AtEnd
<1>3. CASE BadArguments \/ Pass \/ Finish \/ Rename
  BY <1>3, QuietDoes DEF AtEnd, callVars, Running
<1>4. CASE UNCHANGED vars
  BY <1>4 DEF AtEnd, vars, callVars
<1>. QED
  BY <1>1, <1>2, <1>3, <1>4, NextCases

\* Every step keeps Looked. A lookup is passed when it found something, when its
\* failure lets the call go on, or when the lookup it backs did not fail.
LEMMA LookedKept ==
  ASSUME Placed, Looked, [Next]_vars
  PROVE  Looked'
<1>0. at \in Nat /\ Len(script) \in Nat
  BY ScriptSound DEF Placed
<1>1. CASE Anew
  <2>1. Passed' = {} /\ done' = {}
    BY <1>1, AnewDoes DEF Passed
  <2>. QED
    BY <2>1 DEF Looked
<1>2. CASE Made
  <2>1. Running /\ Due /\ at \in 1..Len(script) /\ script' = script
    BY <1>2, MadeDoes
  <2>2. CASE end' # "running"
    BY <2>2 DEF Looked
  <2>3. CASE end' = "running"
    <3>1. at' = at + 1
      BY <1>2, <2>3, MadeDoes
    <3>2. Passed' = Passed \cup {at} /\ \A i, j \in Passed' : i < j => i \in Passed
      BY <2>1, <3>1, PassedGrows
    <3>3. step = script[at]
      BY DEF step
    <3>4. /\ failed \subseteq failed' /\ (found # NoId => found' # NoId)
          /\ \/ /\ done' = done \cup {step.of}
                /\ step.finds => found' # NoId
             \/ /\ done' = done
                /\ step.of \in failed' /\ step.fail \notin Ending
      BY <1>2, <2>3, MadeDoes
    <3>5. /\ \A j \in Passed : Sure(script[j]) => found # NoId
          /\ \A j \in Passed : Tried(script[j]) => found # NoId \/ script[j].of \in failed
          /\ \A i, j \in Passed :
               i < j /\ Tried(script[i]) /\ Backs(script[j], script[i]) => found # NoId
          /\ \A q \in done : FoundBy(script, Passed, q) => found # NoId
      BY <2>1 DEF Looked, Running
    <3>6. \A j \in Passed' : Sure(script[j]) => found' # NoId
      BY <3>2, <3>3, <3>4, <3>5 DEF Sure
    <3>7. \A j \in Passed' : Tried(script[j]) => found' # NoId \/ script[j].of \in failed'
      BY <3>2, <3>3, <3>4, <3>5 DEF Tried
    <3>8. ASSUME NEW i \in Passed', NEW j \in Passed', i < j,
                 Tried(script[i]), Backs(script[j], script[i])
          PROVE  found' # NoId
      <4>1. i \in Passed
        BY <3>2, <3>8
      <4>2. CASE j \in Passed
        BY <3>4, <3>5, <3>8, <4>1, <4>2
      <4>3. CASE j = at
        BY <3>3, <3>4, <3>8, <4>3 DEF Backs
      <4>. QED
        BY <3>2, <4>2, <4>3
    <3>9. ASSUME NEW q \in done', FoundBy(script, Passed', q)
          PROVE  found' # NoId
      <4>1. CASE q \in done
        BY <3>2, <3>4, <3>5, <3>9, <4>1 DEF FoundBy
      <4>2. CASE q \notin done
        <5>1. q = step.of /\ (step.finds => found' # NoId)
          BY <3>4, <4>2
        <5>2. step.finds
          BY <3>2, <3>3, <3>9, <5>1 DEF FoundBy
        <5>. QED
          BY <5>1, <5>2
      <4>. QED
        BY <4>1, <4>2
    <3>. QED
      BY <2>1, <3>6, <3>7, <3>8, <3>9 DEF Looked
  <2>. QED
    BY <2>2, <2>3
<1>3. CASE BadArguments \/ Finish
  BY <1>3 DEF BadArguments, Finish, Looked
<1>4. CASE Pass
  <2>1. /\ Running /\ ~Due /\ at \in 1..Len(script) /\ at' = at + 1 /\ end' = end
        /\ UNCHANGED <<script, done, failed, found>>
    BY <1>4, QuietDoes DEF Pass, callVars, doneVars
  <2>2. Passed' = Passed \cup {at} /\ \A i, j \in Passed' : i < j => i \in Passed
    BY <2>1, PassedGrows
  <2>3. step = script[at]
    BY DEF step
  <2>4. ~Always(step)
    BY <2>1 DEF Always, Due
  <2>5. /\ \A j \in Passed : Sure(script[j]) => found # NoId
        /\ \A j \in Passed : Tried(script[j]) => found # NoId \/ script[j].of \in failed
        /\ \A i, j \in Passed :
             i < j /\ Tried(script[i]) /\ Backs(script[j], script[i]) => found # NoId
        /\ \A q \in done : FoundBy(script, Passed, q) => found # NoId
    BY <2>1 DEF Looked, Running
  <2>6. ASSUME NEW i \in Passed', NEW j \in Passed', i < j,
               Tried(script[i]), Backs(script[j], script[i])
        PROVE  found # NoId
    <3>1. i \in Passed
      BY <2>2, <2>6
    <3>2. CASE j \in Passed
      BY <2>5, <2>6, <3>1, <3>2
    <3>3. CASE j = at
      <4>1. script[i].of \notin failed
        BY <2>1, <2>3, <2>6, <3>3 DEF Backs, Due
      <4>. QED
        BY <2>5, <2>6, <3>1, <4>1
    <3>. QED
      BY <2>2, <3>2, <3>3
  <2>7. \A q \in done : FoundBy(script, Passed', q) => found # NoId
    BY <2>2, <2>5 DEF FoundBy
  <2>8. /\ \A j \in Passed' : Sure(script[j]) => found # NoId
        /\ \A j \in Passed' : Tried(script[j]) => found # NoId \/ script[j].of \in failed
    BY <2>2, <2>3, <2>4, <2>5 DEF Sure, Tried
  <2>. QED
    BY <2>1, <2>6, <2>7, <2>8 DEF Looked
<1>5. CASE Rename
  <2>1. UNCHANGED <<script, done, failed, found, at, end>>
    BY <1>5 DEF Rename, callVars, doneVars
  <2>. QED
    BY <2>1 DEF Looked, Passed
<1>6. CASE UNCHANGED vars
  BY <1>6 DEF Looked, Passed, vars, callVars, doneVars
<1>. QED
  BY <1>1, <1>2, <1>3, <1>4, <1>5, <1>6, NextCases

\* When a write that follows a lookup is due, something was found.
LEMMA AimedFound ==
  ASSUME Placed, Looked, Running, Due, Aimed, IsWrite(step.of)
  PROVE  found # NoId
<1>1. at \in 1..Len(script) /\ Passed = 1..(at - 1) /\ step = script[at]
  BY AtStep
<1>2. Settled(script, at)
  BY <1>1, ScriptSound DEF Sound, Aims, Aimed
<1>3. CASE \E i \in 1..(at - 1) : Sure(script[i])
  BY <1>1, <1>3 DEF Looked, Running
<1>4. CASE \E q \in script[at].after : FoundBy(script, 1..(at - 1), q)
  BY <1>1, <1>4 DEF Looked, Running, Due
<1>5. CASE \E i, j \in 1..(at - 1) :
             i < j /\ Tried(script[i]) /\ Backs(script[j], script[i])
  BY <1>1, <1>5 DEF Looked, Running
<1>. QED
  BY <1>2, <1>3, <1>4, <1>5 DEF Settled

\* Every step keeps Borne: a write is aimed at what was found, and something was.
LEMMA BorneKept ==
  ASSUME Placed, Looked, Borne, [Next]_vars
  PROVE  Borne'
<1>1. CASE Anew
  BY <1>1, AnewDoes DEF Borne
<1>2. CASE Made
  <2>1. /\ Running /\ Due /\ UNCHANGED <<holder, bore>>
        /\ target' # target => IsWrite(step.of) /\ Aimed /\ target' = found
        /\ found' = found \/ (found' = holder /\ holder # NoId)
    BY <1>2, MadeDoes
  <2>2. target' # target => found # NoId
    BY <2>1, AimedFound
  <2>. QED
    BY <2>1, <2>2 DEF Borne, Running
<1>3. CASE BadArguments \/ Pass \/ Finish \/ Rename
  BY <1>3, QuietDoes DEF Borne, doneVars, nameVars, Running
<1>4. CASE UNCHANGED vars
  BY <1>4 DEF Borne, vars, doneVars, nameVars
<1>. QED
  BY <1>1, <1>2, <1>3, <1>4, NextCases

\* No call is under way at first.
LEMMA InitCallInv == Init => CallInv
<1> SUFFICES ASSUME Init
             PROVE  CallInv
  OBVIOUS
<1>1. Placed
  BY DEF Init, Placed, Tools, CoreTools
<1>2. Passed = {}
  BY DEF Init, Passed
<1>. QED
  BY <1>1, <1>2 DEF Init, CallInv, Sent, Counted, Returned, InAnswer, AtEnd, Looked, Borne

\* Every step keeps the invariant.
LEMMA NextCallInv == CallInv /\ [Next]_vars => CallInv'
BY PlacedKept, SentKept, CountedKept, ReturnedKept, InAnswerKept, AtEndKept, LookedKept,
   BorneKept DEF CallInv

\* The strengthened invariant holds in every state.
LEMMA AlwaysCallInv == Spec => []CallInv
BY InitCallInv, NextCallInv, PTL DEF Spec

\* A call repeated after a plain error doubles only a row whose answer was lost.
THEOREM RepeatsOnlyLostHolds == Spec => []RepeatsOnlyLost
<1>1. CallInv => RepeatsOnlyLost
  BY DEF CallInv, Returned, RepeatsOnlyLost, Doubled
<1>. QED
  BY <1>1, AlwaysCallInv, PTL

\* What is annotated read-only writes nothing, and what is annotated idempotent
\* leaves nothing twice but the comment of move_task.
THEOREM HintsHoldHolds == Spec => []HintsHold
<1>1. ASSUME CallInv
      PROVE  HintsHold
  <2>1. Hinted(tool, script)
    BY <1>1, ScriptSound DEF CallInv, Sound
  <2>2. \A r \in made \cup before :
          IsWrite(r) /\ \E i \in 1..Len(script) : script[i].of = r
    BY <1>1 DEF CallInv, Sent
  <2>3. tool \in ReadOnly => made = {}
    BY <2>1, <2>2 DEF Hinted, Harmless
  <2>4. tool \in MayRepeat => \A r \in Doubled : tool = "move_task" /\ r = AddComment
    BY <2>1, <2>2 DEF Hinted, Harmless, Doubled
  <2>. QED
    BY <2>3, <2>4 DEF HintsHold
<1>. QED
  BY <1>1, AlwaysCallInv, PTL

\* A call that ends well has made its writes, or names the one it did not make.
THEOREM NothingSilentlyLostHolds == Spec => []NothingSilentlyLost
<1>1. ASSUME CallInv, end = "ok"
      PROVE  NothingSilentlyLost
  <2>1. at \in Nat /\ Len(script) \in Nat /\ at > Len(script)
    BY <1>1, ScriptSound DEF CallInv, Placed, AtEnd
  <2>2. \A i \in 1..Len(script) : i \in Passed
    BY <2>1 DEF Passed
  <2>. QED
    BY <1>1, <2>2 DEF CallInv, InAnswer, IsTold, NothingSilentlyLost
<1>2. CallInv => NothingSilentlyLost
  BY <1>1 DEF NothingSilentlyLost
<1>. QED
  BY <1>2, AlwaysCallInv, PTL

\* A write after a lookup is aimed at something that bore the name meanwhile.
THEOREM TargetAsNamedHolds == Spec => []TargetAsNamed
<1>1. CallInv => TargetAsNamed
  BY DEF CallInv, Borne, TargetAsNamed
<1>. QED
  BY <1>1, AlwaysCallInv, PTL
=============================================================================
