---------------------------- MODULE GetTaskSince ----------------------------
(***************************************************************************)
(* get_task with `since` (tools.go handleGetTask): one tool call makes up  *)
(* to five requests, the task first and then the parts that were asked     *)
(* for, and leaves out what the caller already has: the body of a task     *)
(* that was not updated after `since`, and the comments that are not newer *)
(* than it.  A throttled part is named as missing, any other failure fails *)
(* the call.  The caller is an agent that keeps what it was sent and       *)
(* re-anchors its next `since` as the tool's description tells it to.      *)
(*                                                                         *)
(* An instant is the number of writes (to the task or its thread) so far:  *)
(* timestamps of different writes differ.  A body is the instant of the    *)
(* edit that made it, a comment the instant of its creation.  `since` left *)
(* out is Never, before all instants: nothing is left out then.            *)
(*                                                                         *)
(* The names shared with CommentWalk, the other reader of a thread, differ *)
(* (SinceInit, posted, ...), so that one module can prove about both.      *)
(***************************************************************************)
EXTENDS Integers, FiniteSets

CONSTANTS
  Horizon,   \* bound on the writes
  MaxLimit,  \* the largest comments_limit that is not refused (200)
  Limits,    \* the values of comments_limit that are asked for
  Wanted,    \* the sets of parts that are asked for together
  NoCall     \* no call is under way

Parts == {"comments", "artifacts", "dependencies", "vcs_links"}
Steps == {"task"} \cup Parts

Instants == 0..Horizon
Never == -1

ASSUME ReadAssumption ==
  /\ Horizon \in Nat /\ MaxLimit \in Nat /\ Limits \subseteq Nat
  /\ Wanted \subseteq SUBSET Parts

VARIABLES
  now,       \* the writes so far
  updated,   \* updated_at of the task
  posted,    \* the comments that exist
  call,      \* the call under way
  agent      \* the body and comments the agent has, and its next `since`
sinceVars == <<now, updated, posted, call, agent>>

\* updated is Never until the task is read; more is comments_has_more.
Call == [since : Instants \cup {Never}, asked : Instants, limit : Limits,
         wanted : Wanted, todo : SUBSET Steps, got : SUBSET Steps,
         incomplete : SUBSET Steps, updated : Instants \cup {Never},
         changed : BOOLEAN, shown : SUBSET Instants, more : BOOLEAN]
ASSUME NoCallAssumption == NoCall \notin Call

Agent == [body : Instants \cup {Never}, known : SUBSET Instants,
          since : Instants \cup {Never}]

Busy == call # NoCall

SinceInit ==
  /\ now = 0 /\ updated = 0 /\ posted = {}
  /\ call = NoCall
  /\ agent = [body |-> Never, known |-> {}, since |-> Never]

-----------------------------------------------------------------------------
(* The task and its thread *)

Edit ==
  /\ now < Horizon
  /\ now' = now + 1 /\ updated' = now'
  /\ UNCHANGED <<posted, call, agent>>

\* A comment may count as an update of its task, or not.
PostComment ==
  /\ now < Horizon
  /\ now' = now + 1 /\ posted' = posted \cup {now'}
  /\ updated' \in {updated, now'}
  /\ UNCHANGED <<call, agent>>

DeleteComment(c) ==
  /\ c \in posted /\ posted' = posted \ {c}
  /\ UNCHANGED <<now, updated, call, agent>>

\* The first page of the newest-first listing, n rows long if the thread is.
Newest(page, n) ==
  /\ \A c \in page : \A d \in posted : d > c => d \in page
  /\ Cardinality(page) <= n
  /\ page # posted => Cardinality(page) = n

-----------------------------------------------------------------------------
(* The call *)

\* Mutant of Order: the parts are requested before the task.
OrderTaskLast ==
  [task |-> 5, comments |-> 1, artifacts |-> 2, dependencies |-> 3, vcs_links |-> 4]

\* The order of the handler's requests.
Order ==
  [task |-> 0, comments |-> 1, artifacts |-> 2, dependencies |-> 3, vcs_links |-> 4]

\* Mutant of Allowed: the largest limit is refused.
AllowedStrict(limit) == limit \in 1..(MaxLimit - 1)

Allowed(limit) == limit \in 1..MaxLimit

\* The step s is next, and its request is made.
Turn(s) ==
  /\ Busy /\ s \in call.todo
  /\ \A r \in call.todo : Order[s] <= Order[r]
  /\ s = "comments" => Allowed(call.limit)

\* Mutant of TaskChanged: both timestamps are cut to a coarser unit first.
TaskChangedCoarse(u, since) == (u \div 2) > (since \div 2)

TaskChanged(u, since) == u > since

CommentsSince(page, since) == {c \in page : c > since}

GetTask(since, limit, wanted) ==
  /\ ~Busy
  /\ call' = [since |-> since, asked |-> now, limit |-> limit, wanted |-> wanted,
              todo |-> {"task"} \cup wanted, got |-> {}, incomplete |-> {},
              updated |-> Never, changed |-> TRUE, shown |-> {}, more |-> TRUE]
  /\ UNCHANGED <<now, updated, posted, agent>>

ReadTask ==
  /\ Turn("task")
  /\ call' = [call EXCEPT !.todo = @ \ {"task"}, !.got = @ \cup {"task"},
                          !.updated = updated,
                          !.changed = TaskChanged(updated, call.since)]
  /\ UNCHANGED <<now, updated, posted, agent>>

ReadComments(page) ==
  /\ Turn("comments") /\ Newest(page, call.limit)
  /\ call' = [call EXCEPT !.todo = @ \ {"comments"}, !.got = @ \cup {"comments"},
                          !.shown = CommentsSince(page, call.since),
                          !.more = page # posted]
  /\ UNCHANGED <<now, updated, posted, agent>>

ReadPart(p) ==
  /\ p # "comments" /\ Turn(p)
  /\ call' = [call EXCEPT !.todo = @ \ {p}, !.got = @ \cup {p}]
  /\ UNCHANGED <<now, updated, posted, agent>>

\* markPartialFailure: a 429 for a part does not fail the call.
Throttled(p) ==
  /\ Turn(p)
  /\ call' = [call EXCEPT !.todo = @ \ {p}, !.incomplete = @ \cup {p}]
  /\ UNCHANGED <<now, updated, posted, agent>>

\* Any other failure, and a refused comments_limit.
Fail ==
  /\ Busy /\ call.todo # {}
  /\ call' = NoCall
  /\ UNCHANGED <<now, updated, posted, agent>>

-----------------------------------------------------------------------------
(* The agent *)

\* The answer has everything newer than `since`: the whole thread was in the
\* page, or its oldest row was filtered out.
Covers ==
  /\ "comments" \in call.got
  /\ call.more => Cardinality(call.shown) < call.limit

\* The answer's task.updated_at, or the time of the call.
Anchors == {call.updated, call.asked}

Reply(anchor) ==
  /\ Busy /\ call.todo = {} /\ anchor \in Anchors
  /\ agent' = [body  |-> IF call.changed THEN call.updated ELSE agent.body,
               known |-> agent.known \cup call.shown,
               since |-> IF Covers THEN anchor ELSE agent.since]
  /\ call' = NoCall
  /\ UNCHANGED <<now, updated, posted>>

Write == Edit \/ PostComment \/ \E c \in Instants : DeleteComment(c)

AskSome ==
  \E since \in {agent.since, Never}, limit \in Limits, wanted \in Wanted :
    GetTask(since, limit, wanted)

Handle ==
  \/ ReadTask
  \/ \E page \in SUBSET posted : ReadComments(page)
  \/ \E p \in Parts : ReadPart(p)
  \/ \E p \in Parts : Throttled(p)
  \/ Fail

SinceNext == Write \/ AskSome \/ Handle \/ \E anchor \in Instants : Reply(anchor)

SinceSpec == SinceInit /\ [][SinceNext]_sinceVars

-----------------------------------------------------------------------------
(* Fairness: a handler goes on, the agent keeps asking for the thread with *)
(* the largest limit, which holds it, and none of the requests of these    *)
(* calls fails for ever, nor any that follows the comments once read.      *)

Thorough(call_) ==
  /\ "comments" \in call_.wanted
  /\ call_.limit = MaxLimit

Fairness ==
  /\ WF_sinceVars(Handle)
  /\ SF_sinceVars(AskSome /\ Thorough(call'))
  /\ SF_sinceVars(ReadTask /\ Thorough(call))
  /\ SF_sinceVars((\E page \in SUBSET posted : ReadComments(page)) /\ Thorough(call))
  /\ \A p \in (UNION Wanted) \ {"comments"} :
       SF_sinceVars(ReadPart(p) /\ Thorough(call) /\ "comments" \in call.got)
  /\ WF_sinceVars(\E anchor \in Instants : Reply(anchor))

FairSinceSpec == SinceSpec /\ Fairness

-----------------------------------------------------------------------------
(* Properties *)

\* Every variable keeps to its type; a call under way is a call.
SinceTypeOK ==
  /\ now \in Instants /\ updated \in Instants /\ posted \subseteq Instants
  /\ call \in Call \cup {NoCall}
  /\ agent \in Agent

\* task_changed=false is the truth about the body the agent holds: it is the
\* body the task had when the handler read it, although the agent holds it from
\* an earlier call and the task may have been edited during both.
UnchangedIsHeld ==
  Busy /\ "task" \in call.got /\ ~call.changed => agent.body = call.updated

\* An agent that anchors `since` as it is told never has a comment that is not
\* newer than its anchor missing: the filter on created_at hides nothing it was
\* not sent, although task and comments are read at different instants.
NothingMissed == \A c \in posted : c <= agent.since => c \in agent.known

\* An answer whose page holds the thread, or reaches back beyond `since`, brings
\* the agent every comment that existed when it asked: the end of the thread is
\* among what it was shown ("the whole thread, read to the end").
ReadToTheEnd ==
  [][\A anchor \in Instants :
       Reply(anchor) /\ Covers =>
         \A c \in posted : c <= call.asked => c \in agent'.known]_sinceVars

\* A part that was asked for is in the answer or named as incomplete, so that a
\* missing part is never mistaken for an empty one; the task is never missing.
NeverMistaken ==
  Busy /\ call.todo = {} =>
    /\ call.got \cup call.incomplete = {"task"} \cup call.wanted
    /\ call.got \cap call.incomplete = {}
    /\ "task" \in call.got

\* When the writes end, the agent ends with the task's body and all comments,
\* whatever it saw of them while they were written.
CatchesUp == <>[](agent.body = updated /\ posted \subseteq agent.known)
=============================================================================
