--------------------------- MODULE CheckoutLease ---------------------------
(***************************************************************************)
(* The checkout tokens and the current task that a Server remembers for    *)
(* the agents it serves: checkout_task, extend_checkout, release_task, the *)
(* turn-outcome commands that may end a lease (finish_task, hand_off, ...) *)
(* and remember, which stamps a memory with the current task.              *)
(*                                                                         *)
(* Each tool call is a goroutine: it sends one request to the Mesh API and *)
(* then updates the maps of the Server.  Every operation on a sync.Map is  *)
(* a step of its own.  The lease itself lives in the Mesh API, which knows *)
(* a card by every name it has; the maps are keyed by the name the caller  *)
(* used.                                                                   *)
(***************************************************************************)
EXTENDS Integers

CONSTANTS
  Agent,         \* agents served by this Server
  Call,          \* tool calls in progress at the same time
  Card,          \* tasks, each in a project of its own
  Name,          \* the names callers use for a card, among uuid and short id
  ProjectNamed,  \* whether a checkout answer names the project
  Contended,     \* calls that name the same card may overlap
  Parallel,      \* an agent may have several calls in progress
  MaxToken       \* bound: leases there may be in a behaviour

ASSUME SwitchAssumption ==
  /\ ProjectNamed \in (SUBSET BOOLEAN) \ {{}}
  /\ Contended \in BOOLEAN
  /\ Parallel \in BOOLEAN
  /\ MaxToken \in Nat

VARIABLES
  lease,           \* lease[k]: the lease of card k in the Mesh API
  issued,          \* the last token the Mesh API made
  checkouts,       \* checkouts[k][n]: the token stored under name n of k
  activeProjects,  \* activeProjects[a]: the card whose project a works on
  activeTaskIDs,   \* activeTaskIDs[a]: the card a works on
  call,            \* call[c]: where tool call c is
  told,            \* history: the cards whose lease its holder was told of
  ended,           \* history: ended[k], the leases whose end was reported
  batch,           \* history: batch[a], the cards a was given in the present
                   \* run of overlapping checkout and remember calls
  recent           \* history: recent[a], those of the last such run

vars == <<lease, issued, checkouts, activeProjects, activeTaskIDs, call,
          told, ended, batch, recent>>

Token == Nat
None  == 0

NoCard == "no card"

Lease == [token: Token, holder: Agent, name: Name] \cup [token: {None}]

Free == [token |-> None]

Op == {"checkout", "extend", "release", "command"}

Busy == [pc: {"request", "store", "project", "task", "forget"},
         op: Op, agent: Agent, card: Card, name: Name,
         token: Token,  \* the token presented, granted or ended
         named: BOOLEAN]  \* the answer to the checkout names the project

\* A call of remember that has loaded the project and not yet the task.
Stamping == [pc: {"stamp"}, agent: Agent, project: Card \cup {NoCard}]

Idle == [pc: {"idle"}]

InProgress(c) == call[c].pc # "idle"

\* c is about a card, and has not returned.
Working(c) == call[c].pc \notin {"idle", "stamp"}

\* What a memory is stamped with.
Slot == {"project", "task"}

NoCards == [s \in Slot |-> {}]

\* c is a call of a that sets or reads the current project and task.
Concerned(c, a) ==
  /\ InProgress(c) /\ call[c].agent = a
  /\ call[c].pc = "stamp" \/ call[c].op = "checkout"

-----------------------------------------------------------------------------
(* The tool calls, up to the request they send.                            *)

AgentReady(a) == Parallel \/ \A c \in Call : InProgress(c) => call[c].agent # a

CardReady(k) == Contended \/ \A c \in Call : Working(c) => call[c].card # k

Begin(c, op, a, k, n, token) ==
  call' = [call EXCEPT ![c] =
    [pc |-> "request", op |-> op, agent |-> a, card |-> k, name |-> n,
     token |-> token, named |-> FALSE]]

\* checkout_task and the turn-outcome commands send their request at once.
Ask(c, op, a, k, n) ==
  /\ ~InProgress(c) /\ AgentReady(a) /\ CardReady(k)
  /\ op \in {"checkout", "command"}
  /\ Begin(c, op, a, k, n, None)
  /\ UNCHANGED <<lease, issued, checkouts, activeProjects, activeTaskIDs,
                 told, ended, batch, recent>>

\* Mutant of Present: the token is taken out of the map, not read.
PresentConsumed(c, op, a, k, n) ==
  /\ ~InProgress(c) /\ AgentReady(a) /\ CardReady(k)
  /\ op \in {"extend", "release"}
  /\ checkouts[k][n] # None
  /\ Begin(c, op, a, k, n, checkouts[k][n])
  /\ checkouts' = [checkouts EXCEPT ![k][n] = IF op = "release" THEN None ELSE @]
  /\ UNCHANGED <<lease, issued, activeProjects, activeTaskIDs, told, ended,
                 batch, recent>>

\* extend_checkout and release_task are refused without a stored token.
Present(c, op, a, k, n) ==
  /\ ~InProgress(c) /\ AgentReady(a) /\ CardReady(k)
  /\ op \in {"extend", "release"}
  /\ checkouts[k][n] # None
  /\ Begin(c, op, a, k, n, checkouts[k][n])
  /\ UNCHANGED <<lease, issued, checkouts, activeProjects, activeTaskIDs,
                 told, ended, batch, recent>>

\* The call ends, and with the last of several that overlap, their run.
Return(c) ==
  LET a == call[c].agent
  IN /\ call' = [call EXCEPT ![c] = [pc |-> "idle"]]
     /\ IF \E d \in Call \ {c} : Concerned(d, a)
        THEN UNCHANGED <<batch, recent>>
        ELSE /\ batch' = [batch EXCEPT ![a] = NoCards]
             /\ recent' = [recent EXCEPT ![a] =
                  [s \in Slot |-> IF batch[a][s] = {} THEN recent[a][s]
                                                    ELSE batch[a][s]]]

-----------------------------------------------------------------------------
(* The Mesh API, which is not part of this repository.  delivered: whether *)
(* the answer reaches the server; if not, the call has failed.             *)

Requesting(c, op) == call[c].pc = "request" /\ call[c].op = op

\* A refusal, or a request that was lost on its way.
Fail(c) ==
  /\ call[c].pc = "request"
  /\ Return(c)
  /\ UNCHANGED <<lease, issued, checkouts, activeProjects, activeTaskIDs,
                 told, ended>>

\* A free card is given to the caller, a card the caller holds again.
Grant(c, delivered, named) ==
  LET k == call[c].card
      a == call[c].agent
      t == issued + 1
  IN /\ Requesting(c, "checkout")
     /\ issued < MaxToken
     /\ lease[k].token # None => lease[k].holder = a
     /\ issued' = t
     /\ lease' = [lease EXCEPT ![k] =
          [token |-> t, holder |-> a, name |-> call[c].name]]
     /\ IF delivered
        THEN /\ call' = [call EXCEPT ![c].pc = "store", ![c].token = t,
                                     ![c].named = named]
             /\ batch' = [batch EXCEPT ![a] =
                  [s \in Slot |-> IF s = "task" \/ named THEN @[s] \cup {k} ELSE @[s]]]
             /\ UNCHANGED recent
        ELSE Return(c)
     /\ told' = told \ {k}
     /\ UNCHANGED <<checkouts, activeProjects, activeTaskIDs, ended>>

\* Extending changes nothing but the time at which the lease expires.
Extended(c) ==
  /\ Requesting(c, "extend")
  /\ Return(c)
  /\ UNCHANGED <<lease, issued, checkouts, activeProjects, activeTaskIDs,
                 told, ended>>

Holds(c) ==
  LET l == lease[call[c].card]
  IN l.token # None /\ l.holder = call[c].agent

\* The end of the lease of c's card, on behalf of c.
EndLease(c, delivered) ==
  LET k == call[c].card
  IN /\ lease' = [lease EXCEPT ![k] = Free]
     /\ IF delivered
        THEN /\ call' = [call EXCEPT ![c].pc = "forget",
                                     ![c].token = lease[k].token]
             /\ UNCHANGED <<batch, recent>>
        ELSE Return(c)
     /\ told' = told \ {k}
     /\ UNCHANGED <<issued, checkouts, activeProjects, activeTaskIDs, ended>>

Released(c, delivered) ==
  /\ Requesting(c, "release")
  /\ Holds(c) /\ lease[call[c].card].token = call[c].token
  /\ EndLease(c, delivered)

\* A command that ends the lease its sender holds: "released" is true.
CommandReleased(c, delivered) ==
  /\ Requesting(c, "command")
  /\ Holds(c)
  /\ EndLease(c, delivered)

\* The TTL of a lease is over: a minute at least, when a call that waits for
\* its answer has long timed out.
Expire(k) ==
  /\ lease[k].token # None
  /\ \A c \in Call : call[c].pc \in {"store", "project", "task"} => call[c].card # k
  /\ lease' = [lease EXCEPT ![k] = Free]
  /\ told' = told \ {k}
  /\ UNCHANGED <<issued, checkouts, activeProjects, activeTaskIDs, call,
                 ended, batch, recent>>

-----------------------------------------------------------------------------
(* What the handlers do with the answer.                                   *)

\* checkout_task: the token, the project if the answer names it, the task.
StoreToken(c) ==
  /\ call[c].pc = "store"
  /\ checkouts' = [checkouts EXCEPT ![call[c].card][call[c].name] = call[c].token]
  /\ call' = [call EXCEPT ![c].pc = "project"]
  /\ UNCHANGED <<lease, issued, activeProjects, activeTaskIDs, told, ended,
                 batch, recent>>

\* Mutant of StoreProject: the first project an agent works in sticks.
StoreProjectOnce(c) ==
  /\ call[c].pc = "project"
  /\ activeProjects' = [activeProjects EXCEPT ![call[c].agent] =
                         IF call[c].named /\ @ = NoCard THEN call[c].card ELSE @]
  /\ call' = [call EXCEPT ![c].pc = "task"]
  /\ UNCHANGED <<lease, issued, checkouts, activeTaskIDs, told, ended,
                 batch, recent>>

StoreProject(c) ==
  /\ call[c].pc = "project"
  /\ activeProjects' = [activeProjects EXCEPT ![call[c].agent] =
                          IF call[c].named THEN call[c].card ELSE @]
  /\ call' = [call EXCEPT ![c].pc = "task"]
  /\ UNCHANGED <<lease, issued, checkouts, activeTaskIDs, told, ended,
                 batch, recent>>

StoreTask(c) ==
  /\ call[c].pc = "task"
  /\ activeTaskIDs' = [activeTaskIDs EXCEPT ![call[c].agent] = call[c].card]
  /\ told' = told \cup {k \in {call[c].card} : lease[k].token = call[c].token}
  /\ Return(c)
  /\ UNCHANGED <<lease, issued, checkouts, activeProjects, ended>>

\* Mutant of Forget: only release_task forgets the token.
ForgetOnRelease(c) ==
  LET k == call[c].card
  IN /\ call[c].pc = "forget"
     /\ checkouts' = [checkouts EXCEPT ![k][call[c].name] =
                        IF call[c].op = "release" THEN None ELSE @]
     /\ ended' = [ended EXCEPT ![k] = @ \cup
                     {[token |-> call[c].token, name |-> call[c].name]}]
     /\ Return(c)
     /\ UNCHANGED <<lease, issued, activeProjects, activeTaskIDs, told>>

\* release_task, or a command whose answer says "released": whatever token is
\* stored by now goes.
Forget(c) ==
  LET k == call[c].card
  IN /\ call[c].pc = "forget"
     /\ checkouts' = [checkouts EXCEPT ![k][call[c].name] = None]
     /\ ended' = [ended EXCEPT ![k] = @ \cup
                     {[token |-> call[c].token, name |-> call[c].name]}]
     /\ Return(c)
     /\ UNCHANGED <<lease, issued, activeProjects, activeTaskIDs, told>>

\* remember without a project_id and a source_task_id of the caller's own, and
\* no context file: first the project, then (Stamp) the task.
Remember(c, a) ==
  /\ ~InProgress(c) /\ AgentReady(a)
  /\ call' = [call EXCEPT ![c] =
       [pc |-> "stamp", agent |-> a, project |-> activeProjects[a]]]
  /\ UNCHANGED <<lease, issued, checkouts, activeProjects, activeTaskIDs,
                 told, ended, batch, recent>>

Stamp(c) ==
  /\ call[c].pc = "stamp"
  /\ Return(c)
  /\ UNCHANGED <<lease, issued, checkouts, activeProjects, activeTaskIDs,
                 told, ended>>

\* The process is replaced: leases survive in the Mesh API, the maps do not.
Restart ==
  /\ checkouts' = [k \in Card |-> [n \in Name |-> None]]
  /\ activeProjects' = [a \in Agent |-> NoCard]
  /\ activeTaskIDs' = [a \in Agent |-> NoCard]
  /\ call' = [c \in Call |-> [pc |-> "idle"]]
  /\ told' = {}
  /\ batch' = [a \in Agent |-> NoCards]
  /\ recent' = [a \in Agent |-> [s \in Slot |-> {NoCard}]]
  /\ UNCHANGED <<lease, issued, ended>>

-----------------------------------------------------------------------------

Init ==
  /\ lease = [k \in Card |-> Free]
  /\ issued = 0
  /\ checkouts = [k \in Card |-> [n \in Name |-> None]]
  /\ activeProjects = [a \in Agent |-> NoCard]
  /\ activeTaskIDs = [a \in Agent |-> NoCard]
  /\ call = [c \in Call |-> [pc |-> "idle"]]
  /\ told = {}
  /\ ended = [k \in Card |-> {}]
  /\ batch = [a \in Agent |-> NoCards]
  /\ recent = [a \in Agent |-> [s \in Slot |-> {NoCard}]]

Handle(c) ==
  \/ \E op \in Op, a \in Agent, k \in Card, n \in Name :
       Ask(c, op, a, k, n) \/ Present(c, op, a, k, n)
  \/ Fail(c)
  \/ \E delivered \in BOOLEAN, named \in ProjectNamed : Grant(c, delivered, named)
  \/ Extended(c)
  \/ \E delivered \in BOOLEAN : Released(c, delivered)
  \/ \E delivered \in BOOLEAN : CommandReleased(c, delivered)
  \/ StoreToken(c)
  \/ StoreProject(c)
  \/ StoreTask(c)
  \/ Forget(c)
  \/ \E a \in Agent : Remember(c, a)
  \/ Stamp(c)

Next ==
  \/ \E c \in Call : Handle(c)
  \/ \E k \in Card : Expire(k)
  \/ Restart

Spec == Init /\ [][Next]_vars

-----------------------------------------------------------------------------
(* Properties.                                                             *)

\* Every variable has the shape the code gives it.
TypeOK ==
  /\ lease \in [Card -> Lease]
  /\ issued \in Nat
  /\ checkouts \in [Card -> [Name -> Token]]
  /\ activeProjects \in [Agent -> Card \cup {NoCard}]
  /\ activeTaskIDs \in [Agent -> Card \cup {NoCard}]
  /\ call \in [Call -> Busy \cup Stamping \cup Idle]
  /\ told \subseteq Card
  /\ ended \in [Card -> SUBSET [token: Token, name: Name]]
  /\ batch \in [Agent -> [Slot -> SUBSET (Card \cup {NoCard})]]
  /\ recent \in [Agent -> [Slot -> SUBSET (Card \cup {NoCard})]]

\* The agents never see a token: as long as a lease that checkout_task has
\* reported lives, the server has its token under the name of the checkout, so
\* that release_task can end it - after failed releases, lost answers, expiry
\* and renewal too.
LeaseStaysReleasable ==
  \A k \in told : checkouts[k][lease[k].name] = lease[k].token

\* A token is forgotten with its lease: once a release or a command that used
\* some name of the card has reported the end of a lease, that name leads to its
\* token no more, whatever calls follow.  This holds while calls about one card
\* do not overlap (Contended); a token stored under another name of the card
\* stays there, and the Mesh API refuses it.
ReleasedForgotten ==
  \A k \in Card : \A e \in ended[k] : checkouts[k][e.name] # e.token

\* A memory is stamped with a project and a task that its author was given by
\* its last checkout or, when checkouts and remember calls of its own overlap,
\* by one of those or of the run of overlapping calls before: no interleaving
\* keeps an earlier card.  An agent that makes one call at a time, with answers
\* that name the project, gets the project and the task of one and the same card.
StampOfLastCheckout ==
  \A c \in Call : call[c].pc = "stamp" =>
    LET a == call[c].agent
        given(s) == recent[a][s] \cup batch[a][s]
    IN call[c].project \in given("project") /\ activeTaskIDs[a] \in given("task")
=============================================================================
