------------------------ MODULE CheckoutLeaseProofs ------------------------
(***************************************************************************)
(* Proofs about CheckoutLease, for every number of agents, calls and       *)
(* cards: the type invariant, the stamps of remember, and, while calls on  *)
(* one card do not overlap, the two properties about tokens.               *)
(***************************************************************************)
EXTENDS CheckoutLease, TLAPS

-----------------------------------------------------------------------------
(* Type correctness.                                                       *)

\* The end of a call keeps the calls and the runs in their types.
LEMMA ReturnType ==
  ASSUME TypeOK, NEW c \in Call, InProgress(c), Return(c)
  PROVE  /\ call' \in [Call -> Busy \cup Stamping \cup Idle]
         /\ batch' \in [Agent -> [Slot -> SUBSET (Card \cup {NoCard})]]
         /\ recent' \in [Agent -> [Slot -> SUBSET (Card \cup {NoCard})]]
<1>1. call' \in [Call -> Busy \cup Stamping \cup Idle]
  BY DEF TypeOK, Return, Idle
<1> DEFINE a == call[c].agent
<1>2. a \in Agent
  BY DEF TypeOK, InProgress, Busy, Stamping, Idle
<1>3. CASE \E d \in Call \ {c} : Concerned(d, a)
  BY <1>1, <1>3 DEF TypeOK, Return
<1>4. CASE ~ \E d \in Call \ {c} : Concerned(d, a)
  <2>1. /\ batch' = [batch EXCEPT ![a] = NoCards]
        /\ recent' = [recent EXCEPT ![a] =
             [s \in Slot |-> IF batch[a][s] = {} THEN recent[a][s] ELSE batch[a][s]]]
    BY <1>4 DEF Return
  <2>2. [s \in Slot |-> IF batch[a][s] = {} THEN recent[a][s] ELSE batch[a][s]]
          \in [Slot -> SUBSET (Card \cup {NoCard})]
    BY <1>2 DEF TypeOK
  <2>3. NoCards \in [Slot -> SUBSET (Card \cup {NoCard})]
    BY DEF NoCards
  <2>4. batch' \in [Agent -> [Slot -> SUBSET (Card \cup {NoCard})]]
    BY <2>1, <2>3 DEF TypeOK
  <2>5. recent' \in [Agent -> [Slot -> SUBSET (Card \cup {NoCard})]]
    BY <2>1, <2>2 DEF TypeOK
  <2> QED
    BY <1>1, <2>4, <2>5
<1> QED
  BY <1>3, <1>4

\* Every handler of a call keeps every variable in its type.
LEMMA HandleType ==
  ASSUME TypeOK, NEW c \in Call, Handle(c)
  PROVE  TypeOK'
<1> USE DEF Token, None, Lease, Free, Op, Busy, Stamping, Idle
<1>1. ASSUME NEW op \in Op, NEW a \in Agent, NEW k \in Card, NEW n \in Name,
             Ask(c, op, a, k, n)
      PROVE  TypeOK'
  BY <1>1 DEF TypeOK, Ask, Begin
<1>2. ASSUME NEW op \in Op, NEW a \in Agent, NEW k \in Card, NEW n \in Name,
             Present(c, op, a, k, n)
      PROVE  TypeOK'
  BY <1>2 DEF TypeOK, Present, Begin
<1>3. CASE Fail(c) \/ Extended(c) \/ Stamp(c)
  <2>1. /\ InProgress(c) /\ Return(c)
        /\ UNCHANGED <<lease, issued, checkouts, activeProjects, activeTaskIDs,
                       told, ended>>
    BY <1>3 DEF Fail, Extended, Stamp, Requesting, InProgress
  <2> QED
    BY <2>1, ReturnType DEF TypeOK
<1>4. ASSUME NEW delivered \in BOOLEAN, NEW named \in ProjectNamed,
             Grant(c, delivered, named)
      PROVE  TypeOK'
  <2>1. call[c] \in Busy /\ InProgress(c)
    BY <1>4 DEF TypeOK, Grant, Requesting, InProgress
  <2> DEFINE k == call[c].card
             a == call[c].agent
             t == issued + 1
  <2>2. /\ k \in Card /\ a \in Agent /\ call[c].name \in Name
        /\ named \in BOOLEAN
    BY <2>1, SwitchAssumption
  <2>3. t \in Nat
    BY <2>2 DEF TypeOK
  <2>4. /\ issued' = t
        /\ lease' = [lease EXCEPT ![k] =
             [token |-> t, holder |-> a, name |-> call[c].name]]
        /\ told' = told \ {k}
        /\ UNCHANGED <<checkouts, activeProjects, activeTaskIDs, ended>>
    BY <1>4 DEF Grant
  <2>5. lease' \in [Card -> Lease] /\ issued' \in Nat
    <3> HIDE DEF t
    <3> QED BY <2>2, <2>3, <2>4 DEF TypeOK
  <2>6. CASE delivered
    <3>1. /\ call' = [call EXCEPT ![c].pc = "store", ![c].token = t, ![c].named = named]
          /\ batch' = [batch EXCEPT ![a] =
               [s \in Slot |-> IF s = "task" \/ named THEN @[s] \cup {k} ELSE @[s]]]
          /\ recent' = recent
      BY <1>4, <2>6 DEF Grant
    <3>2. call' \in [Call -> Busy \cup Stamping \cup Idle]
      <4> HIDE DEF t
      <4> QED BY <2>1, <2>2, <2>3, <3>1 DEF TypeOK
    <3>3. batch' \in [Agent -> [Slot -> SUBSET (Card \cup {NoCard})]]
      BY <2>2, <3>1 DEF TypeOK
    <3> QED
      BY <2>2, <2>4, <2>5, <3>1, <3>2, <3>3 DEF TypeOK
  <2>7. CASE ~delivered
    <3>1. Return(c)
      BY <1>4, <2>7 DEF Grant
    <3> QED
      BY <2>1, <2>4, <2>5, <3>1, ReturnType DEF TypeOK
  <2> QED
    BY <2>6, <2>7
<1>6. ASSUME NEW delivered \in BOOLEAN, EndLease(c, delivered),
             call[c] \in Busy, Holds(c)
      PROVE  TypeOK'
  <2>1. lease[call[c].card].token \in Nat /\ InProgress(c)
    BY <1>6 DEF TypeOK, Holds, InProgress
  <2>2. lease' \in [Card -> Lease] /\ told' \subseteq Card
    BY <1>6 DEF TypeOK, EndLease
  <2>3. CASE delivered
    <3>1. /\ call' = [call EXCEPT ![c].pc = "forget",
                                  ![c].token = lease[call[c].card].token]
          /\ UNCHANGED <<batch, recent>>
      BY <1>6, <2>3 DEF EndLease
    <3>2. call' \in [Call -> Busy \cup Stamping \cup Idle]
      BY <1>6, <2>1, <3>1 DEF TypeOK
    <3> QED
      BY <1>6, <2>2, <3>1, <3>2 DEF TypeOK, EndLease
  <2>4. CASE ~delivered
    BY <1>6, <2>1, <2>2, <2>4, ReturnType DEF TypeOK, EndLease
  <2> QED
    BY <2>3, <2>4
<1>7. ASSUME NEW delivered \in BOOLEAN,
             Released(c, delivered) \/ CommandReleased(c, delivered)
      PROVE  TypeOK'
  <2>1. call[c] \in Busy
    BY <1>7 DEF TypeOK, Released, CommandReleased, Requesting
  <2> QED
    BY <1>6, <1>7, <2>1 DEF Released, CommandReleased
<1>8. CASE StoreToken(c)
  <2>1. call[c] \in Busy
    BY <1>8 DEF TypeOK, StoreToken
  <2> QED
    BY <1>8, <2>1 DEF TypeOK, StoreToken
<1>9. CASE StoreProject(c)
  <2>1. call[c] \in Busy
    BY <1>9 DEF TypeOK, StoreProject
  <2> QED
    BY <1>9, <2>1 DEF TypeOK, StoreProject
<1>10. CASE StoreTask(c)
  <2>1. call[c] \in Busy /\ InProgress(c)
    BY <1>10 DEF TypeOK, StoreTask, InProgress
  <2>2. /\ activeTaskIDs' \in [Agent -> Card \cup {NoCard}]
        /\ told' \subseteq Card
    BY <1>10, <2>1 DEF TypeOK, StoreTask
  <2> QED
    BY <1>10, <2>1, <2>2, ReturnType DEF TypeOK, StoreTask
<1>11. CASE Forget(c)
  <2>1. call[c] \in Busy /\ InProgress(c)
    BY <1>11 DEF TypeOK, Forget, InProgress
  <2>2. /\ checkouts' \in [Card -> [Name -> Token]]
        /\ ended' \in [Card -> SUBSET [token: Token, name: Name]]
    BY <1>11, <2>1 DEF TypeOK, Forget
  <2> QED
    BY <1>11, <2>1, <2>2, ReturnType DEF TypeOK, Forget
<1>12. ASSUME NEW a \in Agent, Remember(c, a)
       PROVE  TypeOK'
  BY <1>12 DEF TypeOK, Remember
<1> QED
  BY <1>1, <1>2, <1>3, <1>4, <1>7, <1>8, <1>9, <1>10, <1>11, <1>12 DEF Handle

\* So does every step.
LEMMA NextType ==
  ASSUME TypeOK, [Next]_vars
  PROVE  TypeOK'
<1>1. ASSUME NEW c \in Call, Handle(c) PROVE TypeOK'
  BY <1>1, HandleType
<1>2. ASSUME NEW k \in Card, Expire(k) PROVE TypeOK'
  BY <1>2 DEF TypeOK, Expire, Lease, Free, None
<1>3. CASE Restart
  <2>1. /\ NoCards \in [Slot -> SUBSET (Card \cup {NoCard})]
        /\ [s \in Slot |-> {NoCard}] \in [Slot -> SUBSET (Card \cup {NoCard})]
    BY DEF NoCards
  <2> QED
    BY <1>3, <2>1 DEF TypeOK, Restart, Token, None, Idle
<1>4. CASE UNCHANGED vars
  BY <1>4 DEF TypeOK, vars
<1> QED
  BY <1>1, <1>2, <1>3, <1>4 DEF Next

\* The maps are empty at first, and nothing is in progress.
LEMMA InitType == Init => TypeOK
<1>1. /\ NoCards \in [Slot -> SUBSET (Card \cup {NoCard})]
      /\ [s \in Slot |-> {NoCard}] \in [Slot -> SUBSET (Card \cup {NoCard})]
  BY DEF NoCards
<1> QED
  BY <1>1 DEF Init, TypeOK, Lease, Free, Token, None, Idle

\* The maps, the calls and the leases keep the shape the code gives them.
THEOREM TypeCorrect == Spec => []TypeOK
<1>1. Init => TypeOK
  BY InitType
<1> QED
  BY <1>1, NextType, PTL DEF Spec

-----------------------------------------------------------------------------
(* Leases and their tokens, when calls on one card do not overlap.         *)

\* At most one call is about a card.
OneAtATime ==
  \A c, d \in Call :
    Working(c) /\ Working(d) /\ call[c].card = call[d].card => c = d

\* Tokens are numbered as they are made, and a lease that was told of lives.
Numbered ==
  \A k \in Card :
    /\ k \in told => lease[k].token # None
    /\ \A e \in ended[k] : e.token \in 1 .. issued
    /\ lease[k].token \in 0 .. issued

\* What a call that has its answer is about to do fits the lease.
Pending(c) ==
  LET k == call[c].card
      t == call[c].token
  IN /\ call[c].pc \in {"store", "project", "task", "forget"} => t \in 1 .. issued
     /\ call[c].pc = "store" =>
          /\ \A e \in ended[k] : e.token # t
          /\ \/ lease[k].token = None
             \/ lease[k].token = t /\ lease[k].name = call[c].name
     /\ call[c].pc \in {"project", "task"} =>
          \/ lease[k].token = None
          \/ lease[k].token = t /\ checkouts[k][lease[k].name] = t
     /\ call[c].pc = "forget" => lease[k].token = None

LeaseInv ==
  /\ TypeOK
  /\ OneAtATime
  /\ Numbered
  /\ \A c \in Call : Pending(c)
  /\ LeaseStaysReleasable

\* Nothing a call does about its own card is seen by the call on another card.
LEMMA OthersPending ==
  ASSUME LeaseInv, NEW c \in Call, Working(c),
         NEW x, call' = [call EXCEPT ![c] = x],
         \A k \in Card \ {call[c].card} :
           /\ lease'[k] = lease[k]
           /\ checkouts'[k] = checkouts[k]
           /\ ended'[k] = ended[k],
         issued' = issued \/ issued' = issued + 1
  PROVE  \A d \in Call \ {c} : Pending(d)'
<1> SUFFICES ASSUME NEW d \in Call \ {c} PROVE Pending(d)'
  OBVIOUS
<1>1. call'[d] = call[d]
  BY DEF LeaseInv, TypeOK
<1>2. CASE ~Working(d)
  BY <1>1, <1>2 DEF Pending, Working
<1>3. CASE Working(d)
  <2>1. call[d].card \in Card \ {call[c].card}
    BY <1>3 DEF LeaseInv, OneAtATime, TypeOK, Working, Busy, Stamping, Idle
  <2> QED
    BY <1>1, <2>1 DEF LeaseInv, TypeOK, Pending
<1> QED
  BY <1>2, <1>3

\* A call that goes on with the same card, or ends, leaves no card with two.
LEMMA OneStays ==
  ASSUME LeaseInv, NEW c \in Call, Working(c),
         NEW x, call' = [call EXCEPT ![c] = x],
         x.pc \in {"idle", "stamp"} \/ x.card = call[c].card
  PROVE  OneAtATime'
<1>1. call'[c] = x /\ \A d \in Call \ {c} : call'[d] = call[d]
  BY DEF LeaseInv, TypeOK
<1> SUFFICES ASSUME NEW d \in Call, NEW e \in Call,
                    Working(d)', Working(e)', call'[d].card = call'[e].card
             PROVE  d = e
  BY DEF OneAtATime
<1>2. CASE d = c
  BY <1>1, <1>2 DEF LeaseInv, OneAtATime, Working
<1>3. CASE e = c
  BY <1>1, <1>3 DEF LeaseInv, OneAtATime, Working
<1>4. CASE d # c /\ e # c
  BY <1>1, <1>4 DEF LeaseInv, OneAtATime, Working
<1> QED
  BY <1>2, <1>3, <1>4

\* A call begins on a card that no other call is about.
LEMMA BeginLease ==
  ASSUME LeaseInv, ~Contended, NEW c \in Call, NEW op \in Op, NEW a \in Agent,
         NEW k \in Card, NEW n \in Name, NEW t,
         CardReady(k), ~InProgress(c), Begin(c, op, a, k, n, t), TypeOK',
         UNCHANGED <<lease, issued, checkouts, told, ended>>
  PROVE  LeaseInv'
<1>1. /\ call'[c].pc = "request" /\ call'[c].card = k
      /\ \A d \in Call \ {c} : call'[d] = call[d]
  BY DEF LeaseInv, TypeOK, Begin
<1>2. OneAtATime'
  BY <1>1 DEF LeaseInv, OneAtATime, CardReady, Working
<1>3. \A d \in Call : Pending(d)'
  <2> SUFFICES ASSUME NEW d \in Call PROVE Pending(d)'
    OBVIOUS
  <2>1. CASE d = c
    BY <1>1, <2>1 DEF Pending
  <2>2. CASE d # c
    BY <1>1, <2>2 DEF LeaseInv, Pending
  <2> QED
    BY <2>1, <2>2
<1> QED
  BY <1>2, <1>3 DEF LeaseInv, Numbered, LeaseStaysReleasable

\* A call ends and changes nothing else.
LEMMA ReturnLease ==
  ASSUME LeaseInv, NEW c \in Call, Working(c), Return(c), TypeOK',
         UNCHANGED <<lease, issued, checkouts, told, ended>>
  PROVE  LeaseInv'
<1>1. OneAtATime'
  BY OneStays DEF Return
<1>2. \A d \in Call \ {c} : Pending(d)'
  BY OthersPending DEF Return
<1>3. Pending(c)'
  <2>1. call'[c].pc = "idle"
    BY DEF Return, LeaseInv, TypeOK
  <2> QED BY <2>1 DEF Pending
<1> QED
  BY <1>1, <1>2, <1>3 DEF LeaseInv, Numbered, LeaseStaysReleasable

\* A new lease has a token of its own, which no call has reported yet.
LEMMA GrantLease ==
  ASSUME LeaseInv, NEW c \in Call, NEW delivered \in BOOLEAN, NEW named,
         Grant(c, delivered, named), TypeOK'
  PROVE  LeaseInv'
<1> DEFINE k == call[c].card
           t == issued + 1
<1>1. call[c] \in Busy /\ Working(c)
  BY DEF LeaseInv, TypeOK, Grant, Requesting, Busy, Stamping, Idle, Working
<1>2. k \in Card /\ issued \in Nat
  BY <1>1 DEF LeaseInv, TypeOK, Busy
<1>3. /\ issued' = t
      /\ lease' = [lease EXCEPT ![k] =
           [token |-> t, holder |-> call[c].agent, name |-> call[c].name]]
      /\ told' = told \ {k}
      /\ UNCHANGED <<checkouts, ended>>
      /\ IF delivered
         THEN call' = [call EXCEPT ![c].pc = "store", ![c].token = t, ![c].named = named]
         ELSE call' = [call EXCEPT ![c] = [pc |-> "idle"]]
  BY DEF Grant, Return
<1>4. /\ lease'[k].token = t /\ lease'[k].name = call[c].name
      /\ \A q \in Card \ {k} : lease'[q] = lease[q]
  BY <1>2, <1>3 DEF LeaseInv, TypeOK
<1>5. \A e \in ended[k] : e.token # t
  BY <1>2 DEF LeaseInv, Numbered
<1>6. Numbered'
  BY <1>2, <1>3, <1>4 DEF LeaseInv, Numbered
<1>7. LeaseStaysReleasable'
  BY <1>3, <1>4 DEF LeaseInv, TypeOK, LeaseStaysReleasable
<1>8. /\ call' = [call EXCEPT ![c] = call'[c]]
      /\ call'[c].pc = "idle" \/ (call'[c].pc = "store" /\ call'[c].card = k
                                    /\ call'[c].token = t /\ call'[c].name = call[c].name)
  BY <1>1, <1>3 DEF LeaseInv, TypeOK, Busy
<1>9. OneAtATime'
  BY <1>1, <1>8, OneStays
<1>10. \A d \in Call \ {c} : Pending(d)'
  BY <1>1, <1>2, <1>3, <1>4, <1>8, OthersPending
<1>11. Pending(c)'
  <2>1. t \in 1 .. issued'
    BY <1>2, <1>3
  <2> QED
    BY <1>3, <1>4, <1>5, <1>8, <2>1 DEF Pending
<1> QED
  BY <1>6, <1>7, <1>9, <1>10, <1>11 DEF LeaseInv

\* Once the lease has ended nothing hangs on the token.
LEMMA EndLeaseLease ==
  ASSUME LeaseInv, NEW c \in Call, NEW delivered \in BOOLEAN,
         call[c].pc = "request", Holds(c), EndLease(c, delivered), TypeOK'
  PROVE  LeaseInv'
<1> DEFINE k == call[c].card
<1>1. call[c] \in Busy /\ Working(c)
  BY DEF LeaseInv, TypeOK, Busy, Stamping, Idle, Working
<1>2. k \in Card /\ lease[k].token \in 1 .. issued
  BY <1>1 DEF LeaseInv, Numbered, Busy, Holds, None, TypeOK
<1>3. /\ lease' = [lease EXCEPT ![k] = Free]
      /\ told' = told \ {k}
      /\ UNCHANGED <<issued, checkouts, ended>>
      /\ IF delivered
         THEN call' = [call EXCEPT ![c].pc = "forget", ![c].token = lease[k].token]
         ELSE call' = [call EXCEPT ![c] = [pc |-> "idle"]]
  BY DEF EndLease, Return
<1>4. lease'[k] = Free /\ \A q \in Card \ {k} : lease'[q] = lease[q]
  BY <1>2, <1>3 DEF LeaseInv, TypeOK
<1>5. Numbered'
  BY <1>3, <1>4 DEF LeaseInv, Numbered, Free, None, TypeOK
<1>6. LeaseStaysReleasable'
  BY <1>3, <1>4 DEF LeaseInv, TypeOK, LeaseStaysReleasable
<1>7. /\ call' = [call EXCEPT ![c] = call'[c]]
      /\ call'[c].pc = "idle" \/ (call'[c].pc = "forget" /\ call'[c].card = k
                                    /\ call'[c].token = lease[k].token)
  BY <1>1, <1>3 DEF LeaseInv, TypeOK, Busy
<1>8. OneAtATime'
  BY <1>1, <1>7, OneStays
<1>9. \A d \in Call \ {c} : Pending(d)'
  BY <1>1, <1>3, <1>4, <1>7, OthersPending
<1>10. Pending(c)'
  BY <1>2, <1>3, <1>4, <1>7 DEF Pending, Free, None
<1> QED
  BY <1>5, <1>6, <1>8, <1>9, <1>10 DEF LeaseInv

\* The three steps of checkout_task after the answer.
LEMMA StoreLease ==
  ASSUME LeaseInv, NEW c \in Call, TypeOK',
         StoreToken(c) \/ StoreProject(c) \/ StoreTask(c)
  PROVE  LeaseInv'
<1> DEFINE k == call[c].card
           t == call[c].token
<1>1. call[c] \in Busy /\ Working(c)
  BY DEF LeaseInv, TypeOK, Busy, Stamping, Idle, Working, StoreToken, StoreProject,
         StoreTask
<1>2. /\ k \in Card /\ call[c].name \in Name
      /\ t \in 1 .. issued
  BY <1>1 DEF LeaseInv, Pending, Busy, StoreToken, StoreProject, StoreTask
<1>3. CASE StoreToken(c)
  <2>1. /\ checkouts' = [checkouts EXCEPT ![k][call[c].name] = t]
        /\ call' = [call EXCEPT ![c].pc = "project"]
        /\ UNCHANGED <<lease, issued, told, ended>>
    BY <1>3 DEF StoreToken
  <2>2. /\ checkouts'[k][call[c].name] = t
        /\ \A q \in Card \ {k} : checkouts'[q] = checkouts[q]
    BY <1>2, <2>1 DEF LeaseInv, TypeOK
  <2>3. /\ call' = [call EXCEPT ![c] = call'[c]]
        /\ call'[c].pc = "project" /\ call'[c].card = k /\ call'[c].token = t
    BY <1>1, <2>1 DEF LeaseInv, TypeOK, Busy
  <2>4. lease[k].token # None => lease[k].token = t /\ lease[k].name = call[c].name
    BY <1>3 DEF LeaseInv, Pending, StoreToken
  <2>5. k \in told => lease[k].token # None
    BY <1>2 DEF LeaseInv, Numbered
  <2>6. LeaseStaysReleasable'
    BY <2>1, <2>2, <2>4, <2>5 DEF LeaseInv, TypeOK, LeaseStaysReleasable
  <2>7. OneAtATime'
    BY <1>1, <2>3, OneStays
  <2>8. \A d \in Call \ {c} : Pending(d)'
    BY <1>1, <2>1, <2>2, <2>3, OthersPending
  <2>9. Pending(c)'
    BY <1>2, <2>1, <2>2, <2>3, <2>4 DEF Pending
  <2> QED
    BY <2>1, <2>6, <2>7, <2>8, <2>9 DEF LeaseInv, Numbered
<1>4. CASE StoreProject(c)
  <2>1. /\ call' = [call EXCEPT ![c].pc = "task"]
        /\ UNCHANGED <<lease, issued, checkouts, told, ended>>
    BY <1>4 DEF StoreProject
  <2>2. /\ call' = [call EXCEPT ![c] = call'[c]]
        /\ call'[c].pc = "task" /\ call'[c].card = k /\ call'[c].token = t
    BY <1>1, <2>1 DEF LeaseInv, TypeOK, Busy
  <2>3. OneAtATime'
    BY <1>1, <2>2, OneStays
  <2>4. \A d \in Call \ {c} : Pending(d)'
    BY <1>1, <2>1, <2>2, OthersPending
  <2>5. Pending(c)'
    BY <1>2, <1>4, <2>1, <2>2 DEF LeaseInv, Pending, StoreProject
  <2> QED
    BY <2>1, <2>3, <2>4, <2>5 DEF LeaseInv, Numbered, LeaseStaysReleasable
<1>5. CASE StoreTask(c)
  <2>1. /\ told' = told \cup {q \in {k} : lease[q].token = t}
        /\ call' = [call EXCEPT ![c] = [pc |-> "idle"]]
        /\ UNCHANGED <<lease, issued, checkouts, ended>>
    BY <1>5 DEF StoreTask, Return
  <2>3. lease[k].token = t => checkouts[k][lease[k].name] = t
    BY <1>2, <1>5 DEF LeaseInv, Pending, StoreTask, None
  <2>4. LeaseStaysReleasable'
    BY <2>1, <2>3 DEF LeaseInv, LeaseStaysReleasable
  <2>5. OneAtATime'
    BY <1>1, <2>1, OneStays
  <2>6. \A d \in Call \ {c} : Pending(d)'
    BY <1>1, <2>1, OthersPending
  <2>7. Pending(c)'
    <3>1. call'[c].pc = "idle"
      BY <2>1 DEF LeaseInv, TypeOK
    <3> QED BY <3>1 DEF Pending
  <2>8. Numbered'
    BY <1>2, <2>1 DEF LeaseInv, Numbered, None
  <2> QED
    BY <2>4, <2>5, <2>6, <2>7, <2>8 DEF LeaseInv
<1> QED
  BY <1>3, <1>4, <1>5

\* The token that is forgotten is that of no lease.
LEMMA ForgetLease ==
  ASSUME LeaseInv, NEW c \in Call, Forget(c), TypeOK'
  PROVE  LeaseInv'
<1> DEFINE k == call[c].card
           t == call[c].token
<1>1. call[c] \in Busy /\ Working(c)
  BY DEF LeaseInv, TypeOK, Busy, Stamping, Idle, Working, Forget
<1>2. /\ k \in Card /\ call[c].name \in Name
      /\ t \in 1 .. issued /\ lease[k].token = None
  BY <1>1 DEF LeaseInv, Pending, Busy, Forget
<1>3. /\ checkouts' = [checkouts EXCEPT ![k][call[c].name] = None]
      /\ ended' = [ended EXCEPT ![k] = @ \cup {[token |-> t, name |-> call[c].name]}]
      /\ call' = [call EXCEPT ![c] = [pc |-> "idle"]]
      /\ UNCHANGED <<lease, issued, told>>
  BY DEF Forget, Return
<1>4. /\ ended'[k] = ended[k] \cup {[token |-> t, name |-> call[c].name]}
      /\ \A q \in Card \ {k} : ended'[q] = ended[q] /\ checkouts'[q] = checkouts[q]
  BY <1>2, <1>3 DEF LeaseInv, TypeOK
<1>5. Numbered'
  BY <1>2, <1>3, <1>4 DEF LeaseInv, Numbered
<1>6. k \notin told
  BY <1>2 DEF LeaseInv, Numbered
<1>7. LeaseStaysReleasable'
  BY <1>2, <1>3, <1>4, <1>6 DEF LeaseInv, TypeOK, LeaseStaysReleasable
<1>8. OneAtATime'
  BY <1>1, <1>3, OneStays
<1>9. \A d \in Call \ {c} : Pending(d)'
  BY <1>1, <1>3, <1>4, OthersPending
<1>10. Pending(c)'
  <2>1. call'[c].pc = "idle"
    BY <1>3 DEF LeaseInv, TypeOK
  <2> QED BY <2>1 DEF Pending
<1> QED
  BY <1>5, <1>7, <1>8, <1>9, <1>10 DEF LeaseInv

\* remember leaves the leases alone.
LEMMA RememberLease ==
  ASSUME LeaseInv, NEW c \in Call, TypeOK',
         Stamp(c) \/ \E a \in Agent : Remember(c, a)
  PROVE  LeaseInv'
<1>1. /\ ~Working(c)
      /\ call'[c].pc \in {"idle", "stamp"}
      /\ \A d \in Call \ {c} : call'[d] = call[d]
      /\ UNCHANGED <<lease, issued, checkouts, told, ended>>
  BY DEF LeaseInv, TypeOK, Stamp, Remember, Return, Working, InProgress
<1>2. OneAtATime'
  BY <1>1 DEF LeaseInv, OneAtATime, Working
<1>3. \A d \in Call : Pending(d)'
  <2>1. Pending(c)'
    BY <1>1 DEF Pending
  <2>2. \A d \in Call \ {c} : Pending(d)'
    BY <1>1 DEF LeaseInv, Pending
  <2> QED
    BY <2>1, <2>2
<1> QED
  BY <1>1, <1>2, <1>3 DEF LeaseInv, Numbered, LeaseStaysReleasable

LEMMA ExpireLease ==
  ASSUME LeaseInv, NEW k \in Card, Expire(k), TypeOK'
  PROVE  LeaseInv'
<1>1. /\ lease'[k] = Free
      /\ \A q \in Card \ {k} : lease'[q] = lease[q]
      /\ told' = told \ {k}
      /\ UNCHANGED <<issued, checkouts, call, ended>>
  BY DEF LeaseInv, TypeOK, Expire
<1>2. Numbered'
  <2>1. lease'[k].token \in 0 .. issued
    BY <1>1 DEF LeaseInv, Free, None, TypeOK
  <2> QED
    BY <1>1, <2>1 DEF LeaseInv, Numbered
<1>3. LeaseStaysReleasable'
  BY <1>1 DEF LeaseInv, TypeOK, LeaseStaysReleasable
<1>4. \A c \in Call : Pending(c)'
  <2> SUFFICES ASSUME NEW c \in Call PROVE Pending(c)'
    OBVIOUS
  <2>1. CASE ~Working(c)
    BY <1>1, <2>1 DEF Pending, Working
  <2>2. CASE Working(c)
    <3>1. call[c].card \in Card
      BY <2>2 DEF LeaseInv, TypeOK, Working, Busy, Stamping, Idle
    <3> QED
      BY <1>1, <3>1 DEF LeaseInv, Pending, Free, None
  <2> QED
    BY <2>1, <2>2
<1> QED
  BY <1>1, <1>2, <1>3, <1>4 DEF LeaseInv, OneAtATime, Working

LEMMA RestartLease ==
  ASSUME LeaseInv, Restart, TypeOK'
  PROVE  LeaseInv'
<1>1. /\ \A c \in Call : call'[c].pc = "idle"
      /\ told' = {}
      /\ UNCHANGED <<lease, issued, ended>>
  BY DEF Restart
<1> QED
  BY <1>1 DEF LeaseInv, OneAtATime, Working, Pending, Numbered, LeaseStaysReleasable

\* Every step keeps LeaseInv.
LEMMA NextLease ==
  ASSUME LeaseInv, ~Contended, [Next]_vars
  PROVE  LeaseInv'
<1>1. TypeOK'
  BY NextType DEF LeaseInv
<1>2. ASSUME NEW c \in Call, Handle(c) PROVE LeaseInv'
  <2>1. ASSUME NEW op \in Op, NEW a \in Agent, NEW k \in Card, NEW n \in Name,
               Ask(c, op, a, k, n) \/ Present(c, op, a, k, n)
        PROVE  LeaseInv'
    BY <1>1, <2>1, BeginLease DEF Ask, Present
  <2>2. CASE Fail(c) \/ Extended(c)
    <3>1. Working(c)
      BY <2>2 DEF Fail, Extended, Requesting, Working
    <3> QED
      BY <1>1, <2>2, <3>1, ReturnLease DEF Fail, Extended
  <2>3. ASSUME NEW delivered \in BOOLEAN, NEW named \in ProjectNamed,
               Grant(c, delivered, named)
        PROVE  LeaseInv'
    BY <1>1, <2>3, GrantLease
  <2>4. ASSUME NEW delivered \in BOOLEAN,
               Released(c, delivered) \/ CommandReleased(c, delivered)
        PROVE  LeaseInv'
    BY <1>1, <2>4, EndLeaseLease DEF Released, CommandReleased, Requesting
  <2>5. CASE StoreToken(c) \/ StoreProject(c) \/ StoreTask(c)
    BY <1>1, <2>5, StoreLease
  <2>6. CASE Forget(c)
    BY <1>1, <2>6, ForgetLease
  <2>7. CASE Stamp(c) \/ \E a \in Agent : Remember(c, a)
    BY <1>1, <2>7, RememberLease
  <2> QED
    BY <1>2, <2>1, <2>2, <2>3, <2>4, <2>5, <2>6, <2>7 DEF Handle
<1>3. ASSUME NEW k \in Card, Expire(k) PROVE LeaseInv'
  BY <1>1, <1>3, ExpireLease
<1>4. CASE Restart
  BY <1>1, <1>4, RestartLease
<1>5. CASE UNCHANGED vars
  BY <1>1, <1>5 DEF vars, LeaseInv, OneAtATime, Working, Pending, Numbered,
                    LeaseStaysReleasable
<1> QED
  BY <1>2, <1>3, <1>4, <1>5 DEF Next

LEMMA InitLease == ASSUME Init PROVE LeaseInv
BY InitType DEF Init, LeaseInv, OneAtATime, Working, Pending, Numbered,
                LeaseStaysReleasable, TypeOK, Free, None

\* While calls on one card do not overlap, a lease an agent was told of can be
\* released by task_id for as long as it lives, for any number of agents, cards
\* and names.
THEOREM LeaseStaysReleasableHolds ==
  ASSUME ~Contended
  PROVE  Spec => []LeaseStaysReleasable
<1>1. Init => LeaseInv
  BY InitLease
<1>2. LeaseInv /\ [Next]_vars => LeaseInv'
  BY NextLease
<1>3. LeaseInv => LeaseStaysReleasable
  BY DEF LeaseInv
<1> QED
  BY <1>1, <1>2, <1>3, PTL DEF Spec

-----------------------------------------------------------------------------
(* Forgotten tokens, by every name of a card.                              *)

ForgottenInv == LeaseInv /\ ReleasedForgotten

LEMMA NextForgotten ==
  ASSUME ForgottenInv, ~Contended, [Next]_vars
  PROVE  ForgottenInv'
<1>1. LeaseInv'
  BY NextLease DEF ForgottenInv
<1>2. CASE UNCHANGED <<checkouts, ended>>
  BY <1>1, <1>2 DEF ForgottenInv, ReleasedForgotten
<1>3. ASSUME NEW c \in Call, StoreToken(c) PROVE ForgottenInv'
  <2>1. call[c] \in Busy
    BY <1>3 DEF ForgottenInv, LeaseInv, TypeOK, Busy, Stamping, Idle, StoreToken
  <2>2. \A e \in ended[call[c].card] : e.token # call[c].token
    BY <1>3 DEF ForgottenInv, LeaseInv, Pending, StoreToken
  <2> QED
    BY <1>1, <1>3, <2>1, <2>2
       DEF ForgottenInv, LeaseInv, TypeOK, ReleasedForgotten, StoreToken, Busy
<1>4. ASSUME NEW c \in Call, Forget(c) PROVE ForgottenInv'
  <2> DEFINE k == call[c].card
             n == call[c].name
             t == call[c].token
  <2>1. call[c] \in Busy
    BY <1>4 DEF ForgottenInv, LeaseInv, TypeOK, Busy, Stamping, Idle, Forget
  <2>2. k \in Card /\ n \in Name /\ t \in 1 .. issued
    BY <1>4, <2>1 DEF ForgottenInv, LeaseInv, Pending, Forget, Busy
  <2>3. /\ checkouts'[k][n] = None
        /\ \A m \in Name \ {n} : checkouts'[k][m] = checkouts[k][m]
        /\ ended'[k] = ended[k] \cup {[token |-> t, name |-> n]}
        /\ \A q \in Card \ {k} : ended'[q] = ended[q] /\ checkouts'[q] = checkouts[q]
    BY <1>4, <2>2 DEF ForgottenInv, LeaseInv, TypeOK, Forget
  <2>4. \A e \in ended'[k] : e.token # None /\ e.name \in Name
    BY <2>2, <2>3 DEF ForgottenInv, LeaseInv, Numbered, None, TypeOK
  <2>5. \A e \in ended'[k] : checkouts'[k][e.name] # e.token
    BY <2>2, <2>3, <2>4 DEF ForgottenInv, ReleasedForgotten
  <2> QED
    BY <1>1, <2>3, <2>5 DEF ForgottenInv, ReleasedForgotten
<1>5. CASE Restart
  <2>1. \A k \in Card : \A e \in ended[k] : e.token # None /\ e.name \in Name
    BY DEF ForgottenInv, LeaseInv, Numbered, None, TypeOK
  <2> QED
    BY <1>1, <1>5, <2>1 DEF ForgottenInv, ReleasedForgotten, Restart
<1>6. ASSUME NEW c \in Call, Handle(c), ~StoreToken(c), ~Forget(c)
      PROVE  UNCHANGED <<checkouts, ended>>
  BY <1>6 DEF Handle, Ask, Present, Fail, Grant, Extended, Released,
     CommandReleased, EndLease, StoreProject, StoreTask, Remember, Stamp
<1>7. ASSUME NEW k \in Card, Expire(k) PROVE UNCHANGED <<checkouts, ended>>
  BY <1>7 DEF Expire
<1> QED
  BY <1>2, <1>3, <1>4, <1>5, <1>6, <1>7 DEF Next, vars

\* While calls on one card do not overlap, the name by which the end of a lease
\* was reported leads to its token no more, for any number of names.
THEOREM ReleasedForgottenHolds ==
  ASSUME ~Contended
  PROVE  Spec => []ReleasedForgotten
<1>1. Init => ForgottenInv
  BY InitLease DEF Init, ForgottenInv, ReleasedForgotten
<1>2. ForgottenInv /\ [Next]_vars => ForgottenInv'
  BY NextForgotten
<1>3. ForgottenInv => ReleasedForgotten
  BY DEF ForgottenInv
<1> QED
  BY <1>1, <1>2, <1>3, PTL DEF Spec

-----------------------------------------------------------------------------
(* The current project and task of an agent.                               *)

Current(a, s) == IF s = "project" THEN activeProjects[a] ELSE activeTaskIDs[a]

Given(a, s) == recent[a][s] \cup batch[a][s]

\* Call c, a checkout that has its answer, has yet to set s.
Sets(c, s) ==
  /\ call[c].op = "checkout"
  /\ \/ call[c].pc \in {"store", "project"} /\ (s = "project" => call[c].named)
     \/ call[c].pc = "task" /\ s = "task"

\* The project that a remember call has loaded was given to its agent.
ProjectGiven(c) ==
  call[c].pc = "stamp" => call[c].project \in Given(call[c].agent, "project")

Storing(c) == call[c].pc \in {"store", "project", "task"}

\* What a call of the present run was given is known, and when something was
\* given, the current value is of it or will be replaced.
StampInv ==
  /\ TypeOK
  /\ \A c \in Call : Storing(c) => call[c].op = "checkout"
  /\ \A c \in Call, s \in Slot :
       Storing(c) /\ Sets(c, s) => call[c].card \in batch[call[c].agent][s]
  /\ \A a \in Agent, s \in Slot :
       batch[a][s] # {} /\ Current(a, s) \notin batch[a][s] =>
         \E c \in Call : Storing(c) /\ Sets(c, s) /\ call[c].agent = a
  /\ \A a \in Agent, s \in Slot : Current(a, s) \in Given(a, s)
  /\ \A c \in Call : ProjectGiven(c)

\* A step that leaves the history and the current values alone, and what c has
\* yet to set.
LEMMA QuietStamp ==
  ASSUME StampInv, NEW c \in Call, TypeOK',
         \A d \in Call \ {c} : call'[d] = call[d],
         UNCHANGED <<batch, recent, activeProjects, activeTaskIDs>>,
         Storing(c)' <=> Storing(c),
         Storing(c) => /\ call'[c].op = call[c].op
                       /\ call'[c].agent = call[c].agent
                       /\ call'[c].card = call[c].card
                       /\ \A s \in Slot : Sets(c, s)' <=> Sets(c, s),
         call'[c].pc = "stamp" => /\ call'[c].agent \in Agent
                                  /\ call'[c].project = activeProjects[call'[c].agent]
  PROVE  StampInv'
<1>1. \A a, s : Current(a, s)' = Current(a, s) /\ Given(a, s)' = Given(a, s)
  BY DEF Current, Given
<1>2. \A d \in Call \ {c} : (Storing(d)' <=> Storing(d))
                             /\ (\A s \in Slot : Sets(d, s)' <=> Sets(d, s))
  BY DEF Storing, Sets
<1>3. \A d \in Call : Storing(d)' => call'[d].op = "checkout"
  BY <1>2 DEF StampInv
<1>4. \A d \in Call, s \in Slot :
        Storing(d)' /\ Sets(d, s)' => call'[d].card \in batch'[call'[d].agent][s]
  BY <1>2 DEF StampInv
<1>5. ASSUME NEW a \in Agent, NEW s \in Slot,
             batch'[a][s] # {}, Current(a, s)' \notin batch'[a][s]
      PROVE  \E d \in Call : Storing(d)' /\ Sets(d, s)' /\ call'[d].agent = a
  <2>1. PICK d \in Call : Storing(d) /\ Sets(d, s) /\ call[d].agent = a
    BY <1>1, <1>5 DEF StampInv
  <2> QED
    BY <1>2, <2>1
<1>6. \A a \in Agent, s \in Slot : Current(a, s)' \in Given(a, s)'
  BY <1>1 DEF StampInv
<1>7. \A d \in Call : ProjectGiven(d)'
  <2> SUFFICES ASSUME NEW d \in Call PROVE ProjectGiven(d)'
    OBVIOUS
  <2>1. CASE d = c
    BY <1>6, <2>1 DEF Current, Slot, ProjectGiven
  <2>2. CASE d # c
    BY <2>2 DEF StampInv, ProjectGiven, Given
  <2> QED
    BY <2>1, <2>2
<1> QED
  BY <1>3, <1>4, <1>5, <1>6, <1>7 DEF StampInv

\* A call that ends: the last of its run hands what was given over, and nothing
\* is left to be set.
LEMMA ReturnStamp ==
  ASSUME StampInv, NEW c \in Call, TypeOK', InProgress(c), Return(c),
         call[c].pc \notin {"store", "project"},
         \A a \in Agent, s \in Slot :
           \/ Current(a, s)' = Current(a, s) /\ ~(Storing(c) /\ Sets(c, s) /\ call[c].agent = a)
           \/ /\ Storing(c) /\ Sets(c, s) /\ call[c].agent = a
              /\ Current(a, s)' = call[c].card
  PROVE  StampInv'
<1>1. PICK b \in Agent : b = call[c].agent
  BY DEF StampInv, TypeOK, InProgress, Busy, Stamping, Idle
<1>2. /\ call'[c].pc = "idle" /\ \A d \in Call \ {c} : call'[d] = call[d]
  BY DEF StampInv, TypeOK, Return
<1>3. ~Storing(c)' /\ \A d \in Call \ {c} : (Storing(d)' <=> Storing(d))
                        /\ (\A s \in Slot : Sets(d, s)' <=> Sets(d, s))
  BY <1>2 DEF Storing, Sets
<1>4. ASSUME NEW a \in Agent, NEW s \in Slot, batch[a][s] # {},
             Current(a, s)' \notin batch[a][s]
      PROVE  \E d \in Call \ {c} : Storing(d) /\ Sets(d, s) /\ call[d].agent = a
  <2>1. Current(a, s)' = Current(a, s) /\ ~(Storing(c) /\ Sets(c, s) /\ call[c].agent = a)
    BY <1>4 DEF StampInv
  <2>2. PICK d \in Call : Storing(d) /\ Sets(d, s) /\ call[d].agent = a
    BY <1>4, <2>1 DEF StampInv
  <2> QED
    BY <2>1, <2>2
<1>5. \A a \in Agent, s \in Slot : Current(a, s)' \in Given(a, s)
  BY DEF StampInv, Given
<1>6. \A d \in Call : Storing(d)' => call'[d].op = "checkout"
  BY <1>2, <1>3 DEF StampInv
<1>7. CASE \E d \in Call \ {c} : Concerned(d, b)
  <2>1. UNCHANGED <<batch, recent>>
    BY <1>1, <1>7 DEF Return
  <2>2. \A a \in Agent, s \in Slot : Given(a, s)' = Given(a, s)
    BY <2>1 DEF Given
  <2>3. \A d \in Call, s \in Slot :
          Storing(d)' /\ Sets(d, s)' => call'[d].card \in batch'[call'[d].agent][s]
    BY <1>2, <1>3, <2>1 DEF StampInv
  <2>4. ASSUME NEW a \in Agent, NEW s \in Slot,
               batch'[a][s] # {}, Current(a, s)' \notin batch'[a][s]
        PROVE  \E d \in Call : Storing(d)' /\ Sets(d, s)' /\ call'[d].agent = a
    <3>1. PICK d \in Call \ {c} : Storing(d) /\ Sets(d, s) /\ call[d].agent = a
      BY <1>4, <2>1, <2>4
    <3> QED
      BY <1>2, <1>3, <3>1
  <2>5. \A d \in Call : ProjectGiven(d)'
    BY <1>2, <2>1 DEF StampInv, ProjectGiven, Given
  <2> QED
    BY <1>5, <1>6, <2>2, <2>3, <2>4, <2>5 DEF StampInv
<1>8. CASE ~ \E d \in Call \ {c} : Concerned(d, b)
  <2>1. /\ batch' = [batch EXCEPT ![b] = NoCards]
        /\ recent' = [recent EXCEPT ![b] =
             [s \in Slot |-> IF batch[b][s] = {} THEN recent[b][s] ELSE batch[b][s]]]
    BY <1>1, <1>8 DEF Return
  <2>2. \A s \in Slot :
          /\ batch'[b][s] = {}
          /\ Given(b, s)' = IF batch[b][s] = {} THEN recent[b][s] ELSE batch[b][s]
    BY <1>1, <2>1 DEF StampInv, TypeOK, Given, NoCards
  <2>3. \A a \in Agent \ {b}, s \in Slot :
          batch'[a] = batch[a] /\ Given(a, s)' = Given(a, s)
    BY <1>1, <2>1 DEF StampInv, TypeOK, Given
  <2>4. \A d \in Call \ {c} : Storing(d) \/ call[d].pc = "stamp" =>
          call[d].agent \in Agent \ {b}
    <3> SUFFICES ASSUME NEW d \in Call \ {c}, Storing(d) \/ call[d].pc = "stamp"
                 PROVE  call[d].agent \in Agent \ {b}
      OBVIOUS
    <3>1. InProgress(d)
      BY DEF Storing, InProgress
    <3>2. call[d].agent \in Agent
      BY <3>1 DEF StampInv, TypeOK, InProgress, Busy, Stamping, Idle
    <3>3. Concerned(d, call[d].agent)
      BY <3>1 DEF StampInv, Concerned
    <3> QED
      BY <1>8, <3>2, <3>3
  <2>5. \A d \in Call, s \in Slot :
          Storing(d)' /\ Sets(d, s)' => call'[d].card \in batch'[call'[d].agent][s]
    BY <1>2, <1>3, <2>3, <2>4 DEF StampInv
  <2>6. ASSUME NEW a \in Agent, NEW s \in Slot,
               batch'[a][s] # {}, Current(a, s)' \notin batch'[a][s]
        PROVE  \E d \in Call : Storing(d)' /\ Sets(d, s)' /\ call'[d].agent = a
    <3>1. a # b
      BY <2>2, <2>6
    <3>2. PICK d \in Call \ {c} : Storing(d) /\ Sets(d, s) /\ call[d].agent = a
      BY <1>4, <2>3, <2>6, <3>1
    <3> QED
      BY <1>2, <1>3, <3>2
  <2>7. ASSUME NEW a \in Agent, NEW s \in Slot
        PROVE  Current(a, s)' \in Given(a, s)'
    <3>1. CASE a # b
      BY <1>5, <2>3, <3>1
    <3>2. CASE a = b /\ batch[b][s] = {}
      BY <1>5, <2>2, <3>2 DEF Given
    <3>3. CASE a = b /\ batch[b][s] # {}
      <4>1. Current(b, s)' \in batch[b][s]
        BY <1>1, <1>4, <2>4, <3>3
      <4> QED
        BY <2>2, <3>3, <4>1
    <3> QED
      BY <3>1, <3>2, <3>3
  <2>8. \A d \in Call : ProjectGiven(d)'
    BY <1>2, <2>3, <2>4 DEF StampInv, Slot, ProjectGiven
  <2> QED
    BY <1>6, <2>5, <2>6, <2>7, <2>8 DEF StampInv
<1> QED
  BY <1>7, <1>8

\* A checkout that is answered adds its card to what its agent was given.
LEMMA GrantStamp ==
  ASSUME StampInv, TypeOK', NEW c \in Call, NEW named \in ProjectNamed,
         Grant(c, TRUE, named)
  PROVE  StampInv'
<1> DEFINE b == call[c].agent
           k == call[c].card
<1>1. /\ call[c] \in Busy /\ call[c].pc = "request" /\ call[c].op = "checkout"
      /\ b \in Agent /\ k \in Card /\ named \in BOOLEAN
  BY SwitchAssumption DEF StampInv, TypeOK, Busy, Stamping, Idle, Grant, Requesting
<1>2. /\ batch' = [batch EXCEPT ![b] =
           [s \in Slot |-> IF s = "task" \/ named THEN @[s] \cup {k} ELSE @[s]]]
      /\ UNCHANGED <<recent, activeProjects, activeTaskIDs>>
  BY DEF Grant
<1>3. /\ call'[c].pc = "store" /\ call'[c].op = "checkout" /\ call'[c].agent = b
      /\ call'[c].card = k /\ call'[c].named = named
      /\ \A d \in Call \ {c} : call'[d] = call[d]
  BY <1>1 DEF StampInv, TypeOK, Grant, Busy
<1>4. /\ \A s \in Slot :
           batch'[b][s] = IF s = "task" \/ named THEN batch[b][s] \cup {k} ELSE batch[b][s]
      /\ \A a \in Agent \ {b} : batch'[a] = batch[a]
  BY <1>1, <1>2 DEF StampInv, TypeOK
<1>5. \A a \in Agent, s \in Slot : batch[a][s] \subseteq batch'[a][s]
  BY <1>4
<1>6. /\ \A a \in Agent, s \in Slot :
           Current(a, s)' = Current(a, s) /\ Given(a, s) \subseteq Given(a, s)'
  BY <1>2, <1>5 DEF Current, Given
<1>7. /\ ~Storing(c) /\ Storing(c)'
      /\ \A s \in Slot : Sets(c, s)' <=> (s = "task" \/ named)
      /\ \A d \in Call \ {c} : (Storing(d)' <=> Storing(d))
                               /\ (\A s \in Slot : Sets(d, s)' <=> Sets(d, s))
  BY <1>1, <1>3 DEF Storing, Sets, Slot
<1>8. \A d \in Call : Storing(d) => call[d].agent \in Agent
  BY DEF StampInv, TypeOK, Storing, Busy, Stamping, Idle
<1>9. \A d \in Call : Storing(d)' => call'[d].op = "checkout"
  BY <1>3, <1>7 DEF StampInv
<1>10. \A d \in Call, s \in Slot :
         Storing(d)' /\ Sets(d, s)' => call'[d].card \in batch'[call'[d].agent][s]
  <2> SUFFICES ASSUME NEW d \in Call, NEW s \in Slot, Storing(d)', Sets(d, s)'
               PROVE  call'[d].card \in batch'[call'[d].agent][s]
    OBVIOUS
  <2>1. CASE d = c
    BY <1>3, <1>4, <1>7, <2>1
  <2>2. CASE d # c
    BY <1>3, <1>5, <1>7, <1>8, <2>2 DEF StampInv
  <2> QED
    BY <2>1, <2>2
<1>11. ASSUME NEW a \in Agent, NEW s \in Slot,
              batch'[a][s] # {}, Current(a, s)' \notin batch'[a][s]
       PROVE  \E d \in Call : Storing(d)' /\ Sets(d, s)' /\ call'[d].agent = a
  <2>1. CASE a = b /\ (s = "task" \/ named)
    BY <1>3, <1>7, <2>1
  <2>2. CASE ~(a = b /\ (s = "task" \/ named))
    <3>1. batch'[a][s] = batch[a][s]
      BY <1>4, <2>2
    <3>2. PICK d \in Call : Storing(d) /\ Sets(d, s) /\ call[d].agent = a
      BY <1>6, <1>11, <3>1 DEF StampInv
    <3> QED
      BY <1>3, <1>7, <3>2
  <2> QED
    BY <2>1, <2>2
<1>12. \A a \in Agent, s \in Slot : Current(a, s)' \in Given(a, s)'
  BY <1>6 DEF StampInv
<1>13. \A d \in Call : ProjectGiven(d)'
  <2>1. \A d \in Call : call[d].pc = "stamp" => call[d].agent \in Agent
    BY DEF StampInv, TypeOK, Busy, Stamping, Idle
  <2> QED
    BY <1>3, <1>6, <2>1 DEF StampInv, Slot, ProjectGiven
<1> QED
  BY <1>9, <1>10, <1>11, <1>12, <1>13 DEF StampInv

\* The project is set, to a card that was given.
LEMMA ProjectStamp ==
  ASSUME StampInv, TypeOK', NEW c \in Call, StoreProject(c)
  PROVE  StampInv'
<1>a. PICK b \in Agent : b = call[c].agent
  BY DEF StampInv, TypeOK, Busy, Stamping, Idle, StoreProject
<1>k. PICK k \in Card : k = call[c].card
  BY DEF StampInv, TypeOK, Busy, Stamping, Idle, StoreProject
<1>1. /\ call[c] \in Busy /\ call[c].pc = "project" /\ Storing(c)
      /\ call[c].agent = b /\ call[c].card = k /\ call[c].op = "checkout"
  BY <1>a, <1>k DEF StampInv, TypeOK, Busy, Stamping, Idle, StoreProject, Storing
<1>2. /\ activeProjects' = [activeProjects EXCEPT ![b] = IF call[c].named THEN k ELSE @]
      /\ UNCHANGED <<batch, recent, activeTaskIDs>>
  BY <1>1 DEF StoreProject
<1>3. /\ call'[c].pc = "task" /\ call'[c].op = "checkout" /\ call'[c].agent = b
      /\ call'[c].card = k
      /\ \A d \in Call \ {c} : call'[d] = call[d]
  BY <1>1 DEF StampInv, TypeOK, StoreProject, Busy
<1>4. /\ \A a, s : Given(a, s)' = Given(a, s)
      /\ \A a \in Agent : Current(a, "task")' = Current(a, "task")
      /\ \A a \in Agent \ {b} : Current(a, "project")' = Current(a, "project")
      /\ Current(b, "project")' = IF call[c].named THEN k ELSE Current(b, "project")
  BY <1>1, <1>2 DEF StampInv, TypeOK, Given, Current
<1>5. /\ Storing(c)' /\ Sets(c, "task") /\ Sets(c, "task")' /\ ~Sets(c, "project")'
      /\ Sets(c, "project") <=> call[c].named
      /\ \A d \in Call \ {c} : (Storing(d)' <=> Storing(d))
                               /\ (\A s \in Slot : Sets(d, s)' <=> Sets(d, s))
  BY <1>1, <1>3 DEF Storing, Sets
<1>6. call[c].named => k \in batch[b]["project"]
  BY <1>1, <1>5 DEF StampInv, Slot
<1>7. \A d \in Call : Storing(d)' => call'[d].op = "checkout"
  BY <1>3, <1>5 DEF StampInv
<1>8. \A d \in Call, s \in Slot :
        Storing(d)' /\ Sets(d, s)' => call'[d].card \in batch'[call'[d].agent][s]
  BY <1>1, <1>2, <1>3, <1>5 DEF StampInv, Slot
<1>9. ASSUME NEW a \in Agent, NEW s \in Slot,
             batch'[a][s] # {}, Current(a, s)' \notin batch'[a][s]
      PROVE  \E d \in Call : Storing(d)' /\ Sets(d, s)' /\ call'[d].agent = a
  <2>1. Current(a, s)' = Current(a, s) /\ ~(a = b /\ s = "project" /\ call[c].named)
    BY <1>2, <1>4, <1>6, <1>9 DEF Slot
  <2>2. PICK d \in Call : Storing(d) /\ Sets(d, s) /\ call[d].agent = a
    BY <1>2, <1>9, <2>1 DEF StampInv
  <2>3. CASE d = c
    <3>1. a = b
      BY <1>1, <2>2, <2>3
    <3>2. s = "task"
      BY <1>5, <2>1, <2>2, <2>3, <3>1 DEF Slot
    <3> QED
      BY <1>3, <1>5, <3>1, <3>2
  <2>4. CASE d # c
    BY <1>3, <1>5, <2>2, <2>4
  <2> QED
    BY <2>3, <2>4
<1>10. \A a \in Agent, s \in Slot : Current(a, s)' \in Given(a, s)'
  <2> SUFFICES ASSUME NEW a \in Agent, NEW s \in Slot
               PROVE  Current(a, s)' \in Given(a, s)
    BY <1>4
  <2>1. CASE a = b /\ s = "project" /\ call[c].named
    BY <1>4, <1>6, <2>1 DEF Given
  <2>2. CASE ~(a = b /\ s = "project" /\ call[c].named)
    BY <1>4, <2>2 DEF StampInv, Slot
  <2> QED
    BY <2>1, <2>2
<1>11. \A d \in Call : ProjectGiven(d)'
  BY <1>3, <1>2 DEF StampInv, ProjectGiven, Given
<1> QED
  BY <1>7, <1>8, <1>9, <1>10, <1>11 DEF StampInv

LEMMA HandleStamp ==
  ASSUME StampInv, NEW c \in Call, Handle(c)
  PROVE  StampInv'
<1>1. TypeOK'
  BY HandleType DEF StampInv
<1>2. ASSUME NEW op \in Op, NEW a \in Agent, NEW k \in Card, NEW n \in Name,
             Ask(c, op, a, k, n) \/ Present(c, op, a, k, n)
      PROVE  StampInv'
  <2>1. /\ call[c].pc = "idle" /\ call'[c].pc = "request"
        /\ \A d \in Call \ {c} : call'[d] = call[d]
        /\ UNCHANGED <<batch, recent, activeProjects, activeTaskIDs>>
    BY <1>2 DEF StampInv, TypeOK, Ask, Present, Begin, InProgress
  <2> QED
    BY <1>1, <2>1, QuietStamp DEF Storing
<1>3. CASE Fail(c) \/ Extended(c) \/ Forget(c) \/ Stamp(c)
  <2>1. /\ InProgress(c) /\ Return(c) /\ ~Storing(c)
        /\ call[c].pc \notin {"store", "project"}
        /\ UNCHANGED <<activeProjects, activeTaskIDs>>
    BY <1>3 DEF Fail, Extended, Forget, Stamp, Requesting, InProgress, Storing
  <2> QED
    BY <1>1, <2>1, ReturnStamp DEF Current
<1>4. ASSUME NEW delivered \in BOOLEAN, NEW named \in ProjectNamed,
             Grant(c, delivered, named)
      PROVE  StampInv'
  <2>1. CASE delivered
    BY <1>1, <1>4, <2>1, GrantStamp
  <2>2. CASE ~delivered
    <3>1. /\ InProgress(c) /\ Return(c) /\ ~Storing(c)
          /\ call[c].pc \notin {"store", "project"}
          /\ UNCHANGED <<activeProjects, activeTaskIDs>>
      BY <1>4, <2>2 DEF Grant, Requesting, InProgress, Storing
    <3> QED
      BY <1>1, <3>1, ReturnStamp DEF Current
  <2> QED
    BY <2>1, <2>2
<1>5. ASSUME NEW delivered \in BOOLEAN,
             Released(c, delivered) \/ CommandReleased(c, delivered)
      PROVE  StampInv'
  <2>1. /\ call[c].pc = "request" /\ EndLease(c, delivered)
        /\ UNCHANGED <<activeProjects, activeTaskIDs>>
    BY <1>5 DEF Released, CommandReleased, Requesting, EndLease
  <2>2. CASE delivered
    <3>1. /\ call'[c].pc = "forget" /\ \A d \in Call \ {c} : call'[d] = call[d]
          /\ UNCHANGED <<batch, recent>>
      BY <2>1, <2>2 DEF StampInv, TypeOK, EndLease, Busy, Stamping, Idle
    <3> QED
      BY <1>1, <2>1, <3>1, QuietStamp DEF Storing
  <2>3. CASE ~delivered
    <3>1. InProgress(c) /\ Return(c) /\ ~Storing(c)
      BY <2>1, <2>3 DEF EndLease, InProgress, Storing
    <3> QED
      BY <1>1, <2>1, <3>1, ReturnStamp DEF Current
  <2> QED
    BY <2>2, <2>3
<1>6. CASE StoreToken(c)
  <2>1. call[c] \in Busy /\ call[c].pc = "store"
    BY <1>6 DEF StampInv, TypeOK, Busy, Stamping, Idle, StoreToken
  <2>2. /\ call'[c].pc = "project" /\ call'[c].op = call[c].op
        /\ call'[c].agent = call[c].agent /\ call'[c].card = call[c].card
        /\ call'[c].named = call[c].named
        /\ \A d \in Call \ {c} : call'[d] = call[d]
        /\ UNCHANGED <<batch, recent, activeProjects, activeTaskIDs>>
    BY <1>6, <2>1 DEF StampInv, TypeOK, StoreToken, Busy
  <2> QED
    BY <1>1, <2>1, <2>2, QuietStamp DEF Storing, Sets
<1>7. CASE StoreProject(c)
  BY <1>1, <1>7, ProjectStamp
<1>8. CASE StoreTask(c)
  <2> DEFINE b == call[c].agent
  <2>1. /\ call[c] \in Busy /\ call[c].pc = "task" /\ InProgress(c) /\ Storing(c)
        /\ Return(c) /\ b \in Agent /\ call[c].op = "checkout"
    BY <1>8 DEF StampInv, TypeOK, Busy, Stamping, Idle, StoreTask, InProgress, Storing
  <2>2. /\ activeTaskIDs'[b] = call[c].card
        /\ \A a \in Agent \ {b} : activeTaskIDs'[a] = activeTaskIDs[a]
        /\ UNCHANGED activeProjects
    BY <1>8, <2>1 DEF StampInv, TypeOK, StoreTask
  <2>3. \A s \in Slot : Sets(c, s) <=> s = "task"
    BY <2>1 DEF Sets
  <2>4. \A a \in Agent, s \in Slot :
          \/ Current(a, s)' = Current(a, s)
               /\ ~(Storing(c) /\ Sets(c, s) /\ call[c].agent = a)
          \/ /\ Storing(c) /\ Sets(c, s) /\ call[c].agent = a
             /\ Current(a, s)' = call[c].card
    BY <2>1, <2>2, <2>3 DEF Current, Slot
  <2> QED
    BY <1>1, <2>1, <2>4, ReturnStamp
<1>9. ASSUME NEW a \in Agent, Remember(c, a)
      PROVE  StampInv'
  <2>1. /\ call[c].pc = "idle" /\ call'[c].pc = "stamp" /\ call'[c].agent = a
        /\ call'[c].project = activeProjects[a]
        /\ \A d \in Call \ {c} : call'[d] = call[d]
        /\ UNCHANGED <<batch, recent, activeProjects, activeTaskIDs>>
    BY <1>9 DEF StampInv, TypeOK, Remember, InProgress
  <2> QED
    BY <1>1, <2>1, QuietStamp DEF Storing
<1> QED
  BY <1>2, <1>3, <1>4, <1>5, <1>6, <1>7, <1>8, <1>9 DEF Handle

\* Every step keeps StampInv.
LEMMA NextStamp ==
  ASSUME StampInv, [Next]_vars
  PROVE  StampInv'
<1>1. TypeOK'
  BY NextType DEF StampInv
<1>2. ASSUME NEW c \in Call, Handle(c) PROVE StampInv'
  BY <1>2, HandleStamp
<1>3. ASSUME UNCHANGED <<call, activeProjects, activeTaskIDs, batch, recent>>
      PROVE  StampInv'
  BY <1>1, <1>3 DEF StampInv, Storing, Sets, Current, Given, ProjectGiven
<1>4. CASE Restart
  <2>1. /\ \A c \in Call : call'[c].pc = "idle"
        /\ \A a \in Agent, s \in Slot : batch'[a][s] = {} /\ recent'[a][s] = {NoCard}
        /\ \A a \in Agent : activeProjects'[a] = NoCard /\ activeTaskIDs'[a] = NoCard
    BY <1>4 DEF Restart, NoCards
  <2> QED
    BY <1>1, <2>1 DEF StampInv, Storing, Current, Given, ProjectGiven
<1> QED
  BY <1>2, <1>3, <1>4 DEF Next, vars, Expire

\* However the calls of an agent overlap, and whether or not the Mesh API names
\* the project, a memory is stamped with what its author's last checkouts gave.
THEOREM StampOfLastCheckoutHolds == Spec => []StampOfLastCheckout
<1>1. Init => StampInv
  <2> SUFFICES ASSUME Init PROVE StampInv
    OBVIOUS
  <2>1. /\ \A c \in Call : call[c].pc = "idle"
        /\ \A a \in Agent, s \in Slot : batch[a][s] = {} /\ recent[a][s] = {NoCard}
        /\ \A a \in Agent : activeProjects[a] = NoCard /\ activeTaskIDs[a] = NoCard
    BY DEF Init, NoCards
  <2> QED
    BY <2>1, InitType DEF StampInv, Storing, Current, Given, ProjectGiven
<1>2. StampInv /\ [Next]_vars => StampInv'
  BY NextStamp
<1>3. StampInv => StampOfLastCheckout
  <2> SUFFICES ASSUME StampInv, NEW c \in Call, call[c].pc = "stamp"
               PROVE  LET a == call[c].agent
                      IN /\ call[c].project \in Given(a, "project")
                         /\ activeTaskIDs[a] \in Given(a, "task")
    BY DEF StampOfLastCheckout, Given
  <2>1. call[c].agent \in Agent
    BY DEF StampInv, TypeOK, Busy, Stamping, Idle
  <2> QED
    BY <2>1 DEF StampInv, Slot, Current, ProjectGiven
<1> QED
  BY <1>1, <1>2, <1>3, PTL DEF Spec

=============================================================================
