--------------------------- MODULE AuthGateProofs ---------------------------
(***************************************************************************)
(* What holds of AuthGate for every set of requests, credentials and       *)
(* addresses and every choice of the time constants.                       *)
(***************************************************************************)
EXTENDS AuthGate, FiniteSetTheorems, TLAPS

(* How the four ways a request moves on preserve the type of req. *)

LEMMA WindowType == ASSUME NEW t \in Nat PROVE Window(t) \in Nat
  BY TimeAssumption, SMT DEF Window

LEMMA WindowMonotone ==
  ASSUME NEW t \in Nat
  PROVE  Window(t) <= Window(t + 1)
<1> DEFINE p == Window(t)
           q == Window(t + 1)
<1>1. p \in Nat /\ q \in Nat
  BY WindowType
<1>2. Minute * p <= t /\ t + 1 < Minute * (q + 1)
  BY TimeAssumption, SMT DEF Window
<1>3. ASSUME q + 1 <= p
      PROVE  FALSE
  <2>1. Minute * (q + 1) <= Minute * p
    BY <1>1, <1>3, TimeAssumption, SMT
  <2>2. Minute * (q + 1) \in Nat /\ Minute * p \in Nat
    BY <1>1, TimeAssumption, SMT
  <2>3. QED
    BY <1>2, <2>1, <2>2
<1>4. QED
  BY <1>1, <1>3

LEMMA TTLType == ASSUME NEW k \in Key PROVE EntryTTL(k) \in Nat \ {0}
  BY TimeAssumption DEF EntryTTL

LEMMA ActiveRequest ==
  ASSUME TypeOK, NEW r \in Req, req[r].pc # "done"
  PROVE  req[r] \in Active
  BY DEF TypeOK, Ended

LEMMA GotoType ==
  ASSUME TypeOK, NEW r \in Req, req[r].pc # "done", NEW pc \in Step, Goto(r, pc)
  PROVE  /\ req' \in [Req -> Active \cup Ended]
         /\ req'[r] = [req[r] EXCEPT !.pc = pc, !.since = now]
         /\ req'[r].pc = pc
         /\ \A q \in Req \ {r} : req'[q] = req[q]
  <1>1. req[r] \in Active
    BY ActiveRequest
  <1>2. [req[r] EXCEPT !.pc = pc, !.since = now] \in Active
    BY <1>1 DEF Active, TypeOK
  <1>3. [req[r] EXCEPT !.pc = pc, !.since = now].pc = pc
    BY <1>1 DEF Active
  <1>4. QED
    BY <1>2, <1>3 DEF Goto, TypeOK

LEMMA AnswerType ==
  ASSUME TypeOK, NEW r \in Req, NEW reply \in Reply, Answer(r, reply)
  PROVE  /\ req' \in [Req -> Active \cup Ended]
         /\ req'[r] = [pc |-> "done", reply |-> reply]
         /\ \A q \in Req \ {r} : req'[q] = req[q]
  BY DEF Answer, TypeOK, Ended

LEMMA AdmitType ==
  ASSUME TypeOK, NEW r \in Req, req[r].pc # "done", NEW e \in Nat, Admit(r, e)
  PROVE  /\ req' \in [Req -> Active \cup Ended]
         /\ \/ /\ req[r].pass = "gate"
               /\ req'[r].pc = "lookup"
               /\ req'[r] = [req[r] EXCEPT !.pc = "lookup", !.pass = "context",
                                           !.since = now, !.until = e]
            \/ req'[r] = [pc |-> "done", reply |-> "session"]
         /\ req'[r].pc \in {"lookup", "done"}
         /\ \A q \in Req \ {r} : req'[q] = req[q]
  <1>1. req[r] \in Active
    BY ActiveRequest
  <1>2. CASE req[r].pass = "gate" /\ req[r].via # "sse"
    <2>1. [req[r] EXCEPT !.pc = "lookup", !.pass = "context",
                         !.since = now, !.until = e] \in Active
      BY <1>1 DEF Active, TypeOK, Step, Pass
    <2>2. [req[r] EXCEPT !.pc = "lookup", !.pass = "context",
                         !.since = now, !.until = e].pc = "lookup"
      BY <1>1 DEF Active
    <2>3. QED
      BY <1>2, <2>1, <2>2 DEF Admit, TypeOK
  <1>3. CASE ~(req[r].pass = "gate" /\ req[r].via # "sse")
    <2>1. Answer(r, "session")
      BY <1>3 DEF Admit
    <2>2. QED
      BY <2>1, AnswerType DEF Reply
  <1>4. QED
    BY <1>2, <1>3

LEMMA RefuseType ==
  ASSUME TypeOK, NEW r \in Req, req[r].pc # "done",
         NEW isRejection \in BOOLEAN, Refuse(r, isRejection)
  PROVE  /\ req' \in [Req -> Active \cup Ended]
         /\ \/ /\ req[r].pass = "context"
               /\ req'[r] = [pc |-> "done", reply |-> "anonymous"]
            \/ req'[r] \in [pc: {"done"}, reply: {"403", "503"}]
            \/ /\ isRejection
               /\ req'[r].pc = "penalty"
               /\ req'[r] = [req[r] EXCEPT !.pc = "penalty", !.since = now]
         /\ req'[r].pc \in {"done", "penalty"}
         /\ \A q \in Req \ {r} : req'[q] = req[q]
  <1>1. CASE req[r].pass = "context"
    BY <1>1, AnswerType DEF Refuse, Reply
  <1>2. CASE req[r].pass # "context" /\ ~ViaOAuth(r)
    BY <1>2, AnswerType DEF Refuse, Reply
  <1>3. CASE req[r].pass # "context" /\ ViaOAuth(r) /\ isRejection
    BY <1>3, GotoType DEF Refuse, Step
  <1>4. CASE req[r].pass # "context" /\ ViaOAuth(r) /\ ~isRejection
    BY <1>4, AnswerType DEF Refuse, Reply
  <1>5. QED
    BY <1>1, <1>2, <1>3, <1>4

LEMMA ChargedType ==
  ASSUME TypeOK, NEW ip \in IP, NEW w \in Nat
  PROVE  Charged(ip, w) \in [window: Int, count: Nat]
  BY DEF Charged, TypeOK

LEMMA MeetsType ==
  ASSUME TypeOK, NEW r \in Req, NEW t \in Nat, Meets(r, t)
  PROVE  late' \in [IP -> SUBSET Req]
  BY DEF Meets, TypeOK

-----------------------------------------------------------------------------
(* Type correctness.                                                       *)

LEMMA InitType == Init => TypeOK
  BY TimeAssumption DEF Init, TypeOK, Epoch, Absent, NoBucket, Ended, Reply

LEMMA NextType == TypeOK /\ [Next]_vars => TypeOK'
<1> SUFFICES ASSUME TypeOK, [Next]_vars
             PROVE  TypeOK'
  OBVIOUS
<1>1. ASSUME NEW r \in Req, NEW via \in Via, NEW k \in Key, NEW ip \in IP,
             Arrive(r, via, k, ip)
      PROVE  TypeOK'
  <2>1. [pc |-> IF via = "message" THEN "lookup" ELSE "peek",
         via |-> via, key |-> k, ip |-> ip,
         pass |-> IF via = "message" THEN "context" ELSE "gate",
         verdict |-> "none", since |-> now, until |-> 0] \in Active
    BY DEF Active, Step, Pass, Verdict, TypeOK
  <2>2. req' \in [Req -> Active \cup Ended]
    BY <1>1, <2>1 DEF Arrive, TypeOK
  <2>3. QED
    BY <1>1, <2>2 DEF Arrive, TypeOK, history
<1>2. ASSUME NEW r \in Req, PeekValid(r)
      PROVE  TypeOK'
  <2>1. req' \in [Req -> Active \cup Ended]
    <3>1. PICK pc \in Step : Goto(r, pc)
      BY <1>2 DEF PeekValid, Step
    <3>2. QED
      BY <1>2, <3>1, GotoType DEF PeekValid
  <2>2. QED
    BY <1>2, <2>1 DEF PeekValid, TypeOK, history
<1>3. ASSUME NEW r \in Req, Allow(r)
      PROVE  TypeOK'
  <2>1. req[r] \in Active /\ req[r].pc # "done"
    BY <1>3, ActiveRequest DEF Allow
  <2>2. Goto(r, "lookup") \/ Answer(r, "429")
    BY <1>3 DEF Allow
  <2>3. req' \in [Req -> Active \cup Ended]
    BY <2>1, <2>2, GotoType, AnswerType DEF Step, Reply
  <2>4. PICK t \in ClockRead(r) :
          /\ Meets(r, t)
          /\ \/ UNCHANGED bucket
             \/ bucket' = [bucket EXCEPT ![req[r].ip] = Charged(req[r].ip, Window(t))]
    BY <1>3 DEF Allow
  <2>5. Charged(req[r].ip, Window(t)) \in [window: Int, count: Nat]
    <3>1. t \in Nat /\ req[r].ip \in IP
      BY <2>1 DEF ClockRead, Active, TypeOK
    <3>2. QED
      BY <3>1, WindowType, ChargedType
  <2>6. bucket' \in [IP -> [window: Int, count: Nat]]
    BY <2>4, <2>5 DEF TypeOK
  <2>7. granted' \in [IP -> Nat]
    BY <1>3, <2>1 DEF Allow, TypeOK, Active
  <2>8. late' \in [IP -> SUBSET Req]
    BY <2>1, <2>4, MeetsType DEF ClockRead, Active, TypeOK
  <2>9. QED
    BY <1>3, <2>3, <2>6, <2>7, <2>8 DEF Allow, TypeOK
<1>4. ASSUME NEW r \in Req, ConsultBudget(r)
      PROVE  TypeOK'
  <2>1. Goto(r, "lookup") \/ Answer(r, "429")
    BY <1>4 DEF ConsultBudget
  <2>2. req' \in [Req -> Active \cup Ended]
    BY <1>4, <2>1, GotoType, AnswerType DEF ConsultBudget, Step, Reply
  <2>3. late' \in [IP -> SUBSET Req]
    BY <1>4, ActiveRequest, MeetsType DEF ConsultBudget, ClockRead, Active, TypeOK
  <2>4. QED
    BY <1>4, <2>2, <2>3 DEF ConsultBudget, TypeOK
<1>5. ASSUME NEW r \in Req, Lookup(r)
      PROVE  TypeOK'
  <2>1. req[r] \in Active /\ req[r].pc # "done"
    BY <1>5, ActiveRequest DEF Lookup
  <2>2. cache[req[r].key] \in Nat
    BY <2>1 DEF Active, TypeOK
  <2>3. \/ Admit(r, cache[req[r].key])
        \/ Refuse(r, TRUE)
        \/ Goto(r, "asking")
    BY <1>5 DEF Lookup
  <2>4. req' \in [Req -> Active \cup Ended]
    BY <2>1, <2>2, <2>3, AdmitType, RefuseType, GotoType DEF Step
  <2>5. QED
    BY <1>5, <2>4 DEF Lookup, TypeOK, history
<1>6. ASSUME NEW r \in Req, Ask(r)
      PROVE  TypeOK'
  <2>1. req[r] \in Active
    BY <1>6, ActiveRequest DEF Ask
  <2>2. PICK v \in Verdict :
          req' = [req EXCEPT ![r].pc = "landing", ![r].since = now, ![r].verdict = v]
    BY <1>6 DEF Ask, Verdict
  <2>3. [req[r] EXCEPT !.pc = "landing", !.since = now, !.verdict = v] \in Active
    BY <2>1 DEF Active, Step, TypeOK
  <2>4. QED
    BY <1>6, <2>2, <2>3 DEF Ask, TypeOK, history
<1>7. ASSUME NEW r \in Req, LandValid(r)
      PROVE  TypeOK'
  <2>1. req[r] \in Active /\ req[r].pc # "done"
    BY <1>7, ActiveRequest DEF LandValid
  <2>2. now + EntryTTL(req[r].key) \in Nat
    BY <2>1, TTLType DEF Active, TypeOK
  <2>3. req' \in [Req -> Active \cup Ended]
    BY <1>7, <2>1, <2>2, AdmitType DEF LandValid
  <2>4. cache' \in [Key -> Nat] /\ negCache' \in [Key -> Nat]
    BY <1>7, <2>2 DEF LandValid, TypeOK, Absent
  <2>5. QED
    BY <1>7, <2>3, <2>4 DEF LandValid, TypeOK, history
<1>8. ASSUME NEW r \in Req, LandRejected(r)
      PROVE  TypeOK'
  <2>1. req' \in [Req -> Active \cup Ended]
    BY <1>8, RefuseType DEF LandRejected
  <2>2. now + FailTTL \in Nat
    BY TimeAssumption DEF TypeOK
  <2>3. negCache' \in [Key -> Nat]
    BY <1>8, <2>2 DEF LandRejected, TypeOK
  <2>4. QED
    BY <1>8, <2>1, <2>3 DEF LandRejected, TypeOK, history
<1>9. ASSUME NEW r \in Req, LandInconclusive(r)
      PROVE  TypeOK'
  <2>1. req' \in [Req -> Active \cup Ended]
    BY <1>9, RefuseType DEF LandInconclusive
  <2>2. QED
    BY <1>9, <2>1 DEF LandInconclusive, TypeOK, history
<1>10. ASSUME NEW r \in Req, Penalise(r)
       PROVE  TypeOK'
  <2>1. req[r] \in Active
    BY <1>10, ActiveRequest DEF Penalise
  <2>2. req' \in [Req -> Active \cup Ended]
    BY <1>10, AnswerType DEF Penalise, Reply
  <2>3. PICK t \in ClockRead(r) :
          /\ Meets(r, t)
          /\ \/ UNCHANGED bucket
             \/ bucket' = [bucket EXCEPT ![req[r].ip] = Charged(req[r].ip, Window(t))]
    BY <1>10 DEF Penalise
  <2>4. Charged(req[r].ip, Window(t)) \in [window: Int, count: Nat]
    <3>1. t \in Nat /\ req[r].ip \in IP
      BY <2>1 DEF ClockRead, Active, TypeOK
    <3>2. QED
      BY <3>1, WindowType, ChargedType
  <2>5. bucket' \in [IP -> [window: Int, count: Nat]]
    BY <2>3, <2>4 DEF TypeOK
  <2>6. punished' \in [IP -> Nat]
    BY <1>10, <2>1 DEF Penalise, TypeOK, Active
  <2>7. late' \in [IP -> SUBSET Req]
    BY <2>1, <2>3, MeetsType DEF ClockRead, Active, TypeOK
  <2>8. QED
    BY <1>10, <2>2, <2>5, <2>6, <2>7 DEF Penalise, TypeOK
<1>11. CASE EvictExpired
  BY <1>11 DEF EvictExpired, Unexpired, Absent, TypeOK, history
<1>12. CASE EvictIdle
  BY <1>12 DEF EvictIdle, NoBucket, TypeOK, history
<1>13. ASSUME NEW k \in Key, Switch(k)
       PROVE  TypeOK'
  BY <1>13 DEF Switch, TypeOK
<1>14. CASE Tick
  BY <1>14 DEF Tick, TypeOK
<1>15. CASE UNCHANGED vars
  BY <1>15 DEF vars, TypeOK
<1>16. QED
  BY <1>1, <1>2, <1>3, <1>4, <1>5, <1>6, <1>7, <1>8, <1>9, <1>10, <1>11, <1>12,
     <1>13, <1>14, <1>15 DEF Next, Serve

\* Every behaviour of the front door keeps its variables well typed.
THEOREM TypeCorrect == Spec => []TypeOK
  BY InitType, NextType, PTL DEF Spec

-----------------------------------------------------------------------------
(* How far a cached verdict lags behind the Mesh API.                      *)

\* No entry outlives the last instant at which the Mesh API said the same by
\* more than a flight and its TTL, and a verdict on its way is no older than
\* Flight and was true when it was given.
TrustInv ==
  /\ \A k \in Key :
       /\ switched[k] <= now
       /\ cache[k] <= LastGood(k) + Flight + EntryTTL(k)
       /\ negCache[k] <= LastBad(k) + Flight + FailTTL
  /\ \A r \in Req : req[r].pc = "landing" =>
       /\ now <= req[r].since + Flight
       /\ req[r].verdict = "valid" => req[r].since <= LastGood(req[r].key)
       /\ req[r].verdict = "rejected" => req[r].since <= LastBad(req[r].key)

LEMMA OthersUnmoved ==
  ASSUME TypeOK, NEW q \in Req, Serve(q)
  PROVE  \A r \in Req \ {q} : req'[r] = req[r]
BY DEF Serve, Arrive, PeekValid, Allow, ConsultBudget, Lookup, Ask, LandValid,
       LandRejected, LandInconclusive, Penalise, Admit, Refuse, Goto, Answer, TypeOK

LEMMA LastType ==
  ASSUME TypeOK, NEW k \in Key
  PROVE  LastGood(k) \in Nat /\ LastBad(k) \in Nat
  BY DEF LastGood, LastBad, TypeOK

\* The last instants of acceptance and of refusal never move back.
LEMMA LastMonotone ==
  ASSUME TypeOK, TrustInv, [Next]_vars, NEW k \in Key
  PROVE  /\ LastGood(k)' >= LastGood(k)
         /\ LastBad(k)' >= LastBad(k)
         /\ now' >= now
         /\ switched'[k] <= now'
<1> USE DEF TypeOK, TrustInv, LastGood, LastBad
<1>1. CASE \E r \in Req : Serve(r)
  <2>1. UNCHANGED <<now, mesh, switched>>
    BY <1>1 DEF Serve, Arrive, PeekValid, Allow, ConsultBudget, Lookup, Ask,
                LandValid, LandRejected, LandInconclusive, Penalise, history
  <2>2. QED
    BY <2>1
<1>2. CASE EvictExpired \/ EvictIdle
  BY <1>2 DEF EvictExpired, EvictIdle, history
<1>3. ASSUME NEW c \in Key, Switch(c)
      PROVE  /\ LastGood(k)' >= LastGood(k)
             /\ LastBad(k)' >= LastBad(k)
             /\ now' >= now
             /\ switched'[k] <= now'
  BY <1>3 DEF Switch
<1>4. CASE Tick
  BY <1>4 DEF Tick
<1>5. CASE UNCHANGED vars
  BY <1>5 DEF vars
<1>6. QED
  BY <1>1, <1>2, <1>3, <1>4, <1>5 DEF Next

\* What one step may do to an entry of either cache.
LEMMA EntryStep ==
  ASSUME TypeOK, TrustInv, [Next]_vars, NEW k \in Key
  PROVE  /\ \/ cache'[k] = cache[k]
            \/ cache'[k] = 0 /\ now > cache[k]
            \/ cache'[k] = now + EntryTTL(k) /\ now <= LastGood(k) + Flight
         /\ \/ negCache'[k] \in {negCache[k], 0}
            \/ negCache'[k] = now + FailTTL /\ now <= LastBad(k) + Flight
<1> DEFINE CacheGoal == \/ cache'[k] = cache[k]
                        \/ cache'[k] = 0 /\ now > cache[k]
                        \/ cache'[k] = now + EntryTTL(k) /\ now <= LastGood(k) + Flight
           NegGoal == \/ negCache'[k] \in {negCache[k], 0}
                      \/ negCache'[k] = now + FailTTL /\ now <= LastBad(k) + Flight
<1>1. ASSUME NEW r \in Req, LandValid(r)
      PROVE  CacheGoal /\ NegGoal
  <2>1. req[r] \in Active
    BY <1>1, ActiveRequest DEF LandValid
  <2>2. req[r].key \in Key /\ req[r].since \in Nat
    BY <2>1 DEF Active
  <2>3. now <= LastGood(req[r].key) + Flight
    BY <1>1, <2>2, LastType, TimeAssumption DEF LandValid, TrustInv, TypeOK
  <2>4. QED
    BY <1>1, <2>2, <2>3 DEF LandValid, TypeOK, Absent
<1>2. ASSUME NEW r \in Req, LandRejected(r)
      PROVE  CacheGoal /\ NegGoal
  <2>1. req[r] \in Active
    BY <1>2, ActiveRequest DEF LandRejected
  <2>2. req[r].key \in Key /\ req[r].since \in Nat
    BY <2>1 DEF Active
  <2>3. now <= LastBad(req[r].key) + Flight
    BY <1>2, <2>2, LastType, TimeAssumption DEF LandRejected, TrustInv, TypeOK
  <2>4. QED
    BY <1>2, <2>2, <2>3 DEF LandRejected, TypeOK
<1>3. CASE EvictExpired
  BY <1>3 DEF EvictExpired, Unexpired, Absent, TypeOK
<1>4. ASSUME NEW r \in Req, Serve(r), ~LandValid(r), ~LandRejected(r)
      PROVE  CacheGoal /\ NegGoal
  <2>1. UNCHANGED <<cache, negCache>>
    BY <1>4 DEF Serve, Arrive, PeekValid, Allow, ConsultBudget, Lookup, Ask,
                LandInconclusive, Penalise
  <2>2. QED
    BY <2>1
<1>5. CASE EvictIdle \/ Tick \/ UNCHANGED vars \/ \E c \in Key : Switch(c)
  BY <1>5 DEF EvictIdle, Tick, Switch, vars
<1>6. QED
  BY <1>1, <1>2, <1>3, <1>4, <1>5 DEF Next

\* A request that is landing after a step was landing before, unmoved, or its
\* verdict has just been given.
LEMMA LandingStep ==
  ASSUME TypeOK, [Next]_vars, NEW r \in Req, req'[r].pc = "landing"
  PROVE  \/ /\ req'[r] = req[r]
            /\ now' = now \/ (now' = now + 1 /\ now < req[r].since + Flight)
         \/ /\ UNCHANGED <<now, mesh, switched>>
            /\ req[r] \in Active
            /\ req'[r].key = req[r].key
            /\ req'[r].since = now
            /\ req'[r].verdict = "valid" => mesh[req[r].key]
            /\ req'[r].verdict = "rejected" => ~mesh[req[r].key]
<1> DEFINE Goal == \/ /\ req'[r] = req[r]
                      /\ now' = now \/ (now' = now + 1 /\ now < req[r].since + Flight)
                   \/ /\ UNCHANGED <<now, mesh, switched>>
                      /\ req[r] \in Active
                      /\ req'[r].key = req[r].key
                      /\ req'[r].since = now
                      /\ req'[r].verdict = "valid" => mesh[req[r].key]
                      /\ req'[r].verdict = "rejected" => ~mesh[req[r].key]
<1>1. CASE Ask(r)
  <2>1. req[r] \in Active
    BY <1>1, ActiveRequest DEF Ask
  <2>2. PICK v \in {IF mesh[req[r].key] THEN "valid" ELSE "rejected", "inconclusive"} :
          req' = [req EXCEPT ![r].pc = "landing", ![r].since = now, ![r].verdict = v]
    BY <1>1 DEF Ask
  <2>3. req'[r] = [req[r] EXCEPT !.pc = "landing", !.since = now, !.verdict = v]
    BY <2>2 DEF TypeOK
  <2>4. /\ req'[r].key = req[r].key
        /\ req'[r].since = now
        /\ req'[r].verdict = v
    BY <2>1, <2>3 DEF Active
  <2>5. QED
    BY <1>1, <2>1, <2>2, <2>4 DEF Ask, history
<1>2. ASSUME NEW via \in Via, NEW k \in Key, NEW ip \in IP, Arrive(r, via, k, ip)
      PROVE  Goal
  BY <1>2 DEF Arrive, TypeOK
<1>3. CASE PeekValid(r) \/ ConsultBudget(r) \/ Allow(r) \/ Penalise(r)
  <2>1. req[r].pc # "done"
    BY <1>3 DEF PeekValid, ConsultBudget, Allow, Penalise
  <2>2. \/ \E pc \in {"lookup", "limit"} : Goto(r, pc)
        \/ \E reply \in {"401", "429"} : Answer(r, reply)
    BY <1>3 DEF PeekValid, ConsultBudget, Allow, Penalise
  <2>3. CASE \E pc \in {"lookup", "limit"} : Goto(r, pc)
    <3>1. req'[r].pc \in {"lookup", "limit"}
      BY <2>1, <2>3, GotoType DEF Step
    <3>2. QED
      BY <3>1
  <2>4. CASE \E reply \in {"401", "429"} : Answer(r, reply)
    <3>1. req'[r].pc = "done"
      BY <2>4, AnswerType DEF Reply
    <3>2. QED
      BY <3>1
  <2>5. QED
    BY <2>2, <2>3, <2>4
<1>4. CASE Lookup(r) \/ LandValid(r) \/ LandRejected(r) \/ LandInconclusive(r)
  <2>1. req[r].pc # "done"
    BY <1>4 DEF Lookup, LandValid, LandRejected, LandInconclusive
  <2>2. req[r] \in Active
    BY <2>1, ActiveRequest
  <2>3. \/ \E e \in Nat : Admit(r, e)
        \/ \E b \in BOOLEAN : Refuse(r, b)
        \/ Goto(r, "asking")
    <3>1. req[r].key \in Key
      BY <2>2 DEF Active
    <3>2. cache[req[r].key] \in Nat /\ now + EntryTTL(req[r].key) \in Nat
      BY <3>1, TTLType DEF TypeOK
    <3>3. QED
      BY <1>4, <3>2 DEF Lookup, LandValid, LandRejected, LandInconclusive
  <2>4. CASE \E e \in Nat : Admit(r, e)
    BY <2>1, <2>4, AdmitType
  <2>5. CASE \E b \in BOOLEAN : Refuse(r, b)
    BY <2>1, <2>5, RefuseType
  <2>6. CASE Goto(r, "asking")
    BY <2>1, <2>6, GotoType DEF Step
  <2>7. QED
    BY <2>3, <2>4, <2>5, <2>6
<1>5. ASSUME NEW q \in Req, q # r, Serve(q)
      PROVE  Goal
  <2>1. req'[r] = req[r]
    BY <1>5, OthersUnmoved
  <2>2. UNCHANGED now
    BY <1>5 DEF Serve, Arrive, PeekValid, Allow, ConsultBudget, Lookup, Ask,
                LandValid, LandRejected, LandInconclusive, Penalise
  <2>3. QED
    BY <2>1, <2>2
<1>6. CASE Tick
  BY <1>6 DEF Tick
<1>7. CASE EvictExpired \/ EvictIdle \/ UNCHANGED vars \/ \E c \in Key : Switch(c)
  BY <1>7 DEF EvictExpired, EvictIdle, Switch, vars
<1>8. QED
  BY <1>1, <1>2, <1>3, <1>4, <1>5, <1>6, <1>7 DEF Next, Serve

LEMMA TrustInit == Init => TrustInv
  BY TimeAssumption, TTLType
     DEF Init, TrustInv, LastGood, LastBad, Absent, Epoch

LEMMA TrustNext == TypeOK /\ TrustInv /\ [Next]_vars => TrustInv'
<1> SUFFICES ASSUME TypeOK, TrustInv, [Next]_vars
             PROVE  TrustInv'
  OBVIOUS
<1>0. TypeOK'
  BY NextType
<1>1. ASSUME NEW k \in Key
      PROVE  /\ switched'[k] <= now'
             /\ cache'[k] <= LastGood(k)' + Flight + EntryTTL(k)
             /\ negCache'[k] <= LastBad(k)' + Flight + FailTTL
  <2>1. LastGood(k) \in Nat /\ LastBad(k) \in Nat
    BY LastType
  <2>2. LastGood(k)' \in Nat /\ LastBad(k)' \in Nat
    BY <1>0 DEF LastGood, LastBad, TypeOK
  <2>3. EntryTTL(k) \in Nat
    BY TTLType
  <2>4. cache'[k] <= LastGood(k) + Flight + EntryTTL(k)
    BY <2>1, <2>3, EntryStep, TimeAssumption DEF TrustInv, TypeOK
  <2>5. negCache'[k] <= LastBad(k) + Flight + FailTTL
    BY <2>1, EntryStep, TimeAssumption DEF TrustInv, TypeOK
  <2>6. cache'[k] \in Nat /\ negCache'[k] \in Nat
    BY <1>0 DEF TypeOK
  <2>7. QED
    BY <2>1, <2>2, <2>3, <2>4, <2>5, <2>6, LastMonotone, TimeAssumption
<1>2. ASSUME NEW r \in Req, req'[r].pc = "landing", NEW k \in Key, req'[r].key = k
      PROVE  /\ now' <= req'[r].since + Flight
             /\ req'[r].verdict = "valid" => req'[r].since <= LastGood(k)'
             /\ req'[r].verdict = "rejected" => req'[r].since <= LastBad(k)'
  <2>1. req'[r].since \in Nat
    BY <1>0, <1>2 DEF TypeOK, Ended, Active
  <2>2. /\ LastGood(k) \in Nat /\ LastBad(k) \in Nat
        /\ LastGood(k)' \in Nat /\ LastBad(k)' \in Nat
    BY <1>0 DEF LastGood, LastBad, TypeOK
  <2>3. CASE /\ req'[r] = req[r]
             /\ now' = now \/ (now' = now + 1 /\ now < req[r].since + Flight)
    <3>1. now' <= req'[r].since + Flight
      BY <1>2, <2>1, <2>3, TimeAssumption DEF TrustInv, TypeOK
    <3>2. /\ req[r].verdict = "valid" => req[r].since <= LastGood(k)
          /\ req[r].verdict = "rejected" => req[r].since <= LastBad(k)
      BY <1>2, <2>3 DEF TrustInv
    <3>3. LastGood(k)' >= LastGood(k) /\ LastBad(k)' >= LastBad(k)
      BY LastMonotone
    <3>4. QED
      BY <2>1, <2>2, <2>3, <3>1, <3>2, <3>3
  <2>4. CASE /\ UNCHANGED <<now, mesh, switched>>
             /\ req'[r].key = req[r].key
             /\ req'[r].since = now
             /\ req'[r].verdict = "valid" => mesh[req[r].key]
             /\ req'[r].verdict = "rejected" => ~mesh[req[r].key]
    BY <1>2, <2>1, <2>4, TimeAssumption DEF LastGood, LastBad, TypeOK
  <2>5. QED
    BY <1>2, <2>3, <2>4, LandingStep
<1>3. ASSUME NEW r \in Req, req'[r].pc = "landing"
      PROVE  req'[r].key \in Key
  BY <1>0, <1>3 DEF TypeOK, Ended, Active
<1>4. QED
  BY <1>1, <1>2, <1>3 DEF TrustInv, LastGood, LastBad

\* Only a step of its own moves a request.
LEMMA OwnStep ==
  ASSUME TypeOK, [Next]_vars, NEW r \in Req, req'[r] # req[r]
  PROVE  Serve(r)
<1>1. ASSUME NEW q \in Req, q # r, Serve(q)
      PROVE  FALSE
  BY <1>1, OthersUnmoved
<1>2. CASE EvictExpired \/ EvictIdle \/ Tick \/ UNCHANGED vars \/ \E c \in Key : Switch(c)
  BY <1>2 DEF EvictExpired, EvictIdle, Tick, Switch, vars
<1>3. QED
  BY <1>1, <1>2 DEF Next

\* What the way a request ends tells of the step that ended it.
LEMMA EndingStep ==
  ASSUME TypeOK, [Next]_vars, NEW r \in Req, NEW k \in Key, req[r].key = k,
         req[r].pc # "done", req'[r].pc \in {"done", "penalty"}
  PROVE  \/ /\ Lookup(r) \/ LandValid(r)
            /\ req'[r] = [pc |-> "done", reply |-> "session"]
         \/ Lookup(r) /\ Refuse(r, TRUE)
         \/ LandRejected(r) /\ Refuse(r, TRUE)
         \/ LandInconclusive(r) /\ Refuse(r, FALSE)
         \/ req'[r] \in [pc: {"done"}, reply: {"401", "429"}]
         \/ req'[r] = req[r]
<1> DEFINE Goal == \/ /\ Lookup(r) \/ LandValid(r)
                      /\ req'[r] = [pc |-> "done", reply |-> "session"]
                   \/ Lookup(r) /\ Refuse(r, TRUE)
                   \/ LandRejected(r) /\ Refuse(r, TRUE)
                   \/ LandInconclusive(r) /\ Refuse(r, FALSE)
                   \/ req'[r] \in [pc: {"done"}, reply: {"401", "429"}]
<1>1. req[r] \in Active
  BY ActiveRequest
<1>2. cache[k] \in Nat /\ now + EntryTTL(k) \in Nat
  BY TTLType DEF TypeOK
<1>3. CASE Lookup(r)
  <2>1. Admit(r, cache[k]) \/ Refuse(r, TRUE) \/ Goto(r, "asking")
    BY <1>3 DEF Lookup
  <2>2. CASE Admit(r, cache[k])
    <3>1. req'[r].pc = "lookup" \/ req'[r] = [pc |-> "done", reply |-> "session"]
      BY <1>1, <1>2, <2>2, AdmitType
    <3>2. QED
      BY <1>3, <3>1
  <2>3. CASE Goto(r, "asking")
    <3>1. req'[r].pc = "asking"
      BY <2>3, GotoType DEF Step
    <3>2. QED
      BY <3>1
  <2>4. QED
    BY <1>3, <2>1, <2>2, <2>3
<1>4. CASE LandValid(r)
  <2>1. Admit(r, now + EntryTTL(k))
    BY <1>4 DEF LandValid
  <2>2. req'[r].pc = "lookup" \/ req'[r] = [pc |-> "done", reply |-> "session"]
    BY <1>1, <1>2, <2>1, AdmitType
  <2>3. QED
    BY <1>4, <2>2
<1>5. CASE LandRejected(r) \/ LandInconclusive(r)
  BY <1>5 DEF LandRejected, LandInconclusive
<1>6. CASE PeekValid(r) \/ Allow(r) \/ ConsultBudget(r) \/ Penalise(r)
  <2>1. \/ \E pc \in {"lookup", "limit"} : Goto(r, pc)
        \/ \E reply \in {"401", "429"} : Answer(r, reply)
    BY <1>6 DEF PeekValid, ConsultBudget, Allow, Penalise
  <2>2. ASSUME NEW reply \in {"401", "429"}, Answer(r, reply)
        PROVE  Goal
    <3>1. req'[r] = [pc |-> "done", reply |-> reply]
      BY <2>2, AnswerType DEF Reply
    <3>2. [pc |-> "done", reply |-> reply] \in [pc: {"done"}, reply: {"401", "429"}]
      OBVIOUS
    <3>3. QED
      BY <3>1, <3>2
  <2>3. ASSUME NEW pc \in {"lookup", "limit"}, Goto(r, pc)
        PROVE  FALSE
    <3>1. req'[r].pc = pc
      BY <2>3, GotoType DEF Step
    <3>2. QED
      BY <3>1
  <2>4. QED
    BY <2>1, <2>2, <2>3
<1>7. CASE Ask(r)
  <2>1. PICK v \in Verdict :
          req' = [req EXCEPT ![r].pc = "landing", ![r].since = now, ![r].verdict = v]
    BY <1>7 DEF Ask, Verdict
  <2>2. req'[r] = [req[r] EXCEPT !.pc = "landing", !.since = now, !.verdict = v]
    BY <2>1 DEF TypeOK
  <2>3. req'[r].pc = "landing"
    BY <1>1, <2>2 DEF Active
  <2>4. QED
    BY <2>3
<1>8. CASE \E via \in Via, c \in Key, ip \in IP : Arrive(r, via, c, ip)
  BY <1>8 DEF Arrive
<1>9. CASE req'[r] # req[r]
  BY <1>3, <1>4, <1>5, <1>6, <1>7, <1>8, <1>9, OwnStep DEF Serve
<1>10. QED
  BY <1>9

LEMMA SessionStep ==
  ASSUME TypeOK, TrustInv, [Next]_vars, NEW r \in Req, Answers(r, "session"),
         NEW k \in Key, req[r].key = k
  PROVE  /\ now < LastGood(k) + Flight + SessionTTL + Slack
         /\ k \in OAuthToken => now < LastGood(k) + Flight + OAuthTTL + Slack
<1>1. req[r].pc # "done" /\ req'[r] = [pc |-> "done", reply |-> "session"]
  BY DEF Answers
<1>2. req[r] \in Active
  BY <1>1, ActiveRequest
<1>3. /\ LastGood(k) \in Nat /\ cache[k] \in Nat /\ EntryTTL(k) \in Nat \ {0}
      /\ EntryTTL(k) <= SessionTTL
      /\ k \in OAuthToken => EntryTTL(k) <= OAuthTTL
  BY LastType, TTLType, TimeAssumption DEF TypeOK, EntryTTL
<1>4. ASSUME NEW b \in BOOLEAN, Refuse(r, b)
      PROVE  FALSE
  <2>1. \/ req'[r] = [pc |-> "done", reply |-> "anonymous"]
        \/ req'[r] \in [pc: {"done"}, reply: {"403", "503"}]
        \/ req'[r].pc = "penalty"
    BY <1>1, <1>4, RefuseType
  <2>2. QED
    BY <1>1, <2>1
<1>5. Lookup(r) \/ LandValid(r)
  <2>1. req'[r].pc = "done" /\ req'[r].reply = "session" /\ req'[r] # req[r]
    BY <1>1
  <2>2. ~(req'[r] \in [pc: {"done"}, reply: {"401", "429"}])
    BY <2>1
  <2>3. \A b \in BOOLEAN : ~Refuse(r, b)
    BY <1>4
  <2>4. QED
    BY <1>1, <2>1, <2>2, <2>3, EndingStep
<1>6. now < LastGood(k) + Flight + EntryTTL(k) + Slack
  <2>1. CASE Lookup(r)
    <3>1. PICK t \in ClockRead(r) : \/ Live(k, t)
                                    \/ Refuse(r, TRUE)
                                    \/ Goto(r, "asking")
      BY <2>1 DEF Lookup
    <3>2. ASSUME Goto(r, "asking")
          PROVE  FALSE
      <4>1. req'[r].pc = "asking"
        BY <1>1, <3>2, GotoType DEF Step
      <4>2. QED
        BY <1>1, <4>1
    <3>3. t < cache[k]
      BY <1>4, <3>1, <3>2 DEF Live
    <3>4. t \in Nat /\ t + Slack >= now
      BY <1>2 DEF ClockRead, Active, TypeOK
    <3>5. cache[k] <= LastGood(k) + Flight + EntryTTL(k)
      BY DEF TrustInv
    <3>6. now \in Nat /\ cache[k] \in Nat
      BY DEF TypeOK
    <3>7. now < LastGood(k) + Flight + EntryTTL(k) + Slack
      <4> DEFINE bound == LastGood(k) + Flight + EntryTTL(k)
      <4>1. bound \in Nat /\ cache[k] <= bound
        BY <1>3, <3>5, TimeAssumption
      <4>2. now < bound + Slack
        <5> HIDE DEF bound
        <5>1. QED
          BY <3>3, <3>4, <3>6, <4>1, TimeAssumption
      <4>3. QED
        BY <4>2
    <3>8. QED
      BY <3>7
  <2>2. CASE LandValid(r)
    <3>1. now <= req[r].since + Flight /\ req[r].since <= LastGood(k)
      BY <2>2 DEF LandValid, TrustInv
    <3>2. req[r].since \in Nat
      BY <1>2 DEF Active
    <3>3. now \in Nat
      BY DEF TypeOK
    <3>4. now <= LastGood(k) + Flight
      BY <1>3, <3>1, <3>2, <3>3, TimeAssumption
    <3>5. EntryTTL(k) + Slack > 0
      BY <1>3, TimeAssumption
    <3>6. QED
      BY <1>3, <3>3, <3>4, <3>5, TimeAssumption
  <2>3. QED
    BY <1>5, <2>1, <2>2
<1>7. QED
  BY <1>3, <1>6, TimeAssumption DEF TypeOK

\* For every choice of the TTLs, the flight and the clock slack, a credential
\* the Mesh API has stopped accepting opens no session once its TTL, one flight
\* and the slack have passed.
THEOREM RevocationLagHolds == Spec => RevocationLag
<1>1. ASSUME TypeOK, TrustInv, [Next]_vars, NEW r \in Req, Answers(r, "session")
      PROVE  /\ now < LastGood(req[r].key) + Flight + SessionTTL + Slack
             /\ req[r].key \in OAuthToken =>
                  now < LastGood(req[r].key) + Flight + OAuthTTL + Slack
  <2>1. req[r].key \in Key
    BY <1>1, ActiveRequest DEF Answers, Active
  <2>2. QED
    BY <1>1, <2>1, SessionStep
<1>2. TypeOK /\ TrustInv /\ [Next]_vars =>
        [\A r \in Req : Answers(r, "session") =>
           LET k == req[r].key
           IN /\ now < LastGood(k) + Flight + SessionTTL + Slack
              /\ k \in OAuthToken => now < LastGood(k) + Flight + OAuthTTL + Slack]_vars
  BY <1>1
<1>3. QED
  BY <1>2, InitType, NextType, TrustInit, TrustNext, PTL DEF Spec, RevocationLag

LEMMA PenaltyStep ==
  ASSUME TypeOK, TrustInv, [Next]_vars, NEW r \in Req, NEW k \in Key,
         req[r].key = k, req[r].pc \notin {"done", "penalty"}, req'[r].pc = "penalty"
  PROVE  now < LastBad(k) + Flight + FailTTL + Slack
<1>1. req[r] \in Active
  BY ActiveRequest
<1>2. LastBad(k) \in Nat /\ negCache[k] \in Nat
  BY LastType DEF TypeOK
<1>3. ASSUME Refuse(r, FALSE)
      PROVE  FALSE
  <2>1. \/ req'[r] = [pc |-> "done", reply |-> "anonymous"]
        \/ req'[r] \in [pc: {"done"}, reply: {"403", "503"}]
    BY <1>3, RefuseType
  <2>2. QED
    BY <2>1
<1>4. Lookup(r) \/ LandRejected(r)
  <2>1. req'[r] # req[r]
    OBVIOUS
  <2>2. ~(req'[r] \in [pc: {"done"}, reply: {"401", "429"}])
    OBVIOUS
  <2>3. req'[r] # [pc |-> "done", reply |-> "session"]
    OBVIOUS
  <2>4. req'[r].pc \in {"done", "penalty"} /\ req[r].pc # "done"
    OBVIOUS
  <2>5. QED
    BY <1>3, <2>1, <2>2, <2>3, <2>4, EndingStep
<1>5. CASE Lookup(r)
  <2>1. PICK t \in ClockRead(r) : \/ Admit(r, cache[k])
                                  \/ t < negCache[k]
                                  \/ Goto(r, "asking")
    BY <1>5 DEF Lookup
  <2>2. ASSUME Goto(r, "asking")
        PROVE  FALSE
    <3>1. req'[r].pc = "asking"
      BY <2>2, GotoType DEF Step
    <3>2. QED
      BY <3>1
  <2>3. ASSUME Admit(r, cache[k])
        PROVE  FALSE
    <3>1. cache[k] \in Nat
      BY DEF TypeOK
    <3>2. req'[r].pc \in {"lookup", "done"}
      BY <2>3, <3>1, AdmitType
    <3>3. QED
      BY <3>2
  <2>4. t \in Nat /\ t + Slack >= now /\ t < negCache[k]
    BY <1>1, <2>1, <2>2, <2>3 DEF ClockRead, Active, TypeOK
  <2>5. negCache[k] <= LastBad(k) + Flight + FailTTL
    BY DEF TrustInv
  <2>6. QED
    BY <1>2, <2>4, <2>5, TimeAssumption DEF TypeOK
<1>6. CASE LandRejected(r)
  <2>1. now <= req[r].since + Flight /\ req[r].since <= LastBad(k)
    BY <1>6 DEF LandRejected, TrustInv
  <2>2. req[r].since \in Nat
    BY <1>1 DEF Active
  <2>3. QED
    BY <1>2, <2>1, <2>2, TimeAssumption DEF TypeOK
<1>7. QED
  BY <1>4, <1>5, <1>6

\* For every choice of the constants, the 401 that tells an OAuth client its
\* token is dead is no older than FailTTL, one flight and the slack.
THEOREM DeadTokenAnswerHolds == Spec => DeadTokenAnswer
<1>1. ASSUME TypeOK, TrustInv, [Next]_vars, NEW r \in Req,
             req[r].pc \notin {"done", "penalty"}, req'[r].pc = "penalty"
      PROVE  now < LastBad(req[r].key) + Flight + FailTTL + Slack
  <2>1. req[r].key \in Key
    BY <1>1, ActiveRequest DEF Active
  <2>2. QED
    BY <1>1, <2>1, PenaltyStep
<1>2. TypeOK /\ TrustInv /\ [Next]_vars =>
        [\A r \in Req : req[r].pc \notin {"done", "penalty"} /\ req'[r].pc = "penalty" =>
           now < LastBad(req[r].key) + Flight + FailTTL + Slack]_vars
  BY <1>1
<1>3. QED
  BY <1>2, InitType, NextType, TrustInit, TrustNext, PTL DEF Spec, DeadTokenAnswer

-----------------------------------------------------------------------------
(* What the gate decided still holds for the transport.                    *)

\* r was let through by the gate and is now in sseContextFunc.
Carried(r) ==
  req[r].pc # "done" /\ req[r].pass = "context" /\ req[r].via # "message"

\* While the entry that let r through lives, r can only be about to find it.
CarryInv ==
  /\ \A k \in Key : cache[k] <= now + EntryTTL(k)
  /\ \A r \in Req : Carried(r) =>
       \/ req[r].until <= now
       \/ req[r].pc = "lookup" /\ req[r].until <= cache[req[r].key]

LEMMA CarryInit == Init => CarryInv
  BY TimeAssumption, TTLType DEF Init, CarryInv, Carried, Absent, Epoch

LEMMA CarryNext == TypeOK /\ TrustInv /\ CarryInv /\ [Next]_vars => CarryInv'
<1> SUFFICES ASSUME TypeOK, TrustInv, CarryInv, [Next]_vars
             PROVE  CarryInv'
  OBVIOUS
<1>0. TypeOK'
  BY NextType
<1>n. now \in Nat /\ now' \in Nat /\ now' >= now
  <2>1. now \in Nat /\ now' \in Nat
    BY <1>0 DEF TypeOK
  <2>2. CASE \E r \in Req : Serve(r)
    <3>1. UNCHANGED now
      BY <2>2 DEF Serve, Arrive, PeekValid, Allow, ConsultBudget, Lookup, Ask,
                  LandValid, LandRejected, LandInconclusive, Penalise
    <3>2. QED
      BY <2>1, <3>1
  <2>3. CASE ~\E r \in Req : Serve(r)
    BY <2>1, <2>3 DEF Next, EvictExpired, EvictIdle, Switch, Tick, vars
  <2>4. QED
    BY <2>2, <2>3
<1>1. ASSUME NEW k \in Key
      PROVE  cache'[k] <= now' + EntryTTL(k)
  <2>1. EntryTTL(k) \in Nat /\ cache[k] \in Nat /\ cache[k] <= now + EntryTTL(k)
    BY TTLType DEF TypeOK, CarryInv
  <2>2. cache'[k] \in {cache[k], 0, now + EntryTTL(k)}
    BY EntryStep
  <2>3. QED
    BY <1>n, <2>1, <2>2
<1>2. ASSUME NEW r \in Req, Carried(r)', NEW k \in Key, req'[r].key = k
      PROVE  \/ req'[r].until <= now'
             \/ req'[r].pc = "lookup" /\ req'[r].until <= cache'[k]
  <2> DEFINE Goal == \/ req'[r].until <= now'
                     \/ req'[r].pc = "lookup" /\ req'[r].until <= cache'[k]
  <2>0. req'[r] \in Active /\ req'[r].pc # "done" /\ req'[r].pass = "context"
        /\ req'[r].via # "message"
    BY <1>0, <1>2 DEF Carried, TypeOK, Ended
  <2>1. CASE req'[r] = req[r]
    <3>1. \/ req[r].until <= now
          \/ req[r].pc = "lookup" /\ req[r].until <= cache[k]
      BY <1>2, <2>0, <2>1 DEF CarryInv, Carried
    <3>2. req[r].until \in Nat
      BY <2>0, <2>1 DEF Active
    <3>3. \/ cache'[k] = cache[k]
          \/ cache'[k] = 0 /\ now > cache[k]
          \/ cache'[k] = now + EntryTTL(k)
      BY EntryStep
    <3>4. cache[k] <= now + EntryTTL(k) /\ cache[k] \in Nat /\ EntryTTL(k) \in Nat
      BY TTLType DEF CarryInv, TypeOK
    <3>5. QED
      BY <1>n, <2>1, <3>1, <3>2, <3>3, <3>4
  <2>2. CASE req'[r] # req[r]
    <3>1. Serve(r) /\ now' = now
      BY <2>2, OwnStep DEF Serve, Arrive, PeekValid, Allow, ConsultBudget, Lookup,
         Ask, LandValid, LandRejected, LandInconclusive, Penalise
    <3>2. ASSUME NEW reply \in Reply, Answer(r, reply)
          PROVE  FALSE
      <4>1. req'[r] = [pc |-> "done", reply |-> reply]
        BY <3>2, AnswerType
      <4>2. QED
        BY <2>0, <4>1
    <3>3. ASSUME NEW b \in BOOLEAN, Refuse(r, b), req[r].pc # "done"
          PROVE  FALSE
      <4>1. CASE req[r].pass = "context"
        <5>1. Answer(r, "anonymous")
          BY <3>3, <4>1 DEF Refuse
        <5>2. QED
          BY <3>2, <5>1 DEF Reply
      <4>2. CASE req[r].pass # "context"
        <5>1. \/ req'[r].pc = "done"
              \/ req'[r] = [req[r] EXCEPT !.pc = "penalty", !.since = now]
          BY <3>3, <4>2, RefuseType
        <5>2. req'[r].pass = "context" => req[r].pass = "context"
          BY <2>0, <3>3, <5>1, ActiveRequest DEF Active
        <5>3. QED
          BY <2>0, <4>2, <5>2
      <4>3. QED
        BY <4>1, <4>2
    <3>4. ASSUME NEW pc \in Step, Goto(r, pc), req[r].pc # "done"
          PROVE  /\ Carried(r) /\ req[r].key = k
                 /\ req'[r].until = req[r].until /\ req[r].until \in Nat
      <4>1. req[r] \in Active
        BY <3>4, ActiveRequest
      <4>2. req'[r] = [req[r] EXCEPT !.pc = pc, !.since = now]
        BY <3>4, GotoType
      <4>3. /\ req'[r].until = req[r].until /\ req'[r].pass = req[r].pass
            /\ req'[r].via = req[r].via /\ req'[r].key = req[r].key
            /\ req[r].until \in Nat
        BY <4>1, <4>2 DEF Active
      <4>4. QED
        BY <1>2, <2>0, <3>4, <4>3 DEF Carried
    <3>5. ASSUME NEW e \in Nat, Admit(r, e), req[r].pc # "done"
          PROVE  req'[r].pc = "lookup" /\ req'[r].until = e /\ req[r].key = k
      <4>1. req[r] \in Active
        BY <3>5, ActiveRequest
      <4>2. req'[r] = [req[r] EXCEPT !.pc = "lookup", !.pass = "context",
                                     !.since = now, !.until = e]
        <5>1. req'[r] # [pc |-> "done", reply |-> "session"]
          BY <2>0
        <5>2. QED
          BY <3>5, <5>1, AdmitType
      <4>3. QED
        BY <1>2, <4>1, <4>2 DEF Active
    <3>6. CASE \E via \in Via, c \in Key, ip \in IP : Arrive(r, via, c, ip)
      <4>1. PICK via \in Via, c \in Key, ip \in IP : Arrive(r, via, c, ip)
        BY <3>6
      <4>2. req'[r].via = via
            /\ req'[r].pass = IF via = "message" THEN "context" ELSE "gate"
        BY <4>1 DEF Arrive, TypeOK
      <4>3. QED
        BY <2>0, <4>2
    <3>7. CASE PeekValid(r) \/ Allow(r) \/ ConsultBudget(r) \/ Penalise(r)
      <4>1. req[r].pc \in {"peek", "limit", "penalty"}
        BY <3>7 DEF PeekValid, Allow, ConsultBudget, Penalise
      <4>2. \/ \E pc \in {"lookup", "limit"} : Goto(r, pc)
            \/ \E reply \in {"401", "429"} : Answer(r, reply)
        BY <3>7 DEF PeekValid, Allow, ConsultBudget, Penalise
      <4>3. PICK pc \in {"lookup", "limit"} : Goto(r, pc)
        BY <3>2, <4>2 DEF Reply
      <4>4. Carried(r) /\ req'[r].until = req[r].until
        BY <3>4, <4>1, <4>3 DEF Step
      <4>5. req[r].until <= now
        BY <4>1, <4>4 DEF CarryInv
      <4>6. QED
        BY <3>1, <4>4, <4>5
    <3>8. CASE Lookup(r)
      <4>1. req[r].pc # "done" /\ req[r] \in Active
        BY <3>8, ActiveRequest DEF Lookup
      <4>2. PICK t \in ClockRead(r) :
              \/ Admit(r, cache[req[r].key])
              \/ Refuse(r, TRUE)
              \/ Goto(r, "asking") /\ ~(t < cache[req[r].key])
        BY <3>8 DEF Lookup, Live
      <4>3. CASE Admit(r, cache[req[r].key])
        <5>1. cache[req[r].key] \in Nat
          BY <4>1 DEF Active, TypeOK
        <5>2. /\ req'[r].pc = "lookup" /\ req'[r].until = cache[req[r].key]
              /\ req[r].key = k
          BY <3>5, <4>1, <4>3, <5>1
        <5>3. UNCHANGED cache /\ cache[k] \in Nat
          BY <3>8 DEF Lookup, TypeOK
        <5>4. QED
          BY <5>2, <5>3
      <4>4. CASE Goto(r, "asking") /\ ~(t < cache[req[r].key])
        <5>1. Carried(r) /\ req[r].key = k
              /\ req'[r].until = req[r].until /\ req[r].until \in Nat
          BY <3>4, <4>1, <4>4 DEF Step
        <5>2. t \in Nat /\ t <= now
          BY <4>1 DEF ClockRead, Active, TypeOK
        <5>3. cache[k] \in Nat /\ ~(t < cache[k])
          BY <4>4, <5>1 DEF TypeOK
        <5>4. req[r].until <= now \/ req[r].until <= cache[k]
          BY <5>1 DEF CarryInv
        <5>5. QED
          BY <1>n, <3>1, <5>1, <5>2, <5>3, <5>4
      <4>5. QED
        BY <3>3, <4>1, <4>2, <4>3, <4>4
    <3>9. CASE LandValid(r)
      <4>1. req[r].pc # "done" /\ req[r] \in Active
        BY <3>9, ActiveRequest DEF LandValid
      <4>2. req[r].key \in Key /\ now + EntryTTL(req[r].key) \in Nat
        BY <1>n, <4>1, TTLType DEF Active
      <4>3. /\ req'[r].pc = "lookup" /\ req'[r].until = now + EntryTTL(req[r].key)
            /\ req[r].key = k
        BY <3>5, <3>9, <4>1, <4>2 DEF LandValid
      <4>4. cache'[k] = now + EntryTTL(k)
        BY <3>9, <4>3 DEF LandValid, TypeOK
      <4>5. QED
        BY <4>2, <4>3, <4>4
    <3>10. CASE LandRejected(r) \/ LandInconclusive(r)
      BY <3>3, <3>10 DEF LandRejected, LandInconclusive
    <3>11. CASE Ask(r)
      <4>1. req[r].pc = "asking" /\ req[r] \in Active
        BY <3>11, ActiveRequest DEF Ask
      <4>2. PICK v \in Verdict : req' =
              [req EXCEPT ![r].pc = "landing", ![r].since = now, ![r].verdict = v]
        BY <3>11 DEF Ask, Verdict
      <4>3. req'[r] = [req[r] EXCEPT !.pc = "landing", !.since = now, !.verdict = v]
        BY <4>2 DEF TypeOK
      <4>4. req'[r].until = req[r].until /\ Carried(r)
        BY <2>0, <4>1, <4>3 DEF Active, Carried
      <4>5. req[r].until <= now
        BY <4>1, <4>4 DEF CarryInv
      <4>6. QED
        BY <3>1, <4>4, <4>5
    <3>12. QED
      BY <3>1, <3>6, <3>7, <3>8, <3>9, <3>10, <3>11 DEF Serve
  <2>3. QED
    BY <2>1, <2>2
<1>3. ASSUME NEW r \in Req, Carried(r)'
      PROVE  req'[r].key \in Key
  BY <1>0, <1>3 DEF Carried, TypeOK, Ended, Active
<1>4. QED
  BY <1>1, <1>2, <1>3 DEF CarryInv

\* A Carried request that is answered "anonymous" has lost its entry to time.
LEMMA AnonymousStep ==
  ASSUME TypeOK, CarryInv, [Next]_vars, NEW r \in Req, NEW k \in Key,
         req[r].key = k, Answers(r, "anonymous"), req[r].via # "message"
  PROVE  req[r].until <= now
<1>1. req[r].pc # "done" /\ req'[r] = [pc |-> "done", reply |-> "anonymous"]
  BY DEF Answers
<1>2. req[r] \in Active
  BY <1>1, ActiveRequest
<1>3. \E b \in BOOLEAN : Refuse(r, b) /\ (Lookup(r) \/ LandRejected(r) \/ LandInconclusive(r))
  <2>1. /\ req'[r].pc \in {"done", "penalty"}
        /\ req'[r] # [pc |-> "done", reply |-> "session"]
        /\ ~(req'[r] \in [pc: {"done"}, reply: {"401", "429"}])
        /\ req'[r] # req[r]
    BY <1>1
  <2>2. QED
    BY <1>1, <2>1, EndingStep
<1>4. Carried(r)
  <2>1. PICK b \in BOOLEAN : Refuse(r, b)
    BY <1>3
  <2>2. req[r].pass = "context"
    <3>1. req'[r].pc = "done" /\ req'[r].reply = "anonymous"
      BY <1>1
    <3>2. \/ req[r].pass = "context"
          \/ req'[r] \in [pc: {"done"}, reply: {"403", "503"}]
          \/ req'[r].pc = "penalty"
      BY <1>1, <2>1, RefuseType
    <3>3. QED
      BY <3>1, <3>2
  <2>3. QED
    BY <1>1, <2>2 DEF Carried
<1>5. CASE Lookup(r)
  <2>1. PICK t \in ClockRead(r) :
          Admit(r, cache[k]) \/ ~(t < cache[k])
    BY <1>5 DEF Lookup, Live
  <2>2. ASSUME Admit(r, cache[k])
        PROVE  FALSE
    <3>1. cache[k] \in Nat
      BY DEF TypeOK
    <3>2. req'[r].pc = "lookup" \/ req'[r] = [pc |-> "done", reply |-> "session"]
      BY <1>1, <2>2, <3>1, AdmitType
    <3>3. QED
      BY <1>1, <3>2
  <2>3. t \in Nat /\ t <= now /\ now \in Nat /\ cache[k] \in Nat
        /\ req[r].until \in Nat
    BY <1>2 DEF ClockRead, Active, TypeOK
  <2>4. req[r].until <= now \/ req[r].until <= cache[k]
    BY <1>4 DEF CarryInv
  <2>5. QED
    BY <2>1, <2>2, <2>3, <2>4
<1>6. CASE LandRejected(r) \/ LandInconclusive(r)
  <2>1. req[r].pc = "landing"
    BY <1>6 DEF LandRejected, LandInconclusive
  <2>2. QED
    BY <1>4, <2>1 DEF CarryInv
<1>7. QED
  BY <1>3, <1>5, <1>6

\* For every choice of the constants, a request the gate let through gets its
\* session in sseContextFunc unless the entry has expired in between.
THEOREM AdmissionCarriesOverHolds == Spec => AdmissionCarriesOver
<1>1. ASSUME TypeOK, CarryInv, [Next]_vars, NEW r \in Req,
             Answers(r, "anonymous"), req[r].via # "message"
      PROVE  req[r].until <= now
  <2>1. req[r].key \in Key
    BY <1>1, ActiveRequest DEF Answers, Active
  <2>2. QED
    BY <1>1, <2>1, AnonymousStep
<1>2. TypeOK /\ CarryInv /\ [Next]_vars =>
        [\A r \in Req : Answers(r, "anonymous") /\ req[r].via # "message" =>
           req[r].until <= now]_vars
  BY <1>1
<1>3. QED
  BY <1>2, InitType, NextType, TrustInit, TrustNext, CarryInit, CarryNext, PTL
     DEF Spec, AdmissionCarriesOver

-----------------------------------------------------------------------------
(***************************************************************************)
(* The limiter.  Every step that charges the bucket of an address, with    *)
(* the clock of the present minute, finds that minute's bucket or starts   *)
(* it; a late one puts an older bucket in its place.  Filled is what the   *)
(* present bucket has counted towards the budget.                          *)
(***************************************************************************)
Filled(ip) ==
  IF bucket[ip].window # Window(now) THEN 0
  ELSE IF bucket[ip].count < RPM THEN bucket[ip].count ELSE RPM

Used(ip) == granted[ip] + punished[ip]

Lates(ip) == Cardinality(late[ip])

\* No bucket is of a minute to come, and a request that was late has taken a
\* step in this minute: it cannot be late again before the next.
ClockInv ==
  RPM # 0 => \A ip \in IP :
    /\ bucket[ip].window <= Window(now)
    /\ \A r \in late[ip] : req[r].pc = "done" \/ Window(req[r].since) = Window(now)

LEMMA WindowOrder ==
  ASSUME NEW s \in Nat, NEW t \in Nat, s <= t
  PROVE  /\ Window(s) \in Nat /\ Window(t) \in Nat
         /\ Window(s) <= Window(t)
<1> DEFINE p == Window(s)
           q == Window(t)
<1>1. p \in Nat /\ q \in Nat
  BY WindowType
<1>2. Minute * p <= s /\ t < Minute * (q + 1)
  BY TimeAssumption, SMT DEF Window
<1>3. ASSUME q + 1 <= p
      PROVE  FALSE
  <2>1. Minute * (q + 1) <= Minute * p
    BY <1>1, <1>3, TimeAssumption, SMT
  <2>2. Minute * (q + 1) \in Nat /\ Minute * p \in Nat
    BY <1>1, TimeAssumption, SMT
  <2>3. QED
    BY <1>2, <2>1, <2>2
<1>4. QED
  BY <1>1, <1>3

LEMMA LatesType ==
  ASSUME TypeOK, NEW ip \in IP
  PROVE  IsFiniteSet(late[ip]) /\ Lates(ip) \in Nat
<1>1. late[ip] \subseteq Req
  BY DEF TypeOK
<1>2. IsFiniteSet(late[ip])
  BY <1>1, RequestsAssumption, FS_Subset
<1>3. QED
  BY <1>2, FS_CardinalityType DEF Lates

LEMMA LimiterTypes ==
  ASSUME TypeOK, NEW ip \in IP
  PROVE  /\ now \in Nat /\ Window(now) \in Nat /\ RPM \in Nat
         /\ bucket[ip].window \in Int /\ bucket[ip].count \in Nat
         /\ granted[ip] \in Nat /\ punished[ip] \in Nat
         /\ Used(ip) \in Nat /\ Lates(ip) \in Nat
         /\ Filled(ip) \in Nat /\ Filled(ip) <= RPM
<1>1. /\ now \in Nat /\ RPM \in Nat
      /\ bucket[ip].window \in Int /\ bucket[ip].count \in Nat
      /\ granted[ip] \in Nat /\ punished[ip] \in Nat
  BY BudgetAssumption DEF TypeOK
<1>2. Window(now) \in Nat
  BY <1>1, WindowType
<1>3. QED
  BY <1>1, <1>2, LatesType DEF Filled, Used

\* A request that meets its bucket does so in the minute of its clock, or it
\* is late, which it has not been in this minute.
LEMMA MeetsStep ==
  ASSUME TypeOK, ClockInv, RPM # 0, NEW r \in Req, req[r].pc # "done",
         NEW t \in ClockRead(r), Meets(r, t), NEW ip \in IP
  PROVE  /\ \/ req[r].ip # ip /\ late'[ip] = late[ip]
            \/ req[r].ip = ip /\ Window(t) = Window(now) /\ late'[ip] = late[ip]
            \/ /\ req[r].ip = ip /\ Window(t) < Window(now)
               /\ late'[ip] = late[ip] \cup {r}
               /\ Lates(ip)' = Lates(ip) + 1
<1>1. req[r].since \in Nat /\ t \in Nat /\ now \in Nat /\ req[r].since <= t /\ t <= now
  BY ActiveRequest DEF Active, ClockRead, TypeOK
<1>2. /\ Window(req[r].since) \in Nat /\ Window(t) \in Nat /\ Window(now) \in Nat
      /\ Window(req[r].since) <= Window(t) /\ Window(t) <= Window(now)
  BY <1>1, WindowOrder
<1>3. CASE Window(t) = Window(now)
  BY <1>3 DEF Meets
<1>4. CASE Window(t) # Window(now)
  <2>1. late' = [late EXCEPT ![req[r].ip] = @ \cup {r}]
    BY <1>4 DEF Meets
  <2>2. CASE req[r].ip # ip
    BY <2>1, <2>2 DEF TypeOK
  <2>3. CASE req[r].ip = ip
    <3>1. late'[ip] = late[ip] \cup {r}
      BY <2>1, <2>3 DEF TypeOK
    <3>2. r \notin late[ip]
      BY <1>2, <1>4 DEF ClockInv
    <3>3. Cardinality(late[ip] \cup {r}) = Cardinality(late[ip]) + 1
      BY <3>2, LatesType, FS_AddElement
    <3>4. QED
      BY <1>2, <1>4, <2>3, <3>1, <3>3 DEF Lates
  <2>4. QED
    BY <2>2, <2>3
<1>5. QED
  BY <1>3, <1>4

LEMMA ClockInit == Init => ClockInv
<1> SUFFICES ASSUME Init, NEW ip \in IP
             PROVE  bucket[ip].window <= Window(now) /\ late[ip] = {}
  BY DEF ClockInv
<1>1. Window(now) \in Nat
  BY InitType, WindowType DEF TypeOK
<1>2. bucket[ip].window = -1 /\ late[ip] = {}
  BY DEF Init, NoBucket
<1>3. QED
  BY <1>1, <1>2

\* A request that moves on does so at the present instant.
LEMMA SinceStep ==
  ASSUME TypeOK, [Next]_vars, NEW r \in Req, req'[r] # req[r]
  PROVE  now' = now /\ (req'[r].pc = "done" \/ req'[r].since = now)
<1>1. Serve(r) /\ now' = now
  BY OwnStep DEF Serve, Arrive, PeekValid, Allow, ConsultBudget, Lookup, Ask,
     LandValid, LandRejected, LandInconclusive, Penalise
<1>2. ASSUME NEW via \in Via, NEW k \in Key, NEW ip \in IP, Arrive(r, via, k, ip)
      PROVE  req'[r].since = now
  BY <1>2 DEF Arrive, TypeOK
<1>3. CASE req[r].pc # "done"
  <2>1. req[r] \in Active
    BY <1>3, ActiveRequest
  <2>2. ASSUME NEW pc \in Step, Goto(r, pc)
        PROVE  req'[r].since = now
    <3>1. req'[r] = [req[r] EXCEPT !.pc = pc, !.since = now]
      BY <1>3, <2>2, GotoType
    <3>2. QED
      BY <2>1, <3>1 DEF Active
  <2>3. ASSUME NEW reply \in Reply, Answer(r, reply)
        PROVE  req'[r].pc = "done"
    <3>1. req'[r] = [pc |-> "done", reply |-> reply]
      BY <2>3, AnswerType
    <3>2. QED
      BY <3>1
  <2>4. ASSUME NEW e \in Nat, Admit(r, e)
        PROVE  req'[r].pc = "done" \/ req'[r].since = now
    <3>1. CASE req'[r] = [req[r] EXCEPT !.pc = "lookup", !.pass = "context",
                                        !.since = now, !.until = e]
      BY <2>1, <3>1 DEF Active
    <3>2. CASE req'[r] = [pc |-> "done", reply |-> "session"]
      BY <3>2
    <3>3. QED
      BY <1>3, <2>4, <3>1, <3>2, AdmitType
  <2>5. ASSUME NEW b \in BOOLEAN, Refuse(r, b)
        PROVE  req'[r].pc = "done" \/ req'[r].since = now
    BY <2>2, <2>3, <2>5 DEF Refuse, Step, Reply
  <2>6. CASE PeekValid(r)
    BY <2>2, <2>6 DEF PeekValid, Step
  <2>7. CASE Allow(r) \/ ConsultBudget(r) \/ Penalise(r)
    BY <2>2, <2>3, <2>7 DEF Allow, ConsultBudget, Penalise, Step, Reply
  <2>8. CASE Lookup(r) \/ LandValid(r) \/ LandRejected(r) \/ LandInconclusive(r)
    <3>1. req[r].key \in Key /\ now \in Nat
      BY <2>1 DEF Active, TypeOK
    <3>2. cache[req[r].key] \in Nat /\ now + EntryTTL(req[r].key) \in Nat
      BY <3>1, TTLType DEF TypeOK
    <3>3. \/ \E e \in Nat : Admit(r, e)
          \/ \E b \in BOOLEAN : Refuse(r, b)
          \/ Goto(r, "asking")
      BY <2>8, <3>2 DEF Lookup, LandValid, LandRejected, LandInconclusive
    <3>4. QED
      BY <1>1, <2>2, <2>4, <2>5, <3>3 DEF Step
  <2>9. CASE Ask(r)
    <3>1. PICK v \in Verdict : req' =
            [req EXCEPT ![r].pc = "landing", ![r].since = now, ![r].verdict = v]
      BY <2>9 DEF Ask, Verdict
    <3>2. req'[r] = [req[r] EXCEPT !.pc = "landing", !.since = now, !.verdict = v]
      BY <3>1 DEF TypeOK
    <3>3. QED
      BY <1>1, <2>1, <3>2 DEF Active
  <2>10. QED
    BY <1>1, <1>2, <2>6, <2>7, <2>8, <2>9 DEF Serve
<1>4. CASE req[r].pc = "done"
  BY <1>1, <1>2, <1>4 DEF Serve, PeekValid, Allow, ConsultBudget, Lookup, Ask,
     LandValid, LandRejected, LandInconclusive, Penalise
<1>5. QED
  BY <1>1, <1>3, <1>4

(* What one step does to the limiter's account of one address.             *)

Uncounted(ip) == granted'[ip] = granted[ip] /\ punished'[ip] = punished[ip]

\* Nothing but an eviction touches the account.
Untouched(ip) ==
  /\ now' = now /\ Uncounted(ip) /\ late'[ip] = late[ip]
  /\ \/ bucket'[ip] = bucket[ip]
     \/ bucket'[ip].window = -1 /\ bucket[ip].window < Window(now)

Elapses(ip) ==
  /\ now' = now + 1 /\ bucket'[ip] = bucket[ip]
  /\ IF Window(now + 1) = Window(now)
     THEN Uncounted(ip) /\ late'[ip] = late[ip]
     ELSE granted'[ip] = 0 /\ punished'[ip] = 0 /\ late'[ip] = {}

\* r consults the account, or charges it, at the time t.
Consults(r, t, ip) ==
  /\ ConsultBudget(r) /\ Uncounted(ip) /\ bucket'[ip] = bucket[ip]
  /\ IF Over(ip, Window(t)) THEN Answer(r, "429") ELSE Goto(r, "lookup")

Charges(r, t, ip) ==
  /\ bucket'[ip] = Charged(ip, Window(t))
  /\ \/ /\ Allow(r) /\ Charged(ip, Window(t)).count <= RPM /\ Goto(r, "lookup")
        /\ granted'[ip] = granted[ip] + 1 /\ punished'[ip] = punished[ip]
     \/ /\ Allow(r) /\ Charged(ip, Window(t)).count > RPM /\ Answer(r, "429")
        /\ Uncounted(ip)
     \/ /\ Penalise(r)
        /\ granted'[ip] = granted[ip] /\ punished'[ip] = punished[ip] + 1

LEMMA AccountStep ==
  ASSUME TypeOK, RPM # 0, [Next]_vars, NEW ip \in IP
  PROVE  \/ Untouched(ip)
         \/ Elapses(ip)
         \/ \E r \in Req : \E t \in ClockRead(r) :
              /\ req[r].pc # "done" /\ req[r].ip = ip /\ now' = now /\ Meets(r, t)
              /\ Consults(r, t, ip) \/ Charges(r, t, ip)
<1> DEFINE Goal == \/ Untouched(ip)
                   \/ Elapses(ip)
                   \/ \E r \in Req : \E t \in ClockRead(r) :
                        /\ req[r].pc # "done" /\ req[r].ip = ip /\ now' = now /\ Meets(r, t)
                        /\ Consults(r, t, ip) \/ Charges(r, t, ip)
<1>1. CASE UNCHANGED <<now, bucket, granted, punished, late>>
  BY <1>1 DEF Untouched, Uncounted
<1>2. ASSUME NEW r \in Req, ConsultBudget(r)
      PROVE  Goal
  <2>1. req[r].pc # "done" /\ now' = now /\ UNCHANGED <<bucket, granted, punished>>
    BY <1>2 DEF ConsultBudget
  <2>2. PICK t \in ClockRead(r) :
          /\ Meets(r, t)
          /\ IF Over(req[r].ip, Window(t)) THEN Answer(r, "429") ELSE Goto(r, "lookup")
    BY <1>2 DEF ConsultBudget
  <2>3. CASE req[r].ip = ip
    <3>1. Consults(r, t, ip)
      BY <1>2, <2>1, <2>2, <2>3 DEF Consults, Uncounted
    <3>2. QED
      BY <2>1, <2>2, <2>3, <3>1
  <2>4. CASE req[r].ip # ip
    <3>1. late'[ip] = late[ip]
      BY <2>2, <2>4 DEF Meets, TypeOK
    <3>2. QED
      BY <2>1, <3>1 DEF Untouched, Uncounted
  <2>5. QED
    BY <2>3, <2>4
<1>3. ASSUME NEW r \in Req, Allow(r)
      PROVE  Goal
  <2>1. req[r].pc # "done" /\ now' = now /\ punished' = punished
    BY <1>3 DEF Allow
  <2>2. req[r].ip \in IP
    BY <2>1, ActiveRequest DEF Active
  <2>3. PICK t \in ClockRead(r) :
          /\ Meets(r, t)
          /\ bucket' = [bucket EXCEPT ![req[r].ip] = Charged(req[r].ip, Window(t))]
          /\ \/ /\ Charged(req[r].ip, Window(t)).count <= RPM
                /\ Goto(r, "lookup")
                /\ granted' = [granted EXCEPT ![req[r].ip] = @ + 1]
             \/ /\ Charged(req[r].ip, Window(t)).count > RPM
                /\ Answer(r, "429")
                /\ granted' = granted
    BY <1>3 DEF Allow
  <2>4. CASE req[r].ip = ip
    <3>1. bucket'[ip] = Charged(ip, Window(t))
      BY <2>3, <2>4 DEF TypeOK
    <3>2. \/ /\ Charged(ip, Window(t)).count <= RPM /\ Goto(r, "lookup")
             /\ granted'[ip] = granted[ip] + 1
          \/ /\ Charged(ip, Window(t)).count > RPM /\ Answer(r, "429")
             /\ granted'[ip] = granted[ip]
      BY <2>3, <2>4 DEF TypeOK
    <3>3. Charges(r, t, ip)
      BY <1>3, <2>1, <3>1, <3>2 DEF Charges, Uncounted
    <3>4. QED
      BY <2>1, <2>3, <2>4, <3>3
  <2>5. CASE req[r].ip # ip
    <3>1. late'[ip] = late[ip]
      BY <2>3, <2>5 DEF Meets, TypeOK
    <3>2. bucket'[ip] = bucket[ip] /\ granted'[ip] = granted[ip]
      BY <2>3, <2>5 DEF TypeOK
    <3>3. QED
      BY <2>1, <3>1, <3>2 DEF Untouched, Uncounted
  <2>6. QED
    BY <2>4, <2>5
<1>4. ASSUME NEW r \in Req, Penalise(r)
      PROVE  Goal
  <2>1. req[r].pc # "done" /\ now' = now /\ granted' = granted
    BY <1>4 DEF Penalise
  <2>2. PICK t \in ClockRead(r) :
          /\ Meets(r, t)
          /\ bucket' = [bucket EXCEPT ![req[r].ip] = Charged(req[r].ip, Window(t))]
          /\ punished' = [punished EXCEPT ![req[r].ip] = @ + 1]
    BY <1>4 DEF Penalise
  <2>3. CASE req[r].ip = ip
    <3>1. bucket'[ip] = Charged(ip, Window(t)) /\ punished'[ip] = punished[ip] + 1
      BY <2>2, <2>3 DEF TypeOK
    <3>2. Charges(r, t, ip)
      BY <1>4, <2>1, <3>1 DEF Charges
    <3>3. QED
      BY <2>1, <2>2, <2>3, <3>2
  <2>4. CASE req[r].ip # ip
    <3>1. late'[ip] = late[ip]
      BY <2>2, <2>4 DEF Meets, TypeOK
    <3>2. bucket'[ip] = bucket[ip] /\ punished'[ip] = punished[ip]
      BY <2>2, <2>4 DEF TypeOK
    <3>3. QED
      BY <2>1, <3>1, <3>2 DEF Untouched, Uncounted
  <2>5. QED
    BY <2>3, <2>4
<1>5. ASSUME NEW r \in Req, Serve(r), ~Allow(r), ~Penalise(r), ~ConsultBudget(r)
      PROVE  UNCHANGED <<now, bucket, granted, punished, late>>
  BY <1>5 DEF Serve, Arrive, PeekValid, Lookup, Ask, LandValid,
              LandRejected, LandInconclusive, history
<1>6. CASE EvictExpired \/ UNCHANGED vars \/ \E k \in Key : Switch(k)
  BY <1>1, <1>6 DEF EvictExpired, Switch, vars, history
<1>7. CASE EvictIdle
  <2>1. now' = now /\ UNCHANGED <<granted, punished, late>>
    BY <1>7 DEF EvictIdle, history
  <2>2. bucket'[ip] = IF bucket[ip].window < Window(now) - 2 THEN NoBucket ELSE bucket[ip]
    BY <1>7 DEF EvictIdle
  <2>3. \/ bucket'[ip] = bucket[ip]
        \/ bucket'[ip].window = -1 /\ bucket[ip].window < Window(now)
    BY <2>2, LimiterTypes DEF NoBucket
  <2>4. QED
    BY <2>1, <2>3 DEF Untouched, Uncounted
<1>8. CASE Tick
  BY <1>8 DEF Tick, Elapses, Uncounted
<1>9. QED
  BY <1>1, <1>2, <1>3, <1>4, <1>5, <1>6, <1>7, <1>8 DEF Next

LEMMA ClockNext == TypeOK /\ ClockInv /\ [Next]_vars => ClockInv'
<1> SUFFICES ASSUME TypeOK, ClockInv, [Next]_vars, RPM # 0, NEW ip \in IP
             PROVE  /\ bucket'[ip].window <= Window(now)'
                    /\ \A r \in late'[ip] : \/ req'[r].pc = "done"
                                            \/ Window(req'[r].since) = Window(now)'
  BY DEF ClockInv, Window
<1>0. Window(now)' = Window(now')
  BY DEF Window
<1>1. /\ now \in Nat /\ Window(now) \in Nat /\ bucket[ip].window \in Int
      /\ bucket[ip].window <= Window(now) /\ late[ip] \subseteq Req
  BY LimiterTypes DEF ClockInv, TypeOK
<1>2. Window(now) <= Window(now + 1) /\ Window(now + 1) \in Nat
  <2>1. now + 1 \in Nat /\ now <= now + 1
    BY <1>1
  <2>2. QED
    BY <1>1, <2>1, WindowOrder
\* Who was late before, and in this minute, stays settled.
<1>3. ASSUME NEW r \in late[ip], Window(now)' = Window(now)
      PROVE  req'[r].pc = "done" \/ Window(req'[r].since) = Window(now)'
  <2>1. CASE req'[r] = req[r]
    BY <1>3, <2>1 DEF ClockInv
  <2>2. CASE req'[r] # req[r]
    BY <1>1, <1>3, <2>2, SinceStep
  <2>3. QED
    BY <2>1, <2>2
<1>4. CASE Untouched(ip)
  BY <1>0, <1>1, <1>3, <1>4 DEF Untouched
<1>5. CASE Elapses(ip)
  BY <1>0, <1>1, <1>2, <1>3, <1>5 DEF Elapses
<1>6. ASSUME NEW r \in Req, NEW t \in ClockRead(r), req[r].pc # "done",
             req[r].ip = ip, now' = now, Meets(r, t),
             Consults(r, t, ip) \/ Charges(r, t, ip)
      PROVE  /\ bucket'[ip].window <= Window(now)'
             /\ \A q \in late'[ip] : \/ req'[q].pc = "done"
                                     \/ Window(req'[q].since) = Window(now)'
  <2>1. Window(now)' = Window(now)
    BY <1>0, <1>6
  <2>2. Window(t) <= Window(now) /\ Window(t) \in Nat
    BY <1>6, ActiveRequest, WindowOrder DEF ClockRead, Active, TypeOK
  <2>3. bucket'[ip].window <= Window(now)
    BY <1>1, <1>6, <2>2 DEF Consults, Charges, Charged, TypeOK
  <2>4. late'[ip] \subseteq late[ip] \cup {r}
    BY <1>6, MeetsStep
  <2>5. req'[r].pc = "done" \/ req'[r].since = now
    <3>1. \/ Goto(r, "lookup")
          \/ \E reply \in Reply : Answer(r, reply)
      BY <1>6 DEF Consults, Charges, Penalise, Reply
    <3>2. ASSUME Goto(r, "lookup")
          PROVE  req'[r].since = now
      <4>1. req'[r] = [req[r] EXCEPT !.pc = "lookup", !.since = now]
        BY <1>6, <3>2, GotoType DEF Step
      <4>2. req[r] \in Active
        BY <1>6, ActiveRequest
      <4>3. QED
        BY <4>1, <4>2 DEF Active
    <3>3. ASSUME NEW reply \in Reply, Answer(r, reply)
          PROVE  req'[r].pc = "done"
      <4>1. req'[r] = [pc |-> "done", reply |-> reply]
        BY <3>3, AnswerType
      <4>2. QED
        BY <4>1
    <3>4. QED
      BY <3>1, <3>2, <3>3
  <2>6. QED
    BY <1>3, <2>1, <2>3, <2>4, <2>5
<1>7. QED
  BY <1>4, <1>5, <1>6, AccountStep

-----------------------------------------------------------------------------
(* The budget of a minute.                                                 *)

\* Each late request adds at most what a full bucket and itself amount to.
BudgetInv ==
  RPM # 0 => \A ip \in IP :
    /\ granted[ip] <= (RPM + 1) * Lates(ip) + Filled(ip)
    /\ Filled(ip) <= Used(ip)

\* The four ways a step can change the account of one address.
Steady(ip) ==
  /\ granted'[ip] = granted[ip] /\ Used(ip)' = Used(ip) /\ Filled(ip)' = Filled(ip)
  /\ Lates(ip)' = Lates(ip)

Passing(ip) ==
  /\ granted'[ip] = granted[ip] /\ Used(ip)' = Used(ip) /\ Filled(ip)' = Filled(ip)
  /\ Lates(ip)' = Lates(ip) + 1

Fresh(ip) ==
  /\ granted'[ip] = 0 /\ Used(ip)' = 0 /\ Filled(ip)' = 0 /\ Lates(ip)' = 0

Counted(ip) ==
  /\ Used(ip)' = Used(ip) + 1 /\ Lates(ip)' = Lates(ip)
  /\ \E r \in Req : req[r].ip = ip /\ (Penalise(r) \/ (Allow(r) /\ Goto(r, "lookup")))
  /\ \/ /\ Filled(ip) < RPM /\ Filled(ip)' = Filled(ip) + 1
        /\ granted'[ip] \in {granted[ip], granted[ip] + 1}
     \/ /\ Filled(ip) = RPM /\ Filled(ip)' = RPM /\ granted'[ip] = granted[ip]
        /\ \E r \in Req : req[r].ip = ip /\ Penalise(r)

Restarted(ip) ==
  /\ Used(ip)' \in {Used(ip), Used(ip) + 1} /\ Lates(ip)' = Lates(ip) + 1
  /\ granted'[ip] \in {granted[ip], granted[ip] + 1} /\ Filled(ip)' = 0

LEMMA BudgetStep ==
  ASSUME TypeOK, ClockInv, RPM # 0, [Next]_vars, NEW ip \in IP
  PROVE  \/ Steady(ip)
         \/ Passing(ip)
         \/ Fresh(ip)
         \/ Counted(ip)
         \/ Restarted(ip)
<1>0. /\ now \in Nat /\ Window(now) \in Nat /\ RPM \in Nat
      /\ bucket[ip].window \in Int /\ bucket[ip].count \in Nat
      /\ bucket[ip].window <= Window(now)
      /\ granted[ip] \in Nat /\ punished[ip] \in Nat
  BY LimiterTypes DEF ClockInv
<1>1. Window(now)' = Window(now')
  BY DEF Window
<1>2. CASE Untouched(ip)
  <2>1. Window(now)' = Window(now) /\ Used(ip)' = Used(ip) /\ Lates(ip)' = Lates(ip)
    BY <1>1, <1>2 DEF Untouched, Uncounted, Used, Lates
  <2>2. Filled(ip)' = Filled(ip)
    BY <1>0, <1>2, <2>1 DEF Untouched, Filled
  <2>3. QED
    BY <1>2, <2>1, <2>2 DEF Untouched, Uncounted, Steady
<1>3. CASE Elapses(ip) /\ Window(now + 1) = Window(now)
  <2>1. Window(now)' = Window(now) /\ Used(ip)' = Used(ip) /\ Lates(ip)' = Lates(ip)
    BY <1>1, <1>3 DEF Elapses, Uncounted, Used, Lates
  <2>2. Filled(ip)' = Filled(ip)
    BY <1>3, <2>1 DEF Elapses, Filled
  <2>3. QED
    BY <1>3, <2>1, <2>2 DEF Elapses, Uncounted, Steady
<1>4. CASE Elapses(ip) /\ Window(now + 1) # Window(now)
  <2>1. Window(now + 1) \in Nat /\ Window(now) <= Window(now + 1)
    <3>1. now + 1 \in Nat /\ now <= now + 1
      BY <1>0
    <3>2. QED
      BY <1>0, <3>1, WindowOrder
  <2>2. bucket'[ip].window # Window(now)'
    BY <1>0, <1>1, <1>4, <2>1 DEF Elapses
  <2>3. Used(ip)' = 0 /\ granted'[ip] = 0
    BY <1>4 DEF Elapses, Used
  <2>4. Lates(ip)' = 0
    BY <1>4, FS_EmptySet DEF Elapses, Lates
  <2>5. Filled(ip)' = 0
    BY <2>2 DEF Filled
  <2>6. QED
    BY <2>3, <2>4, <2>5 DEF Fresh
<1>5. ASSUME NEW r \in Req, NEW t \in ClockRead(r), req[r].pc # "done",
             req[r].ip = ip, now' = now, Meets(r, t), Consults(r, t, ip)
      PROVE  Steady(ip) \/ Passing(ip)
  <2>1. Window(now)' = Window(now) /\ Used(ip)' = Used(ip) /\ granted'[ip] = granted[ip]
    BY <1>1, <1>5 DEF Consults, Uncounted, Used
  <2>2. Filled(ip)' = Filled(ip)
    BY <1>5, <2>1 DEF Consults, Filled
  <2>3. Lates(ip)' = Lates(ip) \/ Lates(ip)' = Lates(ip) + 1
    BY <1>5, MeetsStep DEF Lates
  <2>4. QED
    BY <2>1, <2>2, <2>3 DEF Steady, Passing
<1>6. ASSUME NEW r \in Req, NEW t \in ClockRead(r), req[r].pc # "done",
             req[r].ip = ip, now' = now, Meets(r, t), Charges(r, t, ip)
      PROVE  Steady(ip) \/ Counted(ip) \/ Restarted(ip)
  <2>1. Window(now)' = Window(now)
    BY <1>1, <1>6
  <2>2. /\ granted'[ip] \in {granted[ip], granted[ip] + 1}
        /\ Used(ip)' \in {Used(ip), Used(ip) + 1}
    BY <1>0, <1>6 DEF Charges, Uncounted, Used
  <2>3. CASE Window(t) < Window(now)
    <3>1. Window(t) \in Nat
      BY <1>6, ActiveRequest, WindowType DEF ClockRead, Active, TypeOK
    <3>2. bucket'[ip].window = Window(t)
      BY <1>6 DEF Charges, Charged, TypeOK
    <3>3. Filled(ip)' = 0
      BY <1>0, <2>1, <2>3, <3>1, <3>2 DEF Filled
    <3>4. Lates(ip)' = Lates(ip) + 1
      BY <1>0, <1>6, <2>3, <3>1, MeetsStep
    <3>5. QED
      BY <2>2, <3>3, <3>4 DEF Restarted
  <2>4. CASE ~(Window(t) < Window(now))
    <3>1. Window(t) = Window(now) /\ Lates(ip)' = Lates(ip)
      BY <1>6, <2>4, MeetsStep DEF Lates
    <3> DEFINE b == Charged(ip, Window(now))
    <3>2. bucket'[ip] = b
      BY <1>6, <3>1 DEF Charges
    <3>3. /\ b.window = Window(now) /\ b.count \in Nat /\ b.count # 0
          /\ Filled(ip) = IF b.count - 1 < RPM THEN b.count - 1 ELSE RPM
      <4>1. CASE bucket[ip].window = Window(now)
        <5>1. b.window = Window(now) /\ b.count = bucket[ip].count + 1
          BY <4>1 DEF Charged, TypeOK
        <5>2. QED
          BY <1>0, <4>1, <5>1 DEF Filled
      <4>2. CASE bucket[ip].window # Window(now)
        <5>1. b = [window |-> Window(now), count |-> 1]
          BY <4>2 DEF Charged
        <5>2. b.window = Window(now) /\ b.count = 1
          BY <5>1
        <5>3. QED
          BY <1>0, <4>2, <5>2 DEF Filled
      <4>3. QED
        BY <4>1, <4>2
    <3>4. Filled(ip)' = IF b.count < RPM THEN b.count ELSE RPM
      BY <2>1, <3>2, <3>3 DEF Filled
    <3> HIDE DEF b
    <3>5. CASE Allow(r) /\ b.count <= RPM /\ Goto(r, "lookup") /\
               granted'[ip] = granted[ip] + 1 /\ punished'[ip] = punished[ip]
      <4>1. Used(ip)' = Used(ip) + 1
        BY <1>0, <3>5 DEF Used
      <4>2. Filled(ip) < RPM /\ Filled(ip)' = Filled(ip) + 1
        BY <1>0, <3>3, <3>4, <3>5
      <4>3. QED
        BY <1>6, <3>1, <3>5, <4>1, <4>2 DEF Counted
    <3>6. CASE b.count > RPM /\ Uncounted(ip)
      <4>1. Used(ip)' = Used(ip) /\ granted'[ip] = granted[ip]
        BY <3>6 DEF Used, Uncounted
      <4>2. Filled(ip) = RPM /\ Filled(ip)' = RPM
        BY <1>0, <3>3, <3>4, <3>6
      <4>3. QED
        BY <3>1, <4>1, <4>2 DEF Steady
    <3>7. CASE Penalise(r) /\ granted'[ip] = granted[ip] /\ punished'[ip] = punished[ip] + 1
      <4>1. Used(ip)' = Used(ip) + 1
        BY <1>0, <3>7 DEF Used
      <4>2. \/ Filled(ip) < RPM /\ Filled(ip)' = Filled(ip) + 1
            \/ Filled(ip) = RPM /\ Filled(ip)' = RPM
        BY <1>0, <3>3, <3>4
      <4>3. \E q \in Req : req[q].ip = ip /\ Penalise(q)
        BY <1>6, <3>7
      <4>4. granted'[ip] = granted[ip] /\ granted'[ip] \in {granted[ip], granted[ip] + 1}
        BY <3>7
      <4>5. QED
        BY <3>1, <4>1, <4>2, <4>3, <4>4 DEF Counted
    <3>8. QED
      BY <1>6, <3>1, <3>5, <3>6, <3>7 DEF Charges, b
  <2>5. QED
    BY <2>3, <2>4
<1>7. QED
  BY <1>2, <1>3, <1>4, <1>5, <1>6, AccountStep

LEMMA BudgetInit == Init => BudgetInv
<1> SUFFICES ASSUME Init, RPM # 0, NEW ip \in IP
             PROVE  granted[ip] = 0 /\ Filled(ip) = 0 /\ Used(ip) = 0 /\ Lates(ip) = 0
  BY BudgetAssumption DEF BudgetInv
<1>1. Window(now) \in Nat
  BY InitType, WindowType DEF TypeOK
<1>2. /\ bucket[ip].window = -1 /\ granted[ip] = 0 /\ punished[ip] = 0
      /\ late[ip] = {}
  BY DEF Init, NoBucket
<1>3. QED
  BY <1>1, <1>2, FS_EmptySet DEF Filled, Used, Lates

LEMMA BudgetNext ==
  ASSUME TypeOK, ClockInv, BudgetInv, [Next]_vars
  PROVE  BudgetInv'
<1> SUFFICES ASSUME RPM # 0, NEW ip \in IP
             PROVE  /\ granted'[ip] <= (RPM + 1) * Lates(ip)' + Filled(ip)'
                    /\ Filled(ip)' <= Used(ip)'
  BY DEF BudgetInv
<1> DEFINE share == (RPM + 1) * Lates(ip)
<1>1. /\ RPM \in Nat /\ granted[ip] \in Nat /\ Used(ip) \in Nat /\ Lates(ip) \in Nat
      /\ Filled(ip) \in Nat /\ Filled(ip) <= RPM
  BY LimiterTypes
<1>2. share \in Nat /\ (RPM + 1) * (Lates(ip) + 1) = share + RPM + 1
  BY <1>1, SMT
<1>3. granted[ip] <= share + Filled(ip) /\ Filled(ip) <= Used(ip)
  BY DEF BudgetInv
<1>4. (RPM + 1) * 0 = 0
  BY <1>1
<1> HIDE DEF share
<1>5. CASE Steady(ip)
  BY <1>3, <1>5 DEF Steady, share
<1>6. CASE Passing(ip)
  BY <1>1, <1>2, <1>3, <1>6 DEF Passing
<1>7. CASE Fresh(ip)
  BY <1>4, <1>7 DEF Fresh
<1>8. CASE Counted(ip)
  <2>1. (RPM + 1) * Lates(ip)' = share
    BY <1>8 DEF Counted, share
  <2>2. QED
    BY <1>1, <1>2, <1>3, <1>8, <2>1 DEF Counted
<1>9. CASE Restarted(ip)
  BY <1>1, <1>2, <1>3, <1>9 DEF Restarted
<1>10. QED
  BY <1>5, <1>6, <1>7, <1>8, <1>9, BudgetStep

\* For every budget, number of requests and slack of the clock, no address gets
\* more than its budget in a minute but for what late requests give it.
THEOREM BudgetHolds == Spec => []BudgetPerMinute
<1>1. ASSUME TypeOK, BudgetInv
      PROVE  BudgetPerMinute
  <2> SUFFICES ASSUME RPM # 0, NEW ip \in IP
               PROVE  granted[ip] <= RPM + (RPM + 1) * Lates(ip)
    BY DEF BudgetPerMinute, Lates
  <2> DEFINE share == (RPM + 1) * Lates(ip)
  <2>1. /\ RPM \in Nat /\ granted[ip] \in Nat /\ Lates(ip) \in Nat
        /\ Filled(ip) \in Nat /\ Filled(ip) <= RPM
    BY <1>1, LimiterTypes
  <2>2. share \in Nat /\ granted[ip] <= share + Filled(ip)
    BY <1>1, <2>1 DEF BudgetInv
  <2> HIDE DEF share
  <2>3. granted[ip] <= RPM + share
    BY <2>1, <2>2
  <2>4. QED
    BY <2>3 DEF share
<1>2. TypeOK /\ ClockInv /\ BudgetInv /\ [Next]_vars => BudgetInv'
  BY BudgetNext
<1>3. QED
  BY <1>1, <1>2, InitType, NextType, ClockInit, ClockNext, BudgetInit, PTL
     DEF Spec

\* An address that is refused, by the clock of this minute, has used it up.
LEMMA RefusalStep ==
  ASSUME TypeOK, ClockInv, BudgetInv, [Next]_vars, NEW r \in Req,
         NEW i \in IP, req[r].ip = i, Answers(r, "429")
  PROVE  r \in late'[i] \/ granted[i] + punished[i] >= RPM
<1>1. req[r].pc # "done" /\ req'[r] = [pc |-> "done", reply |-> "429"]
  BY DEF Answers
<1>2. req[r] \in Active /\ req'[r] # req[r]
  BY <1>1, ActiveRequest
<1>3. /\ now \in Nat /\ Window(now) \in Nat /\ RPM \in Nat
      /\ bucket[i].window \in Int /\ bucket[i].count \in Nat
      /\ granted[i] \in Nat /\ punished[i] \in Nat
  BY LimiterTypes
<1>4. CASE RPM = 0
  BY <1>3, <1>4
<1>5. ~Goto(r, "lookup")
  <2>1. ASSUME Goto(r, "lookup")
        PROVE  FALSE
    <3>1. req'[r].pc = "lookup"
      BY <1>1, <2>1, GotoType DEF Step
    <3>2. QED
      BY <1>1, <3>1
  <2>2. QED
    BY <2>1
<1>6. CASE RPM # 0 /\ (Allow(r) \/ ConsultBudget(r))
  <2>1. PICK t \in ClockRead(r) :
          /\ Meets(r, t)
          /\ Charged(i, Window(t)).count > RPM \/ Over(i, Window(t))
    BY <1>5, <1>6 DEF Allow, ConsultBudget
  <2>2. r \in late'[i] \/ Window(t) = Window(now)
    BY <1>1, <1>6, <2>1, MeetsStep
  <2>3. CASE Window(t) = Window(now)
    <3>1. bucket[i].window = Window(now) /\ Filled(i) = RPM
      <4>1. CASE Over(i, Window(now))
        BY <1>3, <4>1 DEF Over, Filled
      <4>2. CASE Charged(i, Window(now)).count > RPM /\ bucket[i].window = Window(now)
        <5>1. bucket[i].count + 1 > RPM
          BY <4>2 DEF Charged, TypeOK
        <5>2. QED
          BY <1>3, <4>2, <5>1 DEF Filled
      <4>3. CASE Charged(i, Window(now)).count > RPM /\ bucket[i].window # Window(now)
        <5>1. 1 > RPM
          BY <4>3 DEF Charged
        <5>2. QED
          BY <1>3, <1>6, <5>1
      <4>4. QED
        BY <2>1, <2>3, <4>1, <4>2, <4>3
    <3>2. QED
      BY <1>6, <3>1 DEF BudgetInv, Used
  <2>4. QED
    BY <2>2, <2>3
<1>7. Allow(r) \/ ConsultBudget(r)
  <2>1. req'[r].pc = "done" /\ req'[r].reply = "429"
    BY <1>1
  <2>2. CASE PeekValid(r)
    <3>1. PICK pc \in Step : Goto(r, pc)
      BY <2>2 DEF PeekValid, Step
    <3>2. req'[r].pc = pc
      BY <1>1, <3>1, GotoType
    <3>3. QED
      BY <2>1, <3>2 DEF Step
  <2>3. CASE Lookup(r) \/ LandValid(r) \/ LandRejected(r) \/ LandInconclusive(r)
    <3>1. req[r].key \in Key
      BY <1>2 DEF Active
    <3>2. cache[req[r].key] \in Nat /\ now + EntryTTL(req[r].key) \in Nat
      BY <1>3, <3>1, TTLType DEF TypeOK
    <3>3. \/ \E e \in Nat : Admit(r, e)
          \/ \E b \in BOOLEAN : Refuse(r, b)
          \/ Goto(r, "asking")
      BY <2>3, <3>2 DEF Lookup, LandValid, LandRejected, LandInconclusive
    <3>4. ASSUME NEW e \in Nat, Admit(r, e)
          PROVE  FALSE
      <4>1. req'[r].pc = "lookup" \/ req'[r] = [pc |-> "done", reply |-> "session"]
        BY <1>1, <3>4, AdmitType
      <4>2. QED
        BY <1>1, <4>1
    <3>5. ASSUME NEW b \in BOOLEAN, Refuse(r, b)
          PROVE  FALSE
      <4>1. \/ req'[r] = [pc |-> "done", reply |-> "anonymous"]
            \/ req'[r] \in [pc: {"done"}, reply: {"403", "503"}]
            \/ req'[r].pc = "penalty"
        BY <1>1, <3>5, RefuseType
      <4>2. QED
        BY <1>1, <4>1
    <3>6. ASSUME Goto(r, "asking")
          PROVE  FALSE
      <4>1. req'[r].pc = "asking"
        BY <1>1, <3>6, GotoType DEF Step
      <4>2. QED
        BY <2>1, <4>1
    <3>7. QED
      BY <3>3, <3>4, <3>5, <3>6
  <2>4. CASE Ask(r)
    <3>1. PICK v \in Verdict : req' =
            [req EXCEPT ![r].pc = "landing", ![r].since = now, ![r].verdict = v]
      BY <2>4 DEF Ask, Verdict
    <3>2. req'[r] = [req[r] EXCEPT !.pc = "landing", !.since = now, !.verdict = v]
      BY <3>1 DEF TypeOK
    <3>3. req'[r].pc = "landing"
      BY <1>2, <3>2 DEF Active
    <3>4. QED
      BY <2>1, <3>3
  <2>5. CASE Penalise(r)
    <3>1. req'[r] = [pc |-> "done", reply |-> "401"]
      BY <2>5, AnswerType DEF Penalise, Reply
    <3>2. QED
      BY <2>1, <3>1
  <2>6. CASE \E via \in Via, k \in Key, ip \in IP : Arrive(r, via, k, ip)
    BY <1>1, <2>6 DEF Arrive
  <2>7. QED
    BY <1>2, <2>2, <2>3, <2>4, <2>5, <2>6, OwnStep DEF Serve
<1>8. QED
  BY <1>4, <1>6, <1>7

\* Whoever is refused, and read the clock in this minute, is refused because
\* the attempts and the rejections of this very minute have used the budget up.
THEOREM Justified429Holds == Spec => Justified429
<1>1. ASSUME TypeOK, ClockInv, BudgetInv, [Next]_vars, NEW r \in Req,
             Answers(r, "429")
      PROVE  \/ r \in late'[req[r].ip]
             \/ granted[req[r].ip] + punished[req[r].ip] >= RPM
  <2>1. req[r].ip \in IP
    BY <1>1, ActiveRequest DEF Answers, Active
  <2>2. QED
    BY <1>1, <2>1, RefusalStep
<1>2. TypeOK /\ ClockInv /\ BudgetInv /\ [Next]_vars =>
        [\A r \in Req : Answers(r, "429") =>
           \/ r \in late'[req[r].ip]
           \/ granted[req[r].ip] + punished[req[r].ip] >= RPM]_vars
  BY <1>1
<1>3. TypeOK /\ ClockInv /\ BudgetInv /\ [Next]_vars => BudgetInv'
  BY BudgetNext
<1>4. QED
  BY <1>2, <1>3, InitType, NextType, ClockInit, ClockNext, BudgetInit, PTL
     DEF Spec, Justified429

-----------------------------------------------------------------------------
(***************************************************************************)
(* GuessOverrun.  An OAuth request only consults the budget, and is        *)
(* charged when Mesh has refused its token; between the two it is Past the *)
(* limiter.  Once the bucket has counted the budget, nobody gets past any  *)
(* more who is not late, and every further rejection is of a request that  *)
(* was past before: their sum cannot grow.  The request that used up the   *)
(* last of the budget is not among them.  A late request brings itself, or *)
(* restarts the bucket: either is within another Allowance.                *)
(*                                                                         *)
(* A token that Mesh accepted would get past the limiter by its entry in   *)
(* the cache: Unaccepted says there is none, and none on its way.          *)
(***************************************************************************)
NeverAccepted == \A k \in OAuthToken : ~mesh[k] /\ switched[k] = 0

Passed(r) ==
  /\ req[r].pc \in {"lookup", "asking", "landing", "penalty"}
  /\ req[r].pass = "gate" /\ ViaOAuth(r)

Past(ip) == {r \in Req : Passed(r) /\ req[r].ip = ip}

Unaccepted ==
  /\ \A k \in OAuthToken : cache[k] = Absent
  /\ \A r \in Req : req[r].pc = "landing" /\ ViaOAuth(r) => req[r].verdict # "valid"

Penalised == \A r \in Req : req[r].pc = "penalty" => Passed(r)

Allowance == RPM + Cardinality(Req)

Crowded(ip) ==
  IF Filled(ip) < RPM
  THEN Used(ip) <= Allowance * Lates(ip) + Filled(ip)
  ELSE Used(ip) + Cardinality(Past(ip)) < Allowance * (Lates(ip) + 1)

OverrunInv ==
  /\ now # 0 /\ Penalised
  /\ NeverAccepted => Unaccepted
  /\ RPM # 0 /\ NeverAccepted => \A ip \in IP : Crowded(ip)

LEMMA OverrunInit == Init => OverrunInv
<1> SUFFICES ASSUME Init
             PROVE  OverrunInv
  OBVIOUS
<1>1. now # 0
  BY TimeAssumption DEF Init, Epoch
<1>2. Penalised /\ Unaccepted
  BY DEF Init, Penalised, Unaccepted, Key
<1>3. ASSUME RPM # 0, NEW ip \in IP
      PROVE  Crowded(ip)
  <2>1. granted[ip] = 0 /\ punished[ip] = 0 /\ bucket[ip].window = -1 /\ late[ip] = {}
    BY DEF Init, NoBucket
  <2>2. Window(now) \in Nat
    BY InitType, WindowType DEF TypeOK
  <2>3. Used(ip) = 0 /\ Filled(ip) = 0 /\ Lates(ip) = 0
    BY <2>1, <2>2, FS_EmptySet DEF Used, Filled, Lates
  <2>4. Allowance \in Nat
    BY RequestsAssumption, BudgetAssumption, FS_CardinalityType DEF Allowance
  <2>5. QED
    BY <1>3, <2>3, <2>4, BudgetAssumption DEF Crowded
<1>4. QED
  BY <1>1, <1>2, <1>3 DEF OverrunInv

\* A request gets past the limiter, while Mesh has accepted no token, only by
\* consulting the budget, and keeps its address.
LEMMA PassedStep ==
  ASSUME TypeOK, Unaccepted, Penalised, [Next]_vars, NEW r \in Req,
         req'[r] # req[r], Passed(r)'
  PROVE  /\ Passed(r) \/ ConsultBudget(r)
         /\ req'[r].ip = req[r].ip
<1>1. Serve(r)
  BY OwnStep
<1>2. /\ req'[r].pc \in {"lookup", "asking", "landing", "penalty"}
      /\ req'[r].pass = "gate" /\ req'[r].key \in OAuthToken
  BY DEF Passed, ViaOAuth
<1>3. ASSUME NEW via \in Via, NEW k \in Key, NEW ip \in IP, Arrive(r, via, k, ip)
      PROVE  FALSE
  BY <1>2, <1>3 DEF Arrive, TypeOK
<1>4. req[r] \in Active /\ req[r].pc # "done"
  BY <1>1, <1>3, ActiveRequest DEF Serve, PeekValid, Allow, ConsultBudget, Lookup,
     Ask, LandValid, LandRejected, LandInconclusive, Penalise
<1>5. ASSUME NEW pc \in Step, Goto(r, pc)
      PROVE  /\ req'[r].key = req[r].key /\ req'[r].ip = req[r].ip
             /\ req'[r].pass = req[r].pass /\ req'[r].pc = pc
  <2>1. req'[r] = [req[r] EXCEPT !.pc = pc, !.since = now] /\ req'[r].pc = pc
    BY <1>4, <1>5, GotoType
  <2>2. QED
    BY <1>4, <2>1 DEF Active
<1>6. ASSUME NEW reply \in Reply, Answer(r, reply)
      PROVE  FALSE
  <2>1. req'[r] = [pc |-> "done", reply |-> reply]
    BY <1>6, AnswerType
  <2>2. QED
    BY <1>2, <2>1
<1>7. ASSUME NEW e \in Nat, Admit(r, e)
      PROVE  FALSE
  <2>1. CASE req'[r] = [req[r] EXCEPT !.pc = "lookup", !.pass = "context",
                                      !.since = now, !.until = e]
    <3>1. req'[r].pass = "context"
      BY <1>4, <2>1 DEF Active
    <3>2. QED
      BY <1>2, <3>1
  <2>2. CASE req'[r] = [pc |-> "done", reply |-> "session"]
    BY <1>2, <2>2
  <2>3. QED
    BY <1>4, <1>7, <2>1, <2>2, AdmitType
<1>8. ASSUME NEW b \in BOOLEAN, Refuse(r, b),
             req[r].pc \in {"lookup", "landing"}
      PROVE  Passed(r) /\ req'[r].ip = req[r].ip
  <2>1. Goto(r, "penalty")
    BY <1>6, <1>8 DEF Refuse, Reply
  <2>2. req'[r].key = req[r].key /\ req'[r].ip = req[r].ip /\ req'[r].pass = req[r].pass
    BY <1>5, <2>1 DEF Step
  <2>3. QED
    BY <1>2, <1>8, <2>2 DEF Passed, ViaOAuth
<1>9. CASE PeekValid(r)
  <2>1. PICK t \in ClockRead(r) : Goto(r, IF Live(req[r].key, t) THEN "lookup" ELSE "limit")
    BY <1>9 DEF PeekValid
  <2>2. req'[r].key = req[r].key
    BY <1>5, <2>1 DEF Step
  <2>3. ~Live(req[r].key, t)
    <3>1. t \in Nat
      BY <1>4 DEF ClockRead, Active, TypeOK
    <3>2. cache[req[r].key] = 0
      BY <1>2, <2>2 DEF Unaccepted, Absent
    <3>3. QED
      BY <3>1, <3>2 DEF Live
  <2>4. req'[r].pc = "limit"
    BY <1>5, <2>1, <2>3 DEF Step
  <2>5. QED
    BY <1>2, <2>4
<1>10. CASE Allow(r)
  <2>1. Goto(r, "lookup")
    BY <1>6, <1>10 DEF Allow, Reply
  <2>2. req'[r].key = req[r].key
    BY <1>5, <2>1 DEF Step
  <2>3. QED
    BY <1>2, <1>10, <2>2 DEF Allow, ViaOAuth
<1>11. CASE ConsultBudget(r)
  <2>1. Goto(r, "lookup")
    BY <1>6, <1>11 DEF ConsultBudget, Reply
  <2>2. QED
    BY <1>5, <1>11, <2>1 DEF Step
<1>12. CASE Lookup(r)
  <2>1. cache[req[r].key] \in Nat
    BY <1>4 DEF Active, TypeOK
  <2>2. Refuse(r, TRUE) \/ Goto(r, "asking")
    BY <1>7, <1>12, <2>1 DEF Lookup
  <2>3. CASE Goto(r, "asking")
    BY <1>2, <1>5, <1>12, <2>3 DEF Passed, ViaOAuth, Lookup, Step
  <2>4. QED
    BY <1>8, <1>12, <2>2, <2>3 DEF Lookup
<1>13. CASE Ask(r)
  <2>1. PICK v \in Verdict :
          req' = [req EXCEPT ![r].pc = "landing", ![r].since = now, ![r].verdict = v]
    BY <1>13 DEF Ask, Verdict
  <2>2. req'[r] = [req[r] EXCEPT !.pc = "landing", !.since = now, !.verdict = v]
    BY <2>1 DEF TypeOK
  <2>3. req'[r].key = req[r].key /\ req'[r].ip = req[r].ip /\ req'[r].pass = req[r].pass
    BY <1>4, <2>2 DEF Active
  <2>4. QED
    BY <1>2, <1>13, <2>3 DEF Passed, ViaOAuth, Ask
<1>14. CASE LandValid(r)
  <2>1. now + EntryTTL(req[r].key) \in Nat
    BY <1>4, TTLType DEF Active, TypeOK
  <2>2. QED
    BY <1>7, <1>14, <2>1 DEF LandValid
<1>15. CASE LandRejected(r) \/ LandInconclusive(r)
  BY <1>8, <1>15 DEF LandRejected, LandInconclusive
<1>16. CASE Penalise(r)
  BY <1>6, <1>16 DEF Penalise, Reply
<1>17. QED
  BY <1>1, <1>3, <1>9, <1>10, <1>11, <1>12, <1>13, <1>14, <1>15, <1>16 DEF Serve

\* What was not accepted before is not accepted by a step, and what keeps it
\* from being trusted stays so.
LEMMA UnacceptedStep ==
  ASSUME TypeOK, OverrunInv, [Next]_vars, NeverAccepted'
  PROVE  NeverAccepted /\ Unaccepted /\ Unaccepted'
<1> USE KeyAssumption DEF Key
<1>1. NeverAccepted
  <2>1. CASE UNCHANGED <<mesh, switched>>
    BY <2>1 DEF NeverAccepted
  <2>2. ASSUME NEW k \in Key, Switch(k)
        PROVE  NeverAccepted
    BY <2>2 DEF NeverAccepted, Switch, OverrunInv, TypeOK
  <2>3. UNCHANGED <<mesh, switched>> \/ \E k \in Key : Switch(k)
    BY DEF Next, Serve, Arrive, PeekValid, Allow, ConsultBudget, Lookup, Ask, LandValid,
           LandRejected, LandInconclusive, Penalise, EvictExpired, EvictIdle, Tick,
           history, vars
  <2>4. QED
    BY <2>1, <2>2, <2>3
<1>2. Unaccepted
  BY <1>1 DEF OverrunInv
<1>3. ASSUME NEW k \in OAuthToken
      PROVE  cache'[k] = Absent
  <2>1. ASSUME NEW r \in Req, LandValid(r)
        PROVE  cache'[k] = Absent
    <3>1. req[r].key # k
      BY <1>2, <2>1 DEF LandValid, Unaccepted, ViaOAuth
    <3>2. QED
      BY <1>2, <2>1, <3>1 DEF LandValid, Unaccepted, TypeOK
  <2>2. CASE EvictExpired
    BY <1>2, <2>2 DEF EvictExpired, Unexpired, Unaccepted
  <2>3. CASE UNCHANGED cache
    BY <1>2, <2>3 DEF Unaccepted
  <2>4. UNCHANGED cache \/ EvictExpired \/ \E r \in Req : LandValid(r)
    BY DEF Next, Serve, Arrive, PeekValid, Allow, ConsultBudget, Lookup, Ask,
           LandRejected, LandInconclusive, Penalise, EvictIdle, Switch, Tick, vars
  <2>5. QED
    BY <2>1, <2>2, <2>3, <2>4
<1>4. ASSUME NEW r \in Req, req'[r].pc = "landing", req'[r].key \in OAuthToken
      PROVE  req'[r].verdict # "valid"
  <2>1. CASE req'[r] = req[r]
    BY <1>2, <1>4, <2>1 DEF Unaccepted, ViaOAuth
  <2>2. CASE req'[r].key = req[r].key /\ (req'[r].verdict = "valid" => mesh[req[r].key])
    BY <1>1, <1>4, <2>2 DEF NeverAccepted
  <2>3. QED
    BY <1>4, <2>1, <2>2, LandingStep
<1>5. QED
  BY <1>1, <1>2, <1>3, <1>4 DEF Unaccepted, ViaOAuth

\* Only a request at the gate, with an OAuth token, comes to be penalised.
LEMMA PenalisedStep ==
  ASSUME TypeOK, Penalised, [Next]_vars
  PROVE  Penalised'
<1> SUFFICES ASSUME NEW r \in Req, req'[r].pc = "penalty"
             PROVE  req'[r].pass = "gate" /\ req'[r].key \in OAuthToken
  BY DEF Penalised, Passed, ViaOAuth
<1>1. CASE req'[r] = req[r]
  BY <1>1 DEF Penalised, Passed, ViaOAuth
<1>2. CASE req'[r] # req[r]
  <2>1. Serve(r)
    BY <1>2, OwnStep
  <2>2. ASSUME NEW via \in Via, NEW k \in Key, NEW ip \in IP, Arrive(r, via, k, ip)
        PROVE  FALSE
    BY <2>2 DEF Arrive, TypeOK
  <2>3. req[r].pc # "done"
    BY <2>1, <2>2 DEF Serve, PeekValid, Allow, ConsultBudget, Lookup, Ask, LandValid,
                      LandRejected, LandInconclusive, Penalise
  <2>4. PICK k \in Key : req[r].key = k /\ req[r] \in Active
    BY <2>3, ActiveRequest DEF Active
  <2>5. \E b \in BOOLEAN : Refuse(r, b)
    <3>1. req'[r] # [pc |-> "done", reply |-> "session"]
      OBVIOUS
    <3>2. req'[r] \notin [pc: {"done"}, reply: {"401", "429"}]
      OBVIOUS
    <3>3. QED
      BY <1>2, <2>3, <2>4, <3>1, <3>2, EndingStep
  <2>6. PICK b \in BOOLEAN : Refuse(r, b)
    BY <2>5
  <2>7. \A reply \in Reply : ~Answer(r, reply)
    <3>1. ASSUME NEW reply \in Reply, Answer(r, reply)
          PROVE  FALSE
      <4>1. req'[r] = [pc |-> "done", reply |-> reply]
        BY <3>1, AnswerType
      <4>2. QED
        BY <4>1
    <3>2. QED
      BY <3>1
  <2>8. req[r].pass # "context" /\ ViaOAuth(r) /\ Goto(r, "penalty")
    BY <2>6, <2>7 DEF Refuse, Reply
  <2>9. req'[r] = [req[r] EXCEPT !.pc = "penalty", !.since = now]
    BY <2>3, <2>8, GotoType DEF Step
  <2>10. req'[r].pass = req[r].pass /\ req'[r].key = req[r].key
    BY <2>4, <2>9 DEF Active
  <2>11. QED
    BY <2>4, <2>8, <2>10 DEF ViaOAuth, Active, Pass
<1>3. QED
  BY <1>1, <1>2

\* With at least one request outside, the others leave room for it.
LEMMA RoomLeft ==
  ASSUME NEW r \in Req, NEW S \in SUBSET (Req \ {r})
  PROVE  /\ Cardinality(Req) \in Nat /\ Cardinality(S) \in Nat
         /\ Cardinality(S) < Cardinality(Req)
<1>1. /\ IsFiniteSet(Req \ {r})
      /\ Cardinality(Req \ {r}) = Cardinality(Req) - 1
  BY RequestsAssumption, FS_RemoveElement
<1>2. Cardinality(S) <= Cardinality(Req \ {r}) /\ IsFiniteSet(S)
  BY <1>1, FS_Subset
<1>3. Cardinality(Req) \in Nat /\ Cardinality(Req \ {r}) \in Nat /\ Cardinality(S) \in Nat
  BY <1>1, <1>2, RequestsAssumption, FS_CardinalityType
<1>4. QED
  BY <1>1, <1>2, <1>3

LEMMA PastFinite ==
  ASSUME NEW S \in SUBSET Req, NEW T \in SUBSET S
  PROVE  /\ IsFiniteSet(S) /\ Cardinality(Req) \in Nat
         /\ Cardinality(S) \in Nat /\ Cardinality(T) \in Nat
         /\ Cardinality(T) <= Cardinality(S)
<1>1. IsFiniteSet(S)
  BY RequestsAssumption, FS_Subset
<1>2. IsFiniteSet(T) /\ Cardinality(T) <= Cardinality(S)
  BY <1>1, FS_Subset
<1>3. QED
  BY <1>1, <1>2, RequestsAssumption, FS_CardinalityType

LEMMA PastStep ==
  ASSUME TypeOK, OverrunInv, [Next]_vars, NeverAccepted', NEW ip \in IP,
         NEW r \in Past(ip)'
  PROVE  r \in Past(ip) \/ (ConsultBudget(r) /\ req[r].ip = ip)
<1>1. r \in Req /\ Passed(r)' /\ req'[r].ip = ip
  BY DEF Past
<1>2. Unaccepted /\ Penalised
  BY UnacceptedStep DEF OverrunInv
<1>3. CASE req'[r] = req[r]
  BY <1>1, <1>3 DEF Past, Passed, ViaOAuth
<1>4. CASE req'[r] # req[r]
  BY <1>1, <1>2, <1>4, PassedStep DEF Past
<1>5. QED
  BY <1>3, <1>4

LEMMA AllowanceType ==
  /\ Allowance \in Nat /\ RPM \in Nat /\ RPM <= Allowance
  /\ Cardinality(Req) \in Nat /\ Allowance = RPM + Cardinality(Req)
  BY RequestsAssumption, BudgetAssumption, FS_CardinalityType DEF Allowance

\* Nobody gets past the limiter on a full bucket without being late.
LEMMA NobodyGetsPast ==
  ASSUME TypeOK, ClockInv, OverrunInv, RPM # 0, [Next]_vars, NeverAccepted',
         NEW ip \in IP, Filled(ip) = RPM, Lates(ip)' = Lates(ip)
  PROVE  Past(ip)' \subseteq Past(ip)
<1> SUFFICES ASSUME NEW r \in Past(ip)', r \notin Past(ip)
             PROVE  FALSE
  OBVIOUS
<1>1. ConsultBudget(r) /\ req[r].ip = ip /\ r \in Req /\ Passed(r)'
  BY PastStep DEF Past
<1>2. req[r].pc # "done"
  BY <1>1 DEF ConsultBudget
<1>3. /\ now \in Nat /\ Window(now) \in Nat /\ RPM \in Nat
      /\ bucket[ip].window \in Int /\ bucket[ip].count \in Nat /\ Lates(ip) \in Nat
  BY LimiterTypes
<1>4. PICK t \in ClockRead(r) :
        /\ Meets(r, t)
        /\ IF Over(ip, Window(t)) THEN Answer(r, "429") ELSE Goto(r, "lookup")
  BY <1>1 DEF ConsultBudget
<1>5. Window(t) = Window(now)
  BY <1>1, <1>2, <1>3, <1>4, MeetsStep
<1>6. ~Answer(r, "429")
  <2>1. ASSUME Answer(r, "429")
        PROVE  FALSE
    <3>1. req'[r] = [pc |-> "done", reply |-> "429"]
      BY <1>1, <2>1, AnswerType DEF Reply
    <3>2. QED
      BY <1>1, <3>1 DEF Passed
  <2>2. QED
    BY <2>1
<1>7. bucket[ip].window # Window(now) \/ bucket[ip].count < RPM
  BY <1>3, <1>4, <1>5, <1>6 DEF Over
<1>8. QED
  BY <1>3, <1>7 DEF Filled

\* A request that is charged is past the limiter no more.
LEMMA ChargedLeaves ==
  ASSUME TypeOK, OverrunInv, [Next]_vars, NeverAccepted', NEW ip \in IP, NEW r \in Req,
         req[r].ip = ip, Penalise(r) \/ (Allow(r) /\ Goto(r, "lookup"))
  PROVE  /\ r \notin Past(ip)'
         /\ Penalise(r) => r \in Past(ip)
<1>1. CASE Penalise(r)
  <2>1. req'[r] = [pc |-> "done", reply |-> "401"]
    BY <1>1, AnswerType DEF Penalise, Reply
  <2>2. r \notin Past(ip)'
    BY <2>1 DEF Past, Passed
  <2>3. r \in Past(ip)
    BY <1>1 DEF OverrunInv, Penalised, Past, Penalise
  <2>4. QED
    BY <2>2, <2>3
<1>2. CASE Allow(r) /\ Goto(r, "lookup") /\ ~Penalise(r)
  <2>1. req'[r] = [req[r] EXCEPT !.pc = "lookup", !.since = now]
    BY <1>2, GotoType DEF Allow, Step
  <2>2. req'[r].key = req[r].key
    BY <1>2, <2>1, ActiveRequest DEF Allow, Active
  <2>3. req'[r].key \notin OAuthToken
    BY <1>2, <2>2 DEF Allow, ViaOAuth
  <2>4. QED
    BY <1>2, <2>3 DEF Past, Passed, ViaOAuth
<1>3. QED
  BY <1>1, <1>2

LEMMA CrowdedNext ==
  ASSUME TypeOK, ClockInv, OverrunInv, RPM # 0, [Next]_vars, NeverAccepted',
         NEW ip \in IP, Crowded(ip)
  PROVE  Crowded(ip)'
<1> DEFINE share == Allowance * Lates(ip)
<1>1. /\ RPM \in Nat /\ RPM # 0 /\ Used(ip) \in Nat /\ Lates(ip) \in Nat
      /\ Filled(ip) \in Nat /\ Filled(ip) <= RPM
      /\ Allowance \in Nat /\ Cardinality(Req) \in Nat
      /\ Allowance = RPM + Cardinality(Req)
  BY LimiterTypes, AllowanceType
<1>0. share \in Nat
  BY <1>1, SMT
<1>2. /\ Allowance * (Lates(ip) + 1) = share + Allowance
      /\ Allowance * (Lates(ip) + 1 + 1) = share + Allowance + Allowance
      /\ Allowance * 0 = 0
  BY <1>1, SMT
<1>3. IF Filled(ip) < RPM THEN Used(ip) <= share + Filled(ip)
      ELSE Used(ip) + Cardinality(Past(ip)) < share + Allowance
  BY <1>2 DEF Crowded
<1>4. /\ Past(ip) \subseteq Req /\ Past(ip)' \subseteq Req
      /\ Cardinality(Past(ip)) \in Nat /\ Cardinality(Past(ip)') \in Nat
      /\ Cardinality(Past(ip)') <= Cardinality(Req)
  <2>1. Past(ip) \in SUBSET Req /\ Past(ip)' \in SUBSET Req
    BY DEF Past
  <2>2. QED
    BY <2>1, PastFinite
<1>5. Crowded(ip)' <=> IF Filled(ip)' < RPM
                       THEN Used(ip)' <= Allowance * Lates(ip)' + Filled(ip)'
                       ELSE Used(ip)' + Cardinality(Past(ip)') < Allowance * (Lates(ip)' + 1)
  BY DEF Crowded, Allowance
<1>6. Filled(ip) = RPM /\ Lates(ip)' = Lates(ip) =>
        Past(ip)' \subseteq Past(ip) /\ Cardinality(Past(ip)') <= Cardinality(Past(ip))
  <2>1. Filled(ip) = RPM /\ Lates(ip)' = Lates(ip) => Past(ip)' \subseteq Past(ip)
    BY NobodyGetsPast
  <2>2. Past(ip) \in SUBSET Req
    BY <1>4
  <2>3. QED
    BY <2>1, <2>2, PastFinite
<1> DEFINE past == Cardinality(Past(ip))
           pastNext == Cardinality(Past(ip)')
<1> HIDE DEF share, past, pastNext
<1>7. CASE Steady(ip)
  <2>1. Allowance * Lates(ip)' = share /\ Allowance * (Lates(ip)' + 1) = share + Allowance
    BY <1>2, <1>7 DEF Steady, share
  <2>2. Filled(ip) = RPM => pastNext <= past
    BY <1>6, <1>7 DEF Steady, past, pastNext
  <2>3. past \in Nat /\ pastNext \in Nat
    BY <1>4 DEF past, pastNext
  <2>4. IF Filled(ip) < RPM THEN Used(ip) <= share + Filled(ip)
        ELSE Used(ip) + past < share + Allowance
    BY <1>3 DEF past
  <2>5. IF Filled(ip) < RPM THEN Used(ip) <= share + Filled(ip)
        ELSE Used(ip) + pastNext < share + Allowance
    <3>1. CASE Filled(ip) < RPM
      BY <2>4, <3>1
    <3>2. CASE ~(Filled(ip) < RPM)
      <4>1. Filled(ip) = RPM
        BY <1>1, <3>2
      <4>2. pastNext <= past /\ Used(ip) + past < share + Allowance
        BY <2>2, <2>4, <3>2, <4>1
      <4>3. Used(ip) + pastNext < share + Allowance
        BY <1>0, <1>1, <2>3, <4>2
      <4>4. QED
        BY <3>2, <4>3
    <3>3. QED
      BY <3>1, <3>2
  <2>6. QED
    BY <1>5, <1>7, <2>1, <2>5 DEF Steady, pastNext
<1>8. CASE Passing(ip)
  <2>1. Allowance * Lates(ip)' = share + Allowance
        /\ Allowance * (Lates(ip)' + 1) = share + Allowance + Allowance
    BY <1>2, <1>8 DEF Passing
  <2>2. past \in Nat /\ pastNext \in Nat /\ pastNext <= Cardinality(Req)
    BY <1>4 DEF past, pastNext
  <2>3. IF Filled(ip) < RPM THEN Used(ip) <= share + Filled(ip)
        ELSE Used(ip) + past < share + Allowance
    BY <1>3 DEF past
  <2>4. IF Filled(ip) < RPM THEN Used(ip) <= share + Allowance + Filled(ip)
        ELSE Used(ip) + pastNext < share + Allowance + Allowance
    BY <1>0, <1>1, <2>2, <2>3
  <2>5. QED
    BY <1>5, <1>8, <2>1, <2>4 DEF Passing, pastNext
<1>9. CASE Fresh(ip)
  BY <1>1, <1>2, <1>5, <1>9 DEF Fresh
<1>10. CASE Counted(ip)
  <2>1. /\ Allowance * Lates(ip)' = share /\ Allowance * (Lates(ip)' + 1) = share + Allowance
        /\ Used(ip)' = Used(ip) + 1 /\ Lates(ip)' = Lates(ip)
    BY <1>2, <1>10 DEF Counted, share
  <2>2. past \in Nat /\ pastNext \in Nat
    BY <1>4 DEF past, pastNext
  <2>3. CASE Filled(ip) < RPM /\ Filled(ip)' = Filled(ip) + 1
    <3>1. Used(ip) <= share + Filled(ip)
      BY <1>3, <2>3
    <3>2. PICK r \in Req : req[r].ip = ip /\ (Penalise(r) \/ (Allow(r) /\ Goto(r, "lookup")))
      BY <1>10 DEF Counted
    <3>3. r \notin Past(ip)'
      BY <3>2, ChargedLeaves
    <3>4. Past(ip)' \in SUBSET (Req \ {r})
      BY <1>4, <3>3
    <3>5. pastNext < Cardinality(Req)
      BY <3>4, RoomLeft DEF pastNext
    <3>6. IF Filled(ip) + 1 < RPM THEN Used(ip) + 1 <= share + (Filled(ip) + 1)
          ELSE Used(ip) + 1 + pastNext < share + Allowance
      BY <1>0, <1>1, <2>2, <2>3, <3>1, <3>5
    <3>7. IF Filled(ip)' < RPM THEN Used(ip)' <= share + Filled(ip)'
          ELSE Used(ip)' + pastNext < share + Allowance
      BY <2>1, <2>3, <3>6
    <3>8. QED
      BY <1>5, <2>1, <3>7 DEF pastNext
  <2>4. CASE /\ Filled(ip) = RPM /\ Filled(ip)' = RPM
             /\ \E r \in Req : req[r].ip = ip /\ Penalise(r)
    <3>1. PICK r \in Req : req[r].ip = ip /\ Penalise(r)
      BY <2>4
    <3>2. r \notin Past(ip)' /\ r \in Past(ip) /\ Past(ip)' \subseteq Past(ip)
      BY <1>6, <2>1, <2>4, <3>1, ChargedLeaves
    <3>3. pastNext <= past - 1
      <4>1. IsFiniteSet(Past(ip))
        BY <1>4, RequestsAssumption, FS_Subset
      <4>2. /\ IsFiniteSet(Past(ip) \ {r})
            /\ Cardinality(Past(ip) \ {r}) = Cardinality(Past(ip)) - 1
        BY <3>2, <4>1, FS_RemoveElement
      <4>3. Past(ip)' \subseteq Past(ip) \ {r}
        BY <3>2
      <4>4. Cardinality(Past(ip)') <= Cardinality(Past(ip) \ {r})
        BY <4>2, <4>3, FS_Subset
      <4>5. QED
        BY <4>2, <4>4 DEF past, pastNext
    <3>4. Used(ip) + past < share + Allowance
      BY <1>1, <1>3, <2>4 DEF past
    <3>5. Used(ip) + 1 + pastNext < share + Allowance
      BY <1>0, <1>1, <2>2, <3>3, <3>4
    <3>6. QED
      BY <1>1, <1>5, <2>1, <2>4, <3>5 DEF pastNext
  <2>5. QED
    BY <1>10, <2>3, <2>4 DEF Counted
<1>11. CASE Restarted(ip)
  <2>1. Allowance * Lates(ip)' = share + Allowance /\ Filled(ip)' = 0
        /\ Used(ip)' \in {Used(ip), Used(ip) + 1}
    BY <1>2, <1>11 DEF Restarted
  <2>2. past \in Nat
    BY <1>4 DEF past
  <2>3. IF Filled(ip) < RPM THEN Used(ip) <= share + Filled(ip)
        ELSE Used(ip) + past < share + Allowance
    BY <1>3 DEF past
  <2>4. Used(ip) + 1 <= share + Allowance
    BY <1>0, <1>1, <2>2, <2>3
  <2>5. Used(ip)' <= share + Allowance + 0
    BY <1>0, <1>1, <2>1, <2>4
  <2>6. QED
    BY <1>1, <1>5, <2>1, <2>5
<1>12. QED
  BY <1>7, <1>8, <1>9, <1>10, <1>11, BudgetStep

LEMMA OverrunNext ==
  ASSUME TypeOK, ClockInv, OverrunInv, [Next]_vars
  PROVE  OverrunInv'
<1>1. now' # 0
  <2>1. now' = now \/ now' = now + 1
    BY DEF Next, Serve, Arrive, PeekValid, Allow, ConsultBudget, Lookup, Ask, LandValid,
           LandRejected, LandInconclusive, Penalise, EvictExpired, EvictIdle, Switch,
           Tick, vars
  <2>2. QED
    BY <2>1 DEF OverrunInv, TypeOK
<1>2. Penalised'
  BY PenalisedStep DEF OverrunInv
<1>3. NeverAccepted' => Unaccepted'
  BY UnacceptedStep
<1>4. ASSUME RPM # 0, NeverAccepted', NEW ip \in IP
      PROVE  Crowded(ip)'
  <2>1. Crowded(ip)
    BY <1>4, UnacceptedStep DEF OverrunInv
  <2>2. QED
    BY <1>4, <2>1, CrowdedNext
<1>5. QED
  BY <1>1, <1>2, <1>3, <1>4 DEF OverrunInv

\* While Mesh has accepted no OAuth token, an address overruns its budget of a
\* minute by less than the number of requests in progress, and once more for each
\* late one, whatever the budget, the number of requests and the slack are.
THEOREM GuessOverrunHolds == Spec => []GuessOverrun
<1>1. ASSUME TypeOK, OverrunInv
      PROVE  GuessOverrun
  <2> SUFFICES ASSUME RPM # 0, NeverAccepted, NEW ip \in IP
               PROVE  Used(ip) < Allowance * (1 + Lates(ip))
    BY DEF GuessOverrun, NeverAccepted, Used, Allowance, Lates
  <2> DEFINE share == Allowance * Lates(ip)
             past == Cardinality(Past(ip))
  <2>1. /\ Used(ip) \in Nat /\ RPM \in Nat /\ Allowance \in Nat /\ RPM <= Allowance
        /\ Filled(ip) \in Nat /\ Filled(ip) <= RPM /\ Lates(ip) \in Nat
    BY <1>1, LimiterTypes, AllowanceType
  <2>2. past \in Nat
    <3>1. Past(ip) \in SUBSET Req
      BY DEF Past
    <3>2. QED
      BY <3>1, PastFinite
  <2>3. /\ share \in Nat /\ Allowance * (Lates(ip) + 1) = share + Allowance
        /\ Allowance * (1 + Lates(ip)) = share + Allowance
    BY <2>1, SMT
  <2>4. IF Filled(ip) < RPM THEN Used(ip) <= share + Filled(ip)
        ELSE Used(ip) + past < share + Allowance
    BY <1>1, <2>3 DEF OverrunInv, Crowded
  <2> HIDE DEF share, past
  <2>5. Used(ip) < share + Allowance
    BY <2>1, <2>2, <2>3, <2>4
  <2>6. QED
    BY <2>3, <2>5
<1>2. TypeOK /\ ClockInv /\ OverrunInv /\ [Next]_vars => OverrunInv'
  BY OverrunNext
<1>3. QED
  BY <1>1, <1>2, InitType, NextType, ClockInit, ClockNext, OverrunInit, PTL DEF Spec


=============================================================================
