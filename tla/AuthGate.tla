------------------------------ MODULE AuthGate ------------------------------
(***************************************************************************)
(* The authentication front door of the HTTP transports: the session cache *)
(* (agentSessionCache), the per-IP limiter (ipRateLimiter) and the         *)
(* handlers that use both (requireCredential, the two SSE connect          *)
(* handlers, sseContextFunc).                                              *)
(*                                                                         *)
(* Every request runs in a goroutine of its own.  A step of a request is   *)
(* one critical section of the cache or of the limiter, or one exchange    *)
(* with the Mesh API; the clock the code reads just before it takes a lock *)
(* is a separate instant, at most Slack ticks older than the critical      *)
(* section (ClockRead).  A request may thus reach its bucket with the      *)
(* minute that has just ended in hand; late remembers who did.             *)
(*                                                                         *)
(* A request without a credential, with one in the wrong place, or with an *)
(* OAuth token at an SSE endpoint is answered before any of this state is  *)
(* read and is left out.                                                   *)
(***************************************************************************)
EXTENDS Integers, FiniteSets

CONSTANTS
  Req,         \* requests in progress at the same time
  AgentKey,    \* agent keys (agk_...)
  OAuthToken,  \* OAuth access tokens (mot_...)
  IP,          \* client addresses
  SessionTTL,  \* trust in a verified agent key, in ticks
  OAuthTTL,    \* trust in a verified OAuth token, in ticks
  FailTTL,     \* memory of a rejection, in ticks
  RPM,         \* budget per address and minute; 0 disables the limiter
  Minute,      \* ticks in a limiter window
  Flight,      \* ticks from the Mesh API's verdict to its arrival, at most
  Slack,       \* ticks from a clock read to the lock it precedes, at most
  Horizon,     \* bound: ticks a behaviour may last
  MaxCount,    \* bound: no new request once a bucket holds this many
  Fickle       \* bound: credentials whose standing with Mesh may change

ASSUME KeyAssumption ==
  AgentKey \cap OAuthToken = {} /\ Fickle \subseteq AgentKey \cup OAuthToken

ASSUME RequestsAssumption == IsFiniteSet(Req)

ASSUME TimeAssumption ==
  /\ SessionTTL \in Nat \ {0}
  /\ OAuthTTL \in Nat \ {0}
  /\ FailTTL \in Nat \ {0}
  /\ Minute \in Nat \ {0}
  /\ Flight \in Nat
  /\ Slack \in Nat
  /\ Horizon \in Nat

ASSUME BudgetAssumption == RPM \in Nat /\ MaxCount \in Nat

VARIABLES
  now,       \* the wall clock
  mesh,      \* mesh[k]: the Mesh API accepts credential k
  cache,     \* cache[k]: expiresAt of the positive entry of k, or Absent
  negCache,  \* negCache[k]: expiresAt of the negative entry of k, or Absent
  bucket,    \* bucket[ip]: the limiter's counter for ip
  req,       \* req[r]: where the goroutine of request r is
  switched,  \* history: when mesh[k] last changed
  granted,   \* history: attempts the limiter let through in the minute of now
  punished,  \* history: OAuth rejections charged in the minute of now
  late       \* history: late[ip], the requests that met the bucket of ip in
             \* the minute of now with the clock of an earlier one

vars == <<now, mesh, cache, negCache, bucket, req,
          switched, granted, punished, late>>

history == <<switched, granted, punished, late>>

Key == AgentKey \cup OAuthToken

Absent == 0

\* A start so late that an instant at 0 is beyond every lag below: whatever
\* Mesh said of a credential before the process started has been forgotten.
Epoch == Flight + Slack + SessionTTL + FailTTL + 1

Window(t) == t \div Minute

NoBucket == [window |-> -1, count |-> 0]

\* entryTTL: the shorter of the two TTLs for an OAuth token.
EntryTTL(k) ==
  IF k \in OAuthToken /\ OAuthTTL < SessionTTL THEN OAuthTTL ELSE SessionTTL

-----------------------------------------------------------------------------
(* Requests.                                                               *)

Via     == {"http", "sse", "message"}
Step    == {"peek", "limit", "lookup", "asking", "landing", "penalty"}
Verdict == {"none", "valid", "rejected", "inconclusive"}
Reply   == {"none", "session", "anonymous", "401", "403", "429", "503"}

\* The gate is the handler in front of the transport, context the second
\* lookup, made by sseContextFunc once the transport has the request.
Pass == {"gate", "context"}

Active == [pc: Step, via: Via, key: Key, ip: IP, pass: Pass, verdict: Verdict,
           since: Nat,   \* the instant of its last step
           until: Nat]   \* expiry of the entry the gate admitted it by

\* Nothing is left of a goroutine that has ended but the reply it gave.
Ended == [pc: {"done"}, reply: Reply]

ViaOAuth(r) == req[r].key \in OAuthToken

\* What time.Now() may have returned between r's last step and this one.
ClockRead(r) == {t \in req[r].since .. now : t + Slack >= now}

Goto(r, pc) == req' = [req EXCEPT ![r].pc = pc, ![r].since = now]

Answer(r, reply) == req' = [req EXCEPT ![r] = [pc |-> "done", reply |-> reply]]

-----------------------------------------------------------------------------
(* Handlers.                                                               *)

\* A message POST on an open SSE stream meets no gate: only sseContextFunc.
Arrive(r, via, k, ip) ==
  /\ req[r].pc = "done"
  /\ \A i \in IP : bucket[i].count <= MaxCount
  /\ via = "sse" => k \in AgentKey
  /\ req' = [req EXCEPT ![r] =
       [pc |-> IF via = "message" THEN "lookup" ELSE "peek",
        via |-> via, key |-> k, ip |-> ip,
        pass |-> IF via = "message" THEN "context" ELSE "gate",
        verdict |-> "none", since |-> now, until |-> 0]]
  /\ UNCHANGED <<now, mesh, cache, negCache, bucket, history>>

\* Mutant of Live: an entry is trusted until the eviction loop removes it.
LiveUntilEvicted(k, t) == cache[k] # Absent

\* peekValid: a live positive entry lets the request past the limiter.
Live(k, t) == t < cache[k]

PeekValid(r) ==
  /\ req[r].pc = "peek"
  /\ \E t \in ClockRead(r) :
       Goto(r, IF Live(req[r].key, t) THEN "lookup" ELSE "limit")
  /\ UNCHANGED <<now, mesh, cache, negCache, bucket, history>>

\* The bucket of ip after allow() counts one more attempt in window w.
Charged(ip, w) ==
  IF bucket[ip].window = w
  THEN [bucket[ip] EXCEPT !.count = @ + 1]
  ELSE [window |-> w, count |-> 1]

\* r meets the bucket of its address with a clock that read t.
Meets(r, t) ==
  late' = IF RPM # 0 /\ Window(t) # Window(now)
          THEN [late EXCEPT ![req[r].ip] = @ \cup {r}]
          ELSE late

\* allow(): always counts, then compares.
Allow(r) ==
  /\ req[r].pc = "limit" /\ ~ViaOAuth(r)
  /\ \E t \in ClockRead(r) :
       LET ip == req[r].ip
           b  == Charged(ip, Window(t))
       IN /\ Meets(r, t)
          /\ IF RPM = 0
             THEN Goto(r, "lookup") /\ UNCHANGED <<bucket, granted>>
             ELSE /\ bucket' = [bucket EXCEPT ![ip] = b]
                  /\ \/ /\ b.count <= RPM
                        /\ Goto(r, "lookup")
                        /\ granted' = [granted EXCEPT ![ip] = @ + 1]
                     \/ /\ b.count > RPM
                        /\ Answer(r, "429")
                        /\ UNCHANGED granted
  /\ UNCHANGED <<now, mesh, cache, negCache, switched, punished>>

\* Mutant of Over: off by one.
OverStrict(ip, w) == RPM # 0 /\ bucket[ip].window = w /\ bucket[ip].count > RPM

\* over(): an OAuth request only consults the budget.
Over(ip, w) == RPM # 0 /\ bucket[ip].window = w /\ bucket[ip].count >= RPM

ConsultBudget(r) ==
  /\ req[r].pc = "limit" /\ ViaOAuth(r)
  /\ \E t \in ClockRead(r) :
       /\ Meets(r, t)
       /\ IF Over(req[r].ip, Window(t)) THEN Answer(r, "429") ELSE Goto(r, "lookup")
  /\ UNCHANGED <<now, mesh, cache, negCache, bucket, switched, granted, punished>>

\* GetOrAuthenticate returned a session backed by an entry that ends at e.  An
\* SSE connect only opens its stream; the messages on it come later.
Admit(r, e) ==
  IF req[r].pass = "gate" /\ req[r].via # "sse"
  THEN req' = [req EXCEPT ![r].pc = "lookup", ![r].pass = "context",
                          ![r].since = now, ![r].until = e]
  ELSE Answer(r, "session")

\* GetOrAuthenticate returned an error, a credential rejection or not.
Refuse(r, isRejection) ==
  IF req[r].pass = "context" THEN Answer(r, "anonymous")
  ELSE IF ~ViaOAuth(r) THEN Answer(r, "403")
  ELSE IF isRejection THEN Goto(r, "penalty")
  ELSE Answer(r, "503")

\* Mutant of Lookup: the negative entry is looked up first.
LookupRejectedFirst(r) ==
  /\ req[r].pc = "lookup"
  /\ \E t \in ClockRead(r) :
       LET k == req[r].key
       IN \/ t < negCache[k] /\ Refuse(r, TRUE)
          \/ ~(t < negCache[k]) /\ Live(k, t) /\ Admit(r, cache[k])
          \/ ~(t < negCache[k]) /\ ~Live(k, t) /\ Goto(r, "asking")
  /\ UNCHANGED <<now, mesh, cache, negCache, bucket, history>>

\* GetOrAuthenticate up to its RUnlock: a positive entry wins over a negative
\* one, and a miss goes to the Mesh API without holding the lock.
Lookup(r) ==
  /\ req[r].pc = "lookup"
  /\ \E t \in ClockRead(r) :
       LET k == req[r].key
       IN \/ Live(k, t) /\ Admit(r, cache[k])
          \/ ~Live(k, t) /\ t < negCache[k] /\ Refuse(r, TRUE)
          \/ ~Live(k, t) /\ ~(t < negCache[k]) /\ Goto(r, "asking")
  /\ UNCHANGED <<now, mesh, cache, negCache, bucket, history>>

\* GET /api/v1/agents/me.  Inconclusive: 5xx, 408, 429, a network error, or
\* agent data the session cannot be built from.
Ask(r) ==
  /\ req[r].pc = "asking"
  /\ \E v \in {IF mesh[req[r].key] THEN "valid" ELSE "rejected", "inconclusive"} :
       req' = [req EXCEPT ![r].pc = "landing", ![r].since = now, ![r].verdict = v]
  /\ UNCHANGED <<now, mesh, cache, negCache, bucket, history>>

\* The rest of GetOrAuthenticate, under the write lock.
LandValid(r) ==
  /\ req[r].pc = "landing" /\ req[r].verdict = "valid"
  /\ LET k == req[r].key
         e == now + EntryTTL(k)
     IN /\ cache' = [cache EXCEPT ![k] = e]
        /\ negCache' = [negCache EXCEPT ![k] = Absent]
        /\ Admit(r, e)
  /\ UNCHANGED <<now, mesh, bucket, history>>

LandRejected(r) ==
  /\ req[r].pc = "landing" /\ req[r].verdict = "rejected"
  /\ negCache' = [negCache EXCEPT ![req[r].key] = now + FailTTL]
  /\ Refuse(r, TRUE)
  /\ UNCHANGED <<now, mesh, cache, bucket, history>>

\* Mutant of LandInconclusive: a gateway error counts as a rejection.
LandBlip(r) ==
  /\ req[r].pc = "landing" /\ req[r].verdict = "inconclusive"
  /\ negCache' = [negCache EXCEPT ![req[r].key] = now + FailTTL]
  /\ Refuse(r, TRUE)
  /\ UNCHANGED <<now, mesh, cache, bucket, history>>

LandInconclusive(r) ==
  /\ req[r].pc = "landing" /\ req[r].verdict = "inconclusive"
  /\ Refuse(r, FALSE)
  /\ UNCHANGED <<now, mesh, cache, negCache, bucket, history>>

\* A rejected OAuth token is charged after the fact, whatever allow() says.
Penalise(r) ==
  /\ req[r].pc = "penalty"
  /\ \E t \in ClockRead(r) :
       LET ip == req[r].ip
       IN /\ Meets(r, t)
          /\ IF RPM = 0
             THEN UNCHANGED <<bucket, punished>>
             ELSE /\ bucket' = [bucket EXCEPT ![ip] = Charged(ip, Window(t))]
                  /\ punished' = [punished EXCEPT ![ip] = @ + 1]
  /\ Answer(r, "401")
  /\ UNCHANGED <<now, mesh, cache, negCache, switched, granted>>

-----------------------------------------------------------------------------
(* Background loops and the environment.                                   *)

Unexpired(f) == [k \in Key |-> IF now > f[k] THEN Absent ELSE f[k]]

\* One round of evictExpiredLoop.
EvictExpired ==
  /\ cache' = Unexpired(cache)
  /\ negCache' = Unexpired(negCache)
  /\ UNCHANGED <<now, mesh, bucket, req, history>>

\* Mutant of EvictIdle: the cutoff lies ahead of the clock.
EvictAll ==
  /\ bucket' = [ip \in IP |-> IF bucket[ip].window < Window(now) + 2
                              THEN NoBucket ELSE bucket[ip]]
  /\ UNCHANGED <<now, mesh, cache, negCache, req, history>>

\* One round of evictIdleLoop.
EvictIdle ==
  /\ bucket' = [ip \in IP |-> IF bucket[ip].window < Window(now) - 2
                              THEN NoBucket ELSE bucket[ip]]
  /\ UNCHANGED <<now, mesh, cache, negCache, req, history>>

\* The Mesh API starts or stops accepting k (revoked, expired, re-enabled).
Switch(k) ==
  /\ k \in Fickle
  /\ mesh' = [mesh EXCEPT ![k] = ~@]
  /\ switched' = [switched EXCEPT ![k] = now]
  /\ UNCHANGED <<now, cache, negCache, bucket, req, granted, punished, late>>

\* Time passes, but no verdict stays in flight for more than Flight ticks.
Tick ==
  /\ now < Epoch + Horizon
  /\ \A r \in Req : req[r].pc = "landing" => now < req[r].since + Flight
  /\ now' = now + 1
  /\ IF Window(now + 1) = Window(now)
     THEN UNCHANGED <<granted, punished, late>>
     ELSE /\ granted' = [ip \in IP |-> 0]
          /\ punished' = [ip \in IP |-> 0]
          /\ late' = [ip \in IP |-> {}]
  /\ UNCHANGED <<mesh, cache, negCache, bucket, req, switched>>

-----------------------------------------------------------------------------

Init ==
  /\ now = Epoch
  /\ mesh \in [Key -> BOOLEAN]
  /\ cache = [k \in Key |-> Absent]
  /\ negCache = [k \in Key |-> Absent]
  /\ bucket = [ip \in IP |-> NoBucket]
  /\ req = [r \in Req |-> [pc |-> "done", reply |-> "none"]]
  /\ switched = [k \in Key |-> 0]
  /\ granted = [ip \in IP |-> 0]
  /\ punished = [ip \in IP |-> 0]
  /\ late = [ip \in IP |-> {}]

Serve(r) ==
  \/ \E via \in Via, k \in Key, ip \in IP : Arrive(r, via, k, ip)
  \/ PeekValid(r)
  \/ Allow(r)
  \/ ConsultBudget(r)
  \/ Lookup(r)
  \/ Ask(r)
  \/ LandValid(r)
  \/ LandRejected(r)
  \/ LandInconclusive(r)
  \/ Penalise(r)

Next ==
  \/ \E r \in Req : Serve(r)
  \/ EvictExpired
  \/ EvictIdle
  \/ \E k \in Key : Switch(k)
  \/ Tick

Spec == Init /\ [][Next]_vars

-----------------------------------------------------------------------------
(* Properties.                                                             *)

\* Every variable has the shape the code gives it.
TypeOK ==
  /\ now \in Nat
  /\ mesh \in [Key -> BOOLEAN]
  /\ cache \in [Key -> Nat]
  /\ negCache \in [Key -> Nat]
  /\ bucket \in [IP -> [window: Int, count: Nat]]
  /\ req \in [Req -> Active \cup Ended]
  /\ switched \in [Key -> Nat]
  /\ granted \in [IP -> Nat]
  /\ punished \in [IP -> Nat]
  /\ late \in [IP -> SUBSET Req]

\* The last instants at which the Mesh API accepted k, and did not.
LastGood(k) == IF mesh[k] THEN now ELSE switched[k]
LastBad(k)  == IF mesh[k] THEN switched[k] ELSE now

\* In this step r ends with the given reply.
Answers(r, reply) ==
  /\ req[r].pc # "done"
  /\ req'[r] = [pc |-> "done", reply |-> reply]

\* A revoked credential stops working: no request gets a session for it later
\* than its TTL plus the flight of one verdict after the Mesh API stopped
\* accepting it, however verifications, evictions and retries interleave.
RevocationLag ==
  [][\A r \in Req : Answers(r, "session") =>
       LET k == req[r].key
       IN /\ now < LastGood(k) + Flight + SessionTTL + Slack
          /\ k \in OAuthToken => now < LastGood(k) + Flight + OAuthTTL + Slack]_vars

\* An OAuth client is told its token is dead (401) only if the Mesh API really
\* was refusing that token, at most FailTTL and a flight ago: no gateway blip,
\* stale entry or race turns into a 401 for a token that never was refused.
DeadTokenAnswer ==
  [][\A r \in Req : req[r].pc \notin {"done", "penalty"} /\ req'[r].pc = "penalty" =>
       now < LastBad(req[r].key) + Flight + FailTTL + Slack]_vars

\* A request admitted by the gate runs with a session: sseContextFunc, which
\* looks the key up again, fails only when the entry that admitted the request
\* has expired in between.
AdmissionCarriesOver ==
  [][\A r \in Req : Answers(r, "anonymous") /\ req[r].via # "message" =>
       req[r].until <= now]_vars

\* The limiter lets at most RPM attempts of an address through in a minute,
\* except on account of a request that read the clock in the minute before: it
\* may be let through on that minute's budget, and the bucket it puts in the
\* place of the present one gives this minute's budget once more.  Nothing else
\* restarts a bucket: no eviction, no interleaving of attempts and rejections.
BudgetPerMinute ==
  RPM # 0 => \A ip \in IP :
    granted[ip] <= RPM + (RPM + 1) * Cardinality(late[ip])

\* Guessing OAuth tokens is bounded although the budget is consulted before a
\* verification and charged after it: while Mesh has accepted no OAuth token, the
\* attempts and rejections of a minute overrun the budget by less than the
\* requests in progress at a time, and every late request adds that much once.
GuessOverrun ==
  RPM # 0 /\ (\A k \in OAuthToken : ~mesh[k] /\ switched[k] = 0) =>
    \A ip \in IP : granted[ip] + punished[ip] <
                     (RPM + Cardinality(Req)) * (1 + Cardinality(late[ip]))

\* Nobody who read the clock in this minute is turned away with 429 on account
\* of an earlier one, or of requests that the limiter itself refused: what it
\* let through and the rejections of this very minute have used the budget up.
Justified429 ==
  [][\A r \in Req : Answers(r, "429") =>
       \/ r \in late'[req[r].ip]
       \/ granted[req[r].ip] + punished[req[r].ip] >= RPM]_vars

=============================================================================
