------------------------------ MODULE Retry429 ------------------------------
(***************************************************************************)
(* Bounded retry of rate-limited reads: RESTClient.do429 for the calls of  *)
(* one client, which share retry429MaxConcurrent slots.                    *)
(*                                                                         *)
(* A call's clock is the time since its first attempt, the only time do429 *)
(* ever looks at.  Timers are punctual: Tick does not pass an instant at   *)
(* which a timer of some call is due, nor the client's HTTP timeout, which *)
(* covers an exchange together with the reading of its body.               *)
(***************************************************************************)
EXTENDS Integers, FiniteSets

CONSTANTS
  Call,         \* calls in progress at the same time
  Slots,        \* retry429MaxConcurrent
  MaxAttempts,  \* retry429MaxAttempts
  Budget,       \* retry429DefaultBudget, in ticks
  Fallback,     \* retry429FallbackBase, in ticks
  MaxFallback,  \* the ceiling of the backoff, in ticks
  Latency,      \* the HTTP client's timeout, in ticks
  Hint          \* the Retry-After delays a server may send, in ticks

ASSUME RetryAssumption ==
  /\ Slots \in Nat \ {0} /\ MaxAttempts \in Nat \ {0}
  /\ Budget \in Nat \ {0} /\ Latency \in Nat
  /\ Fallback \in Nat /\ MaxFallback \in Nat
  /\ Hint \subseteq Nat

ASSUME CallAssumption == IsFiniteSet(Call)

VARIABLES
  call,  \* call[c]: where call c is
  held   \* tokens in the retrySlots channel

vars == <<call, held>>

Method == {"read", "write"}

Busy == [pc: {"sending", "drain", "slot", "recheck", "sleep"},
         method: Method,
         cancelled: BOOLEAN,  \* the caller's context is done
         gone: Nat,           \* history: clock when it was cancelled
         attempt: Nat,
         clock: Nat,
         sent: Nat,           \* clock when the attempt was sent
         wait: Nat,           \* the delay do429 settled on
         left: Nat,           \* budget left when it did
         until: Nat,          \* when the timer of this pc fires
         notBefore: Nat]      \* history: when Retry-After has passed

\* Bodies are left out, so is what restore() hands over for the one it drained:
\* as much of the first 64 KiB as could be read.
Idle == [pc: {"idle"}, reply: {"none", "response", "error", "429"}]

HoldsSlot(c) == call[c].pc \in {"recheck", "sleep"}

-----------------------------------------------------------------------------

Return(c, reply) == call' = [call EXCEPT ![c] = [pc |-> "idle", reply |-> reply]]

Start(c, m) ==
  /\ call[c].pc = "idle"
  /\ call' = [call EXCEPT ![c] =
       [pc |-> "sending", method |-> m, cancelled |-> FALSE, gone |-> 0,
        attempt |-> 1, clock |-> 0, sent |-> 0, wait |-> 0, left |-> 0, until |-> 0,
        notBefore |-> 0]]
  /\ UNCHANGED held

\* Anything but a 429 goes to the caller as it is.  An exchange may still bring
\* a response after the caller has cancelled.
Respond(c, reply) ==
  /\ call[c].pc = "sending"
  /\ Return(c, reply)
  /\ UNCHANGED held

Backoff(attempt) ==
  LET d == Fallback * 2^(attempt - 1)
  IN IF d \in 1 .. MaxFallback THEN d ELSE MaxFallback

\* retryDelayFor: no hint stands for an absent or invalid Retry-After.
Delay(hint, attempt) == IF hint \in Hint THEN hint ELSE Backoff(attempt)

Remaining(c) == Budget - call[c].clock

Least(a, b) == IF a < b THEN a ELSE b

\* Mutant of MayWait: one attempt too many.
MayWaitOnceMore(c, d) == call[c].attempt <= MaxAttempts /\ d <= Remaining(c)

\* Neither out of attempts nor asked to wait for longer than it may.
MayWait(c, d) == call[c].attempt < MaxAttempts /\ d <= Remaining(c)

\* A 429 that is handed over at once: to a write, or to a read that may not wait.
GiveUp(c, hint) ==
  /\ call[c].pc = "sending"
  /\ call[c].method = "write" \/ ~MayWait(c, Delay(hint, call[c].attempt))
  /\ Return(c, "429")
  /\ UNCHANGED held

\* A 429 that is worth waiting for: the delay, with jitter, is settled on, and
\* the body is to be read before anything else.
Throttle(c, hint) ==
  LET d == Delay(hint, call[c].attempt)
  IN /\ call[c].pc = "sending"
     /\ call[c].method = "read" /\ MayWait(c, d)
     /\ \E jitter \in 0 .. d \div 4 :
          call' = [call EXCEPT ![c].pc = "drain",
                               ![c].wait = Least(d + jitter, Remaining(c)),
                               ![c].left = Remaining(c),
                               ![c].notBefore = call[c].clock + d]
     /\ UNCHANGED held

\* The body has been read, or could not be: an error of it is ignored.  The slot
\* is waited for with the budget left when the delay was settled on.
Drained(c) ==
  /\ call[c].pc = "drain"
  /\ call' = [call EXCEPT ![c].pc = "slot", ![c].until = call[c].clock + call[c].left]
  /\ UNCHANGED held

AcquireSlot(c) ==
  /\ call[c].pc = "slot" /\ held < Slots
  /\ held' = held + 1
  /\ call' = [call EXCEPT ![c].pc = "recheck"]

\* Mutant of SlotTimeout: the slot is waited for without a limit.
SlotNoTimeout(c) ==
  /\ call[c].pc = "slot"
  /\ call[c].cancelled /\ Return(c, "error")
  /\ UNCHANGED held

\* acquireRetrySlot failed: the caller's context or the slot's own timer.
SlotTimeout(c) ==
  /\ call[c].pc = "slot"
  /\ \/ call[c].cancelled /\ Return(c, "error")
     \/ ~call[c].cancelled /\ call[c].clock >= call[c].until /\ Return(c, "429")
  /\ UNCHANGED held

\* Mutant of Recheck: the slot is not given back when the call gives up.
RecheckLeak(c) ==
  /\ call[c].pc = "recheck"
  /\ \/ call[c].wait > Remaining(c) /\ Return(c, "429")
     \/ /\ call[c].wait <= Remaining(c)
        /\ call' = [call EXCEPT ![c].pc = "sleep", ![c].until = call[c].clock + call[c].wait]
  /\ UNCHANGED held

\* The wait for the slot may have used up the time the delay needs.
Recheck(c) ==
  /\ call[c].pc = "recheck"
  /\ \/ /\ call[c].wait > Remaining(c)
        /\ held' = held - 1
        /\ Return(c, "429")
     \/ /\ call[c].wait <= Remaining(c)
        /\ call' = [call EXCEPT ![c].pc = "sleep", ![c].until = call[c].clock + call[c].wait]
        /\ UNCHANGED held

\* sleepCtx was cut short.
Cancelled(c) ==
  /\ call[c].pc = "sleep" /\ call[c].cancelled
  /\ held' = held - 1
  /\ Return(c, "error")

\* Mutant of Wake: the budget is not looked at again after the wait.
WakeAnyway(c) ==
  /\ call[c].pc = "sleep" /\ call[c].clock >= call[c].until
  /\ call[c].wait = 0 => ~call[c].cancelled
  /\ held' = held - 1
  /\ call' = [call EXCEPT ![c].pc = "sending", ![c].attempt = @ + 1,
                          ![c].sent = call[c].clock]

\* Mutant of Wake: a delay of 0 is over without a look at the context.
WakeUnasked(c) ==
  /\ call[c].pc = "sleep" /\ call[c].clock >= call[c].until
  /\ held' = held - 1
  /\ IF call[c].clock >= Budget
     THEN Return(c, "429")
     ELSE call' = [call EXCEPT ![c].pc = "sending", ![c].attempt = @ + 1,
                               ![c].sent = call[c].clock]

\* sleepCtx ran to its end; a delay of 0 looks at the context first.
Wake(c) ==
  /\ call[c].pc = "sleep" /\ call[c].clock >= call[c].until
  /\ call[c].wait = 0 => ~call[c].cancelled
  /\ held' = held - 1
  /\ IF call[c].clock >= Budget
     THEN Return(c, "429")
     ELSE call' = [call EXCEPT ![c].pc = "sending", ![c].attempt = @ + 1,
                               ![c].sent = call[c].clock]

Cancel(c) ==
  /\ call[c].pc # "idle" /\ ~call[c].cancelled
  /\ call' = [call EXCEPT ![c].cancelled = TRUE, ![c].gone = call[c].clock]
  /\ UNCHANGED held

\* Time cannot pass before c has taken a step.
Due(c) ==
  \/ call[c].pc \in {"sending", "drain"} /\ call[c].clock >= call[c].sent + Latency
  \/ /\ call[c].pc \in {"slot", "sleep"}
     /\ call[c].cancelled \/ call[c].clock >= call[c].until
  \/ call[c].pc = "recheck"

Tick ==
  /\ \A c \in Call : ~Due(c)
  /\ call' = [c \in Call |-> IF call[c].pc = "idle" THEN call[c]
                             ELSE [call[c] EXCEPT !.clock = @ + 1]]
  /\ UNCHANGED held

-----------------------------------------------------------------------------

Init ==
  /\ call = [c \in Call |-> [pc |-> "idle", reply |-> "none"]]
  /\ held = 0

NoHint == -1

Advance(c) ==
  \/ \E reply \in {"response", "error"} : Respond(c, reply)
  \/ \E hint \in Hint \cup {NoHint} : GiveUp(c, hint)
  \/ \E hint \in Hint \cup {NoHint} : Throttle(c, hint)
  \/ Drained(c)
  \/ AcquireSlot(c)
  \/ SlotTimeout(c)
  \/ Recheck(c)
  \/ Cancelled(c)
  \/ Wake(c)

Next ==
  \/ \E c \in Call, m \in Method : Start(c, m)
  \/ \E c \in Call : Advance(c)
  \/ \E c \in Call : Cancel(c)
  \/ Tick

Spec == Init /\ [][Next]_vars

\* Goroutines are scheduled, every exchange ends by the HTTP timeout, and time
\* goes on however many calls come and go.
FairSpec == Spec /\ SF_vars(Tick) /\ \A c \in Call : WF_vars(Advance(c))

-----------------------------------------------------------------------------
(* Properties.                                                             *)

\* Every variable has the shape the code gives it.
TypeOK ==
  /\ call \in [Call -> Busy \cup Idle]
  /\ held \in Nat

\* Every slot is held by a call that is waiting, and given back on every way
\* out of the wait: no error path, cancellation or timeout leaks one, and no
\* more calls than slots ever wait at the same time.
SlotsBalanced ==
  /\ held = Cardinality({c \in Call : HoldsSlot(c)})
  /\ held <= Slots

\* A retry comes no earlier than the server asked for, however long the slot
\* took and however the delay was cut to fit the budget, and never after the
\* budget is spent.
RetryOnTime ==
  [][\A c \in Call : call[c].pc = "sleep" /\ call'[c].pc = "sending" =>
       call[c].notBefore <= call[c].clock /\ call[c].clock < Budget]_vars

\* A call is over within the budget and one HTTP timeout, in at most
\* MaxAttempts exchanges, and a write in one.
CallBounded ==
  \A c \in Call : call[c].pc # "idle" =>
    /\ call[c].clock <= Budget + Latency
    /\ call[c].attempt <= MaxAttempts
    /\ call[c].method = "write" => call[c].attempt = 1

\* Nothing is sent for a caller who has gone: whatever the call was waiting for
\* when it was cancelled - an answer, a slot, the end of a delay that may be 0 -
\* it sends no request at a later instant.
SilentAfterCancel ==
  \A c \in Call : call[c].pc = "sending" /\ call[c].cancelled =>
    call[c].sent <= call[c].gone

\* A call cancelled while it waits sends nothing more, and the cancellation is
\* not reported as throttling.
CancelObeyed ==
  [][\A c \in Call :
       /\ call[c].pc \in {"slot", "sleep"}
       /\ call[c].cancelled /\ call[c].clock < call[c].until
       /\ call'[c].pc \in {"sending", "idle"}
       => call'[c].pc = "idle" /\ call'[c].reply = "error"]_vars

\* Every call returns: waiting for slots never ends in everyone waiting on
\* everyone.
EveryCallReturns == \A c \in Call : call[c].pc # "idle" ~> call[c].pc = "idle"

=============================================================================
