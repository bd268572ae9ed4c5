--------------------------- MODULE Retry429Proofs ---------------------------
(***************************************************************************)
(* What holds of Retry429 for every number of calls and slots, every       *)
(* budget, latency and backoff, and every delay a server may ask for.      *)
(***************************************************************************)
EXTENDS Retry429, FiniteSetTheorems, TLAPS

\* What is known of a call in progress.
Sound(c) ==
  /\ call[c].attempt \in 1 .. MaxAttempts
  /\ call[c].method = "write" => call[c].attempt = 1
  /\ call[c].pc # "sending" => call[c].attempt < MaxAttempts /\ call[c].method = "read"
  /\ call[c].pc \in {"sending", "drain"} =>
       /\ call[c].sent < Budget
       /\ call[c].sent <= call[c].clock /\ call[c].clock <= call[c].sent + Latency
  /\ call[c].pc = "drain" => call[c].left <= Budget - call[c].sent
  /\ call[c].pc \in {"drain", "slot", "recheck"} =>
       call[c].notBefore <= call[c].clock + call[c].wait
  /\ call[c].pc = "slot" =>
       call[c].clock <= call[c].until /\ call[c].until <= Budget + Latency
  /\ call[c].pc = "recheck" => call[c].clock <= Budget + Latency
  /\ call[c].pc = "sleep" =>
       /\ call[c].clock <= call[c].until /\ call[c].until <= Budget
       /\ call[c].notBefore <= call[c].until
       /\ call[c].cancelled => \/ call[c].clock < call[c].until
                               \/ call[c].wait = 0 \/ call[c].gone = call[c].clock
  /\ call[c].pc = "sending" /\ call[c].cancelled => call[c].sent <= call[c].gone

RetryInv ==
  /\ TypeOK
  /\ \A c \in Call : call[c].pc # "idle" => Sound(c)

LEMMA Shape ==
  ASSUME TypeOK, NEW c \in Call
  PROVE  /\ call[c].pc # "idle" => call[c] \in Busy
         /\ call[c].pc = "idle" => call[c] \in Idle
  BY DEF TypeOK, Busy, Idle

LEMMA DelayType ==
  ASSUME NEW hint \in Hint \cup {NoHint}, NEW attempt \in Nat
  PROVE  Delay(hint, attempt) \in Nat
  BY RetryAssumption DEF Delay, Backoff

LEMMA InitRetry == Init => RetryInv
  BY DEF Init, RetryInv, TypeOK, Idle

\* Nothing is asked of a call that has returned.
LEMMA ReturnSound ==
  ASSUME RetryInv, held' \in Nat, NEW c \in Call,
         NEW reply \in {"response", "error", "429"},
         Return(c, reply)
  PROVE  RetryInv'
<1>1. call' \in [Call -> Busy \cup Idle]
  BY DEF Return, RetryInv, TypeOK, Idle
<1>2. call'[c] = [pc |-> "idle", reply |-> reply]
  BY DEF Return, RetryInv, TypeOK
<1>3. \A b \in Call \ {c} : call'[b] = call[b]
  BY DEF Return, RetryInv, TypeOK
<1>4. call'[c].pc = "idle"
  BY <1>2
<1>5. ASSUME NEW b \in Call
      PROVE  call'[b].pc # "idle" => Sound(b)'
  <2>1. CASE b = c
    BY <1>4, <2>1
  <2>2. CASE b # c
    <3>1. call'[b] = call[b]
      BY <1>3, <2>2
    <3>2. Sound(b) => Sound(b)'
      BY <3>1 DEF Sound
    <3>3. QED
      BY <3>1, <3>2 DEF RetryInv
  <2>3. QED
    BY <2>1, <2>2
<1>6. QED
  BY <1>1, <1>5 DEF RetryInv, TypeOK

\* A call that moves on to another pc is sound if its own record is.
LEMMA MoveSound ==
  ASSUME RetryInv, held' \in Nat, NEW c \in Call, NEW b \in Busy,
         call' = [call EXCEPT ![c] = b], Sound(c)'
  PROVE  RetryInv'
<1>1. call' \in [Call -> Busy \cup Idle]
  BY DEF RetryInv, TypeOK
<1>2. call'[c] = b /\ b.pc # "idle"
  BY DEF RetryInv, TypeOK, Busy
<1>3. ASSUME NEW d \in Call
      PROVE  call'[d].pc # "idle" => Sound(d)'
  <2>1. CASE d = c
    BY <1>2, <2>1
  <2>2. CASE d # c
    <3>1. call'[d] = call[d]
      BY <2>2 DEF RetryInv, TypeOK
    <3>2. Sound(d) => Sound(d)'
      BY <3>1 DEF Sound
    <3>3. QED
      BY <3>1, <3>2 DEF RetryInv
  <2>3. QED
    BY <2>1, <2>2
<1>4. QED
  BY <1>1, <1>3 DEF RetryInv, TypeOK

\* The number of tokens in the channel stays a natural number.
HeldPositive == \A c \in Call : HoldsSlot(c) => held > 0

LEMMA NextRetry == RetryInv /\ HeldPositive /\ [Next]_vars => RetryInv'
<1> SUFFICES ASSUME RetryInv, HeldPositive, [Next]_vars
             PROVE  RetryInv'
  OBVIOUS
<1> USE RetryAssumption
<1>0. TypeOK /\ held \in Nat
  BY DEF RetryInv, TypeOK
<1>1. ASSUME NEW c \in Call, NEW m \in Method, Start(c, m)
      PROVE  RetryInv'
  <2> DEFINE b == [pc |-> "sending", method |-> m, cancelled |-> FALSE, gone |-> 0, attempt |-> 1,
        clock |-> 0, sent |-> 0, wait |-> 0, left |-> 0, until |-> 0, notBefore |-> 0]
  <2>1. b \in Busy
    BY DEF Busy
  <2>2. call' = [call EXCEPT ![c] = b] /\ held' = held
    BY <1>1 DEF Start
  <2>3. call'[c] = b
    BY <1>0, <2>2 DEF TypeOK
  <2>4. Sound(c)'
    BY <2>3 DEF Sound
  <2>5. QED
    BY <1>0, <2>1, <2>2, <2>4, MoveSound
<1>2. ASSUME NEW c \in Call, NEW reply \in {"response", "error"}, Respond(c, reply)
      PROVE  RetryInv'
  BY <1>0, <1>2, ReturnSound DEF Respond
<1>3. ASSUME NEW c \in Call, NEW hint \in Hint \cup {NoHint}, GiveUp(c, hint)
      PROVE  RetryInv'
  BY <1>0, <1>3, ReturnSound DEF GiveUp
<1>4. ASSUME NEW c \in Call, NEW hint \in Hint \cup {NoHint}, Throttle(c, hint)
      PROVE  RetryInv'
  <2> DEFINE d == Delay(hint, call[c].attempt)
  <2>1. call[c] \in Busy /\ call[c].pc = "sending" /\ call[c].method = "read"
    BY <1>0, <1>4, Shape DEF Throttle
  <2>2. d \in Nat
    BY <2>1, DelayType DEF Busy
  <2>3. call[c].attempt < MaxAttempts /\ d <= Remaining(c)
    BY <1>4 DEF Throttle, MayWait
  <2>4. PICK jitter \in 0 .. d \div 4 :
          call' = [call EXCEPT ![c].pc = "drain",
                               ![c].wait = Least(d + jitter, Remaining(c)),
                               ![c].left = Remaining(c),
                               ![c].notBefore = call[c].clock + d]
    BY <1>4 DEF Throttle
  <2> DEFINE w == Least(d + jitter, Remaining(c))
             b == [call[c] EXCEPT !.pc = "drain", !.wait = w, !.left = Remaining(c),
                                  !.notBefore = call[c].clock + d]
  <2>5. jitter \in Nat
    BY <2>2, <2>4, SMT
  <2>6. Remaining(c) \in Nat /\ w \in Nat /\ d <= w
    <3>1. Remaining(c) \in Int /\ d <= Remaining(c)
      BY <2>1, <2>3 DEF Remaining, Busy
    <3>2. QED
      BY <2>2, <2>5, <3>1 DEF Least
  <2> HIDE DEF d, w
  <2>7. b \in Busy
    <3>1. call[c].clock + d \in Nat
      BY <2>1, <2>2 DEF Busy
    <3>2. QED
      BY <2>1, <2>6, <3>1 DEF Busy
  <2>8. call' = [call EXCEPT ![c] = b] /\ held' = held
    BY <1>0, <1>4, <2>4 DEF Throttle, TypeOK, w
  <2>9. Sound(c)
    BY <2>1 DEF RetryInv
  <2>10. call'[c] = b
    BY <1>0, <2>8 DEF TypeOK
  <2>11. /\ call'[c].pc = "drain" /\ call'[c].method = "read"
         /\ call'[c].attempt = call[c].attempt
         /\ call'[c].clock = call[c].clock /\ call'[c].sent = call[c].sent
         /\ call'[c].left = Budget - call[c].clock
         /\ call'[c].wait = w /\ call'[c].notBefore = call[c].clock + d
    BY <2>1, <2>10 DEF Busy, Remaining
  <2>12. Sound(c)'
    BY <2>1, <2>2, <2>3, <2>6, <2>9, <2>11 DEF Sound, Busy
  <2>13. QED
    BY <1>0, <2>7, <2>8, <2>12, MoveSound
<1>5. ASSUME NEW c \in Call, Drained(c)
      PROVE  RetryInv'
  <2> DEFINE b == [call[c] EXCEPT !.pc = "slot", !.until = call[c].clock + call[c].left]
  <2>1. call[c] \in Busy /\ call[c].pc = "drain"
    BY <1>0, <1>5, Shape DEF Drained
  <2>2. b \in Busy
    <3>1. call[c].clock + call[c].left \in Nat
      BY <2>1 DEF Busy
    <3>2. QED
      BY <2>1, <3>1 DEF Busy
  <2>3. call' = [call EXCEPT ![c] = b] /\ held' = held /\ call'[c] = b
    BY <1>0, <1>5 DEF Drained, TypeOK
  <2>4. Sound(c)
    BY <2>1 DEF RetryInv
  <2>5. Sound(c)'
    BY <2>1, <2>3, <2>4 DEF Sound, Busy
  <2>6. QED
    BY <1>0, <2>2, <2>3, <2>5, MoveSound
<1>6. ASSUME NEW c \in Call, AcquireSlot(c)
      PROVE  RetryInv'
  <2> DEFINE b == [call[c] EXCEPT !.pc = "recheck"]
  <2>1. call[c] \in Busy /\ call[c].pc = "slot"
    BY <1>0, <1>6, Shape DEF AcquireSlot
  <2>2. b \in Busy
    BY <2>1 DEF Busy
  <2>3. call' = [call EXCEPT ![c] = b] /\ held' \in Nat /\ call'[c] = b
    BY <1>0, <1>6 DEF AcquireSlot, TypeOK
  <2>4. Sound(c)
    BY <2>1 DEF RetryInv
  <2>5. Sound(c)'
    BY <2>1, <2>3, <2>4 DEF Sound, Busy
  <2>6. QED
    BY <2>2, <2>3, <2>5, MoveSound
<1>7. ASSUME NEW c \in Call, SlotTimeout(c)
      PROVE  RetryInv'
  BY <1>0, <1>7, ReturnSound DEF SlotTimeout
<1>8. ASSUME NEW c \in Call, Recheck(c)
      PROVE  RetryInv'
  <2>0. call[c] \in Busy /\ call[c].pc = "recheck" /\ held > 0
    BY <1>0, <1>8, Shape DEF Recheck, HeldPositive, HoldsSlot
  <2>1. CASE Return(c, "429") /\ held' = held - 1
    <3>1. held' \in Nat
      BY <1>0, <2>0, <2>1
    <3>2. QED
      BY <2>1, <3>1, ReturnSound
  <2>2. CASE /\ call[c].wait <= Remaining(c) /\ held' = held
             /\ call' = [call EXCEPT ![c].pc = "sleep",
                                     ![c].until = call[c].clock + call[c].wait]
    <3> DEFINE b == [call[c] EXCEPT !.pc = "sleep", !.until = call[c].clock + call[c].wait]
    <3>1. b \in Busy
      <4>1. call[c].clock + call[c].wait \in Nat
        BY <2>0 DEF Busy
      <4>2. QED
        BY <2>0, <4>1 DEF Busy
    <3>2. call' = [call EXCEPT ![c] = b] /\ call'[c] = b
      BY <1>0, <2>2 DEF TypeOK
    <3>3. Sound(c)
      BY <2>0 DEF RetryInv
    <3>4. Sound(c)'
      <4>1. /\ call'[c].pc = "sleep" /\ call'[c].method = call[c].method
            /\ call'[c].attempt = call[c].attempt /\ call'[c].clock = call[c].clock
            /\ call'[c].notBefore = call[c].notBefore
            /\ call'[c].wait = call[c].wait
            /\ call'[c].until = call[c].clock + call[c].wait
        <5>1. /\ b.pc = "sleep" /\ b.method = call[c].method
              /\ b.attempt = call[c].attempt /\ b.clock = call[c].clock
              /\ b.notBefore = call[c].notBefore
              /\ b.wait = call[c].wait
              /\ b.until = call[c].clock + call[c].wait
          BY <2>0 DEF Busy
        <5>2. QED
          BY <3>2, <5>1
      <4>2. call[c].wait <= Budget - call[c].clock
        BY <2>2 DEF Remaining
      <4>3. call'[c].wait = 0 \/ call'[c].clock < call'[c].until
        BY <2>0, <4>1 DEF Busy
      <4>4. QED
        BY <2>0, <3>3, <4>1, <4>2, <4>3 DEF Sound, Busy
    <3>5. QED
      BY <1>0, <2>2, <3>1, <3>2, <3>4, MoveSound
  <2>3. QED
    BY <1>8, <2>1, <2>2 DEF Recheck
<1>9. ASSUME NEW c \in Call, Cancelled(c)
      PROVE  RetryInv'
  <2>1. held > 0
    BY <1>9 DEF Cancelled, HeldPositive, HoldsSlot
  <2>2. held' \in Nat
    BY <1>0, <1>9, <2>1 DEF Cancelled
  <2>3. QED
    BY <1>9, <2>2, ReturnSound DEF Cancelled
<1>10. ASSUME NEW c \in Call, Wake(c)
       PROVE  RetryInv'
  <2>0. call[c] \in Busy /\ call[c].pc = "sleep" /\ held > 0
    BY <1>0, <1>10, Shape DEF Wake, HeldPositive, HoldsSlot
  <2>1. held' \in Nat
    BY <1>0, <1>10, <2>0 DEF Wake
  <2>2. CASE call[c].clock >= Budget
    BY <1>10, <2>1, <2>2, ReturnSound DEF Wake
  <2>3. CASE ~(call[c].clock >= Budget)
    <3> DEFINE b == [call[c] EXCEPT !.pc = "sending", !.attempt = @ + 1,
                                    !.sent = call[c].clock]
    <3>1. b \in Busy
      <4>1. call[c].attempt + 1 \in Nat /\ call[c].clock \in Nat
        BY <2>0 DEF Busy
      <4>2. QED
        BY <2>0, <4>1 DEF Busy
    <3>2. call' = [call EXCEPT ![c] = b] /\ call'[c] = b
      BY <1>0, <1>10, <2>3 DEF Wake, TypeOK
    <3>3. Sound(c)
      BY <2>0 DEF RetryInv
    <3>4. Sound(c)'
      <4>1. /\ b.pc = "sending" /\ b.method = call[c].method
            /\ b.attempt = call[c].attempt + 1 /\ b.clock = call[c].clock
            /\ b.sent = call[c].clock /\ b.cancelled = call[c].cancelled
            /\ b.gone = call[c].gone
        BY <2>0 DEF Busy
      <4>2. call[c].cancelled => call[c].gone = call[c].clock
        BY <1>10, <2>0, <3>3 DEF Sound, Wake, Busy
      <4>3. QED
        BY <2>0, <2>3, <3>2, <3>3, <4>1, <4>2 DEF Sound, Busy
    <3>5. QED
      BY <2>1, <3>1, <3>2, <3>4, MoveSound
  <2>4. QED
    BY <2>2, <2>3
<1>11. ASSUME NEW c \in Call, Cancel(c)
       PROVE  RetryInv'
  <2> DEFINE b == [call[c] EXCEPT !.cancelled = TRUE, !.gone = call[c].clock]
  <2>1. call[c] \in Busy
    BY <1>0, <1>11, Shape DEF Cancel
  <2>2. b \in Busy
    BY <2>1 DEF Busy
  <2>3. call' = [call EXCEPT ![c] = b] /\ held' = held /\ call'[c] = b
    BY <1>0, <1>11 DEF Cancel, TypeOK
  <2>4. Sound(c)
    BY <1>11 DEF RetryInv, Cancel
  <2>5. Sound(c)'
    BY <2>1, <2>3, <2>4 DEF Sound, Busy
  <2>6. QED
    BY <1>0, <2>2, <2>3, <2>5, MoveSound
<1>12. CASE Tick
  <2>1. ASSUME NEW c \in Call
        PROVE  /\ call'[c] \in Busy \cup Idle
               /\ call'[c].pc # "idle" => Sound(c)'
    <3>1. CASE call[c].pc = "idle"
      <4>1. call'[c] = call[c]
        BY <1>12, <3>1 DEF Tick
      <4>2. QED
        BY <1>0, <3>1, <4>1 DEF RetryInv, TypeOK
    <3>2. CASE call[c].pc # "idle"
      <4>1. call[c] \in Busy /\ Sound(c)
        BY <1>0, <3>2, Shape DEF RetryInv
      <4>2. call'[c] = [call[c] EXCEPT !.clock = @ + 1]
        BY <1>12, <3>2 DEF Tick
      <4>3. call'[c] \in Busy /\ call'[c].pc # "idle"
        BY <4>1, <4>2 DEF Busy
      <4>4. ~Due(c)
        BY <1>12 DEF Tick
      <4>5. Sound(c)'
        BY <4>1, <4>2, <4>4 DEF Sound, Busy, Due
      <4>6. QED
        BY <4>3, <4>5
    <3>3. QED
      BY <3>1, <3>2
  <2>2. call' \in [Call -> Busy \cup Idle]
    BY <1>12, <2>1 DEF Tick
  <2>3. QED
    BY <1>0, <1>12, <2>1, <2>2 DEF RetryInv, TypeOK, Tick
<1>13. CASE UNCHANGED vars
  BY <1>13 DEF vars, RetryInv, TypeOK, Sound
<1>14. QED
  BY <1>1, <1>2, <1>3, <1>4, <1>5, <1>6, <1>7, <1>8, <1>9, <1>10, <1>11, <1>12,
     <1>13 DEF Next, Advance

-----------------------------------------------------------------------------
(* Slots.                                                                  *)

Holders == {c \in Call : HoldsSlot(c)}

LEMMA HoldersFinite == IsFiniteSet(Holders)
  BY CallAssumption, FS_Subset DEF Holders

\* A call that holds a slot accounts for a token in the channel.
LEMMA SlotsPositive == SlotsBalanced => HeldPositive
<1> SUFFICES ASSUME SlotsBalanced, NEW c \in Call, HoldsSlot(c)
             PROVE  held > 0
  BY DEF HeldPositive
<1>1. c \in Holders
  BY DEF Holders
<1>2. Cardinality(Holders) \in Nat /\ Cardinality(Holders) # 0
  BY <1>1, HoldersFinite, FS_CardinalityType, FS_EmptySet
<1>3. QED
  BY <1>2 DEF SlotsBalanced, Holders

\* In every step the holders stay, or gain one as a token goes in, or lose one
\* as a token comes out.
LEMMA HoldersStep ==
  ASSUME RetryInv, [Next]_vars
  PROVE  \/ Holders' = Holders /\ held' = held
         \/ \E c \in Call : /\ c \notin Holders /\ Holders' = Holders \cup {c}
                            /\ held < Slots /\ held' = held + 1
         \/ \E c \in Holders : Holders' = Holders \ {c} /\ held' = held - 1
<1> DEFINE Goal == \/ Holders' = Holders /\ held' = held
                   \/ \E c \in Call : /\ c \notin Holders /\ Holders' = Holders \cup {c}
                                      /\ held < Slots /\ held' = held + 1
                   \/ \E c \in Holders : Holders' = Holders \ {c} /\ held' = held - 1
<1>0. TypeOK
  BY DEF RetryInv
<1>a. ASSUME NEW c \in Call, NEW b \in Busy \cup Idle, call' = [call EXCEPT ![c] = b]
      PROVE  /\ call'[c] = b
             /\ b.pc \in {"recheck", "sleep"} => Holders' = Holders \cup {c}
             /\ b.pc \notin {"recheck", "sleep"} => Holders' = Holders \ {c}
  <2>1. call'[c] = b /\ \A d \in Call \ {c} : call'[d] = call[d]
    BY <1>0, <1>a DEF TypeOK
  <2>2. QED
    BY <2>1 DEF Holders, HoldsSlot
<1>1. ASSUME NEW c \in Call, NEW reply \in {"response", "error", "429"},
             Return(c, reply)
      PROVE  Holders' = Holders \ {c}
  <2> DEFINE b == [pc |-> "idle", reply |-> reply]
  <2>1. b \in Idle /\ b.pc = "idle"
    BY DEF Idle
  <2>2. call' = [call EXCEPT ![c] = b]
    BY <1>1 DEF Return
  <2> HIDE DEF b
  <2>3. QED
    BY <1>a, <2>1, <2>2
<1>2. ASSUME NEW c \in Call, Cancelled(c) \/ (Recheck(c) /\ held' = held - 1)
                             \/ (Wake(c) /\ call[c].clock >= Budget)
      PROVE  Goal
  <2>1. c \in Holders /\ held' = held - 1
    BY <1>2 DEF Cancelled, Recheck, Wake, Holders, HoldsSlot
  <2>2. held - 1 # held
    BY <1>0 DEF TypeOK
  <2>3. \E reply \in {"error", "429"} : Return(c, reply)
    BY <1>2, <2>1, <2>2 DEF Cancelled, Recheck, Wake
  <2>4. QED
    BY <1>1, <2>1, <2>3
<1>3. ASSUME NEW c \in Call,
             \/ \E reply \in {"response", "error"} : Respond(c, reply)
             \/ \E hint \in Hint \cup {NoHint} : GiveUp(c, hint)
             \/ SlotTimeout(c)
      PROVE  Goal
  <2>1. c \notin Holders /\ held' = held
    BY <1>3 DEF Respond, GiveUp, SlotTimeout, Holders, HoldsSlot
  <2>2. \E reply \in {"response", "error", "429"} :
          Return(c, reply)
    BY <1>3 DEF Respond, GiveUp, SlotTimeout
  <2>3. QED
    BY <1>1, <2>1, <2>2
<1>4. ASSUME NEW c \in Call, AcquireSlot(c)
      PROVE  Goal
  <2>1. c \notin Holders /\ held < Slots /\ held' = held + 1
    BY <1>4 DEF AcquireSlot, Holders, HoldsSlot
  <2>2. \A d \in Call \ {c} : call'[d] = call[d]
    BY <1>0, <1>4 DEF AcquireSlot, TypeOK
  <2>3. call[c] \in Busy
    BY <1>0, <1>4, Shape DEF AcquireSlot
  <2>4. call'[c].pc = "recheck"
    BY <1>0, <1>4, <2>3 DEF AcquireSlot, TypeOK, Busy
  <2>5. Holders' = Holders \cup {c}
    BY <2>2, <2>4 DEF Holders, HoldsSlot
  <2>6. QED
    BY <2>1, <2>5
<1>5. ASSUME NEW c \in Call, Wake(c), ~(call[c].clock >= Budget)
      PROVE  Goal
  <2>1. c \in Holders /\ held' = held - 1
    BY <1>5 DEF Wake, Holders, HoldsSlot
  <2>2. \A d \in Call \ {c} : call'[d] = call[d]
    BY <1>0, <1>5 DEF Wake, TypeOK
  <2>3. call[c] \in Busy
    BY <1>0, <1>5, Shape DEF Wake
  <2>4. call'[c].pc = "sending"
    BY <1>0, <1>5, <2>3 DEF Wake, TypeOK, Busy
  <2>5. Holders' = Holders \ {c}
    BY <2>2, <2>4 DEF Holders, HoldsSlot
  <2>6. QED
    BY <2>1, <2>5
<1>6. ASSUME NEW c \in Call,
             \/ \E m \in Method : Start(c, m)
             \/ \E hint \in Hint \cup {NoHint} : Throttle(c, hint)
             \/ Drained(c)
             \/ Recheck(c) /\ held' # held - 1
             \/ Cancel(c)
      PROVE  Goal
  <2>1. held' = held /\ \A d \in Call \ {c} : call'[d] = call[d]
    BY <1>0, <1>6 DEF Start, Throttle, Drained, Recheck, Cancel, TypeOK
  <2>2. call[c].pc \in {"recheck", "sleep"} <=> call'[c].pc \in {"recheck", "sleep"}
    <3>1. CASE \E m \in Method : Start(c, m)
      BY <1>0, <3>1 DEF Start, TypeOK
    <3>2. CASE \/ \E hint \in Hint \cup {NoHint} : Throttle(c, hint)
               \/ Drained(c)
               \/ Recheck(c) /\ held' # held - 1
               \/ Cancel(c)
      <4>1. call[c] \in Busy
        BY <1>0, <3>2, Shape DEF Throttle, Drained, Recheck, Cancel
      <4>2. ASSUME NEW hint \in Hint \cup {NoHint}, Throttle(c, hint)
            PROVE  call[c].pc = "sending" /\ call'[c].pc = "drain"
        <5>1. PICK w, n : call' = [call EXCEPT ![c].pc = "drain", ![c].wait = w,
                                  ![c].left = Remaining(c), ![c].notBefore = n]
          BY <4>2 DEF Throttle
        <5>2. QED
          BY <1>0, <4>1, <4>2, <5>1 DEF Throttle, TypeOK, Busy
      <4>3. CASE Drained(c) \/ (Recheck(c) /\ held' # held - 1) \/ Cancel(c)
        BY <1>0, <4>1, <4>3 DEF Drained, Recheck, Cancel, TypeOK, Busy
      <4>4. QED
        BY <3>2, <4>2, <4>3
    <3>3. QED
      BY <1>6, <3>1, <3>2
  <2>3. Holders' = Holders
    BY <2>1, <2>2 DEF Holders, HoldsSlot
  <2>4. QED
    BY <2>1, <2>3
<1>7. CASE Tick
  <2>1. \A c \in Call : call'[c].pc = call[c].pc
    <3>1. ASSUME NEW c \in Call
          PROVE  call'[c].pc = call[c].pc
      <4>1. call[c].pc # "idle" => call[c] \in Busy
        BY <1>0, Shape
      <4>2. QED
        BY <1>7, <4>1 DEF Tick, Busy
    <3>2. QED
      BY <3>1
  <2>2. QED
    BY <1>7, <2>1 DEF Tick, Holders, HoldsSlot
<1>8. CASE UNCHANGED vars
  BY <1>8 DEF vars, Holders, HoldsSlot
<1>9. QED
  BY <1>2, <1>3, <1>4, <1>5, <1>6, <1>7, <1>8 DEF Next, Advance

LEMMA SlotsNext == RetryInv /\ SlotsBalanced /\ [Next]_vars => SlotsBalanced'
<1> SUFFICES ASSUME RetryInv, SlotsBalanced, [Next]_vars
             PROVE  SlotsBalanced'
  OBVIOUS
<1>1. held = Cardinality(Holders) /\ held <= Slots /\ held \in Nat
  BY DEF SlotsBalanced, Holders, RetryInv, TypeOK
<1>2. CASE Holders' = Holders /\ held' = held
  BY <1>1, <1>2 DEF SlotsBalanced, Holders
<1>3. ASSUME NEW c \in Call, c \notin Holders, Holders' = Holders \cup {c},
             held < Slots, held' = held + 1
      PROVE  SlotsBalanced'
  <2>1. Cardinality(Holders') = held + 1
    BY <1>1, <1>3, HoldersFinite, FS_AddElement
  <2>2. QED
    BY <1>1, <1>3, <2>1, RetryAssumption DEF SlotsBalanced, Holders
<1>4. ASSUME NEW c \in Holders, Holders' = Holders \ {c}, held' = held - 1
      PROVE  SlotsBalanced'
  <2>1. Cardinality(Holders') = held - 1
    BY <1>1, <1>4, HoldersFinite, FS_RemoveElement
  <2>2. QED
    BY <1>1, <1>4, <2>1, RetryAssumption DEF SlotsBalanced, Holders
<1>5. QED
  BY <1>2, <1>3, <1>4, HoldersStep

LEMMA SlotsInit == Init => SlotsBalanced
<1> SUFFICES ASSUME Init
             PROVE  SlotsBalanced
  OBVIOUS
<1>1. Holders = {}
  BY DEF Init, Holders, HoldsSlot
<1>2. QED
  BY <1>1, FS_EmptySet, RetryAssumption DEF Init, SlotsBalanced, Holders

-----------------------------------------------------------------------------
(* The results.                                                            *)

LEMMA Inductive == Spec => [](RetryInv /\ SlotsBalanced)
<1>1. RetryInv /\ SlotsBalanced /\ [Next]_vars => (RetryInv /\ SlotsBalanced)'
  BY NextRetry, SlotsNext, SlotsPositive
<1>2. QED
  BY <1>1, InitRetry, SlotsInit, PTL DEF Spec

\* Every behaviour keeps the variables of the retry well typed.
THEOREM TypeCorrect == Spec => []TypeOK
<1>1. RetryInv => TypeOK
  BY DEF RetryInv
<1>2. QED
  BY <1>1, Inductive, PTL

\* Whatever the number of calls and slots, none leaks and none is overbooked.
THEOREM SlotsBalancedHolds == Spec => []SlotsBalanced
  BY Inductive, PTL

\* Whatever the server asks for, a call ends within its budget and one timeout,
\* after at most MaxAttempts exchanges, and a write after one.
THEOREM CallBoundedHolds == Spec => []CallBounded
<1>1. ASSUME RetryInv
      PROVE  CallBounded
  <2>1. ASSUME NEW c \in Call, call[c].pc # "idle"
        PROVE  /\ call[c].clock <= Budget + Latency
               /\ call[c].attempt <= MaxAttempts
               /\ call[c].method = "write" => call[c].attempt = 1
    <3>1. call[c] \in Busy /\ Sound(c)
      BY <1>1, <2>1, Shape DEF RetryInv
    <3>2. QED
      BY <3>1, RetryAssumption DEF Sound, Busy
  <2>2. QED
    BY <2>1 DEF CallBounded
<1>2. QED
  BY <1>1, Inductive, PTL

\* A caller who has gone causes no request at a later instant, whatever the
\* call was waiting for and however long its delays are.
THEOREM SilentAfterCancelHolds == Spec => []SilentAfterCancel
<1>1. RetryInv => SilentAfterCancel
  BY DEF RetryInv, SilentAfterCancel, Sound
<1>2. QED
  BY <1>1, Inductive, PTL

\* A retry is sent neither before Retry-After has passed nor after the budget.
THEOREM RetryOnTimeHolds == Spec => RetryOnTime
<1>1. ASSUME RetryInv, [Next]_vars, NEW c \in Call,
             call[c].pc = "sleep", call'[c].pc = "sending"
      PROVE  call[c].notBefore <= call[c].clock /\ call[c].clock < Budget
  <2>1. call[c] \in Busy /\ Sound(c)
    BY <1>1, Shape DEF RetryInv
  <2>2. Wake(c)
    <3>1. TypeOK
      BY <1>1 DEF RetryInv
    <3>2. ASSUME NEW b \in Call, b # c,
                 \/ Advance(b) \/ Cancel(b) \/ \E m \in Method : Start(b, m)
          PROVE  FALSE
      <4>1. call'[c] = call[c]
        BY <3>1, <3>2 DEF Advance, Cancel, Start, Respond, GiveUp, Throttle, Drained,
             AcquireSlot, SlotTimeout, Recheck, Cancelled, Wake, Return,
             Return, TypeOK
      <4>2. QED
        BY <1>1, <4>1
    <3>3. CASE Tick
      BY <1>1, <2>1, <3>3 DEF Tick, Busy
    <3>4. CASE UNCHANGED vars
      BY <1>1, <3>4 DEF vars
    <3>5. CASE Cancel(c)
      BY <1>1, <2>1, <3>1, <3>5 DEF Cancel, TypeOK, Busy
    <3>6. CASE Advance(c)
      <4>1. CASE Cancelled(c)
        <5>1. call'[c].pc = "idle"
          BY <3>1, <4>1 DEF Cancelled, Return, TypeOK
        <5>2. QED
          BY <1>1, <5>1
      <4>2. QED
        BY <1>1, <3>6, <4>1 DEF Advance, Respond, GiveUp, Throttle, Drained,
             AcquireSlot, SlotTimeout, Recheck
    <3>7. ASSUME NEW m \in Method, Start(c, m)
          PROVE  FALSE
      BY <1>1, <3>7 DEF Start
    <3>8. QED
      BY <1>1, <3>2, <3>3, <3>4, <3>5, <3>6, <3>7 DEF Next
  <2>3. call[c].clock >= call[c].until
    BY <2>2 DEF Wake
  <2>4. ~(call[c].clock >= Budget)
    <3>1. ASSUME Return(c, "429")
          PROVE  FALSE
      <4>1. call'[c].pc = "idle"
        BY <1>1, <3>1 DEF Return, RetryInv, TypeOK
      <4>2. QED
        BY <1>1, <4>1
    <3>2. QED
      BY <2>2, <3>1 DEF Wake
  <2>5. QED
    BY <1>1, <2>1, <2>3, <2>4, RetryAssumption DEF Sound, Busy
<1>2. RetryInv /\ [Next]_vars =>
        [\A c \in Call : call[c].pc = "sleep" /\ call'[c].pc = "sending" =>
           call[c].notBefore <= call[c].clock /\ call[c].clock < Budget]_vars
  BY <1>1
<1>3. QED
  BY <1>2, Inductive, PTL DEF Spec, RetryOnTime

\* A call that is cancelled while it waits for a slot or for its delay sends
\* nothing more, and its caller is told of the cancellation, not of the
\* throttling (the select in do429 and the recheck after it).
THEOREM CancelObeyedHolds == Spec => CancelObeyed
<1>1. ASSUME RetryInv, [Next]_vars, NEW c \in Call,
             call[c].pc \in {"slot", "sleep"},
             call[c].cancelled, call[c].clock < call[c].until,
             call'[c].pc \in {"sending", "idle"}
      PROVE  call'[c].pc = "idle" /\ call'[c].reply = "error"
  <2>1. call[c] \in Busy /\ Sound(c)
    BY <1>1, Shape DEF RetryInv
  <2>2. TypeOK
    BY <1>1 DEF RetryInv
  <2>3. call[c].clock \in Int /\ call[c].until \in Int
    BY <2>1 DEF Busy
  <2>4. ASSUME NEW b \in Call, b # c,
               \/ Advance(b) \/ Cancel(b) \/ \E m \in Method : Start(b, m)
        PROVE  FALSE
    <3>1. call'[c] = call[c]
      BY <2>2, <2>4 DEF Advance, Cancel, Start, Respond, GiveUp, Throttle, Drained,
           AcquireSlot, SlotTimeout, Recheck, Cancelled, Wake, Return,
           Return, TypeOK
    <3>2. QED
      BY <1>1, <3>1
  <2>5. CASE Tick
    BY <1>1, <2>1, <2>5 DEF Tick, Busy
  <2>6. CASE UNCHANGED vars
    BY <1>1, <2>6 DEF vars
  <2>7. CASE Cancel(c)
    BY <1>1, <2>1, <2>2, <2>7 DEF Cancel, TypeOK, Busy
  <2>8. CASE Cancelled(c)
    BY <2>2, <2>8 DEF Cancelled, Return, TypeOK
  <2>9. CASE SlotTimeout(c)
    BY <1>1, <2>2, <2>3, <2>9 DEF SlotTimeout, Return, TypeOK
  <2>10. CASE AcquireSlot(c)
    BY <1>1, <2>2, <2>10 DEF AcquireSlot, TypeOK
  <2>11. CASE Wake(c)
    BY <1>1, <2>3, <2>11 DEF Wake
  <2>12. CASE Advance(c)
    BY <1>1, <2>8, <2>9, <2>10, <2>11, <2>12
       DEF Advance, Respond, GiveUp, Throttle, Drained, Recheck
  <2>13. ASSUME NEW m \in Method, Start(c, m)
         PROVE  FALSE
    BY <1>1, <2>13 DEF Start
  <2>14. QED
    BY <1>1, <2>4, <2>5, <2>6, <2>7, <2>12, <2>13 DEF Next
<1>2. RetryInv /\ [Next]_vars =>
        [\A c \in Call :
           /\ call[c].pc \in {"slot", "sleep"}
           /\ call[c].cancelled /\ call[c].clock < call[c].until
           /\ call'[c].pc \in {"sending", "idle"}
           => call'[c].pc = "idle" /\ call'[c].reply = "error"]_vars
  BY <1>1
<1>3. QED
  BY <1>2, Inductive, PTL DEF Spec, CancelObeyed

=============================================================================
