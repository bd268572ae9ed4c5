------------------------ MODULE ServerProcessProofs ------------------------
(***************************************************************************)
(* ServerProcess for any number of calls and agents: type correctness, the *)
(* late login that implements OneIdentity, the clients that late calls     *)
(* share, and the counter file that no crash tears.                        *)
(***************************************************************************)
EXTENDS ServerProcess, FiniteSetTheorems, TLAPS

\* Where a call can be.  The login is that of the stdio process, by the call
\* that holds the lock, and only while there is no session; the registry is
\* that of the sse server.
Control ==
  /\ boot # 0 => mode = "stdio" /\ session = Nobody /\ \A c \in Call : At(c, "idle")
  /\ \A c \in Call :
       /\ call[c].pc \in {"check", "lock", "recheck", "login", "refused"} => mode = "stdio"
       /\ call[c].pc \in {"lookup", "store"} => mode = "sse" /\ call[c].agent \in Agent
       /\ call[c].pc \in {"recheck", "login"} => authMu = c
       /\ At(c, "login") => session = Nobody
       /\ At(c, "run") => IF mode = "stdio" THEN session \in Agent ELSE call[c].agent \in Agent

\* What the writer of the file has in hand.
Writing ==
  /\ flush.pc # "idle" => flush.snap \in Snapshots
  /\ flush.pc = "rename" => tmp = flush.snap
  /\ file # Torn

IInv == TypeOK /\ Control /\ Writing

CallType == [pc: Step, agent: Agent \cup {Nobody}, client: 0..MaxClients, late: BOOLEAN]

LEMMA Kinds ==
  /\ Torn \notin Snapshots /\ NoFile \notin Snapshots /\ Torn # NoFile
  /\ Idle \in CallType
<1>1. Torn.state = "torn" /\ NoFile.state = "none"
  BY DEF Torn, NoFile
<1>2. \A s \in Snapshots : s.state = "whole"
  BY DEF Snapshots
<1>3. Idle \in CallType
  BY BoundsAssumption DEF Idle, CallType, Step
<1>4. QED
  BY <1>1, <1>2, <1>3

LEMMA InitInv == Init => IInv
<1> SUFFICES ASSUME Init
             PROVE  IInv
  OBVIOUS
<1>1. call \in [Call -> CallType]
  BY Kinds DEF Init
<1>2. \A c \in Call : call[c].pc = "idle"
  BY DEF Init, Idle
<1>3. flush \in [pc: {"idle", "write", "rename"}, snap: Snapshots \cup {NoFile}]
  BY DEF Init
<1>4. TypeOK
  BY <1>1, <1>3, BoundsAssumption DEF Init, TypeOK, CallType
<1>5. Control
  BY <1>2 DEF Init, Control, At
<1>6. Writing
  BY Kinds DEF Init, Writing
<1>7. QED
  BY <1>4, <1>5, <1>6 DEF IInv

\* Steps that leave the calls where they are and the file alone.
LEMMA StartUpInv == IInv /\ StartUp => IInv'
<1> SUFFICES ASSUME IInv, StartUp
             PROVE  IInv'
  OBVIOUS
<1> USE DEF StartUp, stdioVars, registryVars, counterVars
<1>1. boot \in 0..Attempts /\ boot # 0 /\ session \in Agent \cup {Nobody}
  BY DEF IInv, TypeOK
<1>2. boot' \in 0..Attempts /\ session' \in Agent \cup {Nobody}
  BY <1>1, BoundsAssumption
<1>3. TypeOK'
  BY <1>2 DEF IInv, TypeOK, Snapshots
<1>4. mode = "stdio" /\ session = Nobody /\ \A c \in Call : At(c, "idle")
  BY <1>1 DEF IInv, Control
<1>5. boot' # 0 => session' = Nobody
  BY <1>1, <1>4
<1>6. Control'
  BY <1>4, <1>5 DEF Control, At
<1>7. Writing'
  BY DEF IInv, Writing
<1>8. QED
  BY <1>3, <1>6, <1>7 DEF IInv

\* A step of one call, which leaves the others, the file and the start alone.
Moves(c, record) ==
  /\ boot = 0 /\ boot' = boot /\ mode' = mode /\ crashes' = crashes
  /\ flush' = flush /\ tmp' = tmp /\ file' = file
  /\ call' = [call EXCEPT ![c] = record]

\* What it may do to the session and the lock, to the registry and to the counter.
Identifies(c) ==
  /\ session' \in Agent \cup {Nobody} /\ authMu' \in Call \cup {NoCall}
  /\ session # Nobody => session' = session
  /\ session' # session => authMu = c
  /\ authMu' # authMu => authMu \in {c, NoCall}

Registers ==
  /\ clients' \in 0..MaxClients
  /\ registry' \in [Agent -> 0..clients']

Counts == byAgent' \in [Agent -> 0..MaxReads] /\ byTool' \in Nat

\* Where it may put the call.
Placed(c, record) ==
  /\ record.pc \in {"check", "lock", "recheck", "login", "refused"} => mode = "stdio"
  /\ record.pc \in {"lookup", "store"} => mode = "sse" /\ record.agent \in Agent
  /\ record.pc \in {"recheck", "login"} => authMu' = c
  /\ record.pc = "login" => session' = Nobody
  /\ record.pc = "run" => IF mode = "stdio" THEN session' \in Agent ELSE record.agent \in Agent

LEMMA CallInv ==
  ASSUME IInv, NEW c \in Call, NEW record \in CallType,
         Moves(c, record), Identifies(c), Registers, Counts, Placed(c, record)
  PROVE  IInv'
<1> USE DEF Moves, Identifies, Registers, Counts, Placed
<1>1. call' \in [Call -> CallType]
  BY DEF IInv, TypeOK, CallType
<1>2. TypeOK'
  BY <1>1 DEF IInv, TypeOK, CallType, Snapshots
<1>3. ASSUME NEW d \in Call
      PROVE  /\ call'[d].pc \in {"check", "lock", "recheck", "login", "refused"} => mode' = "stdio"
             /\ call'[d].pc \in {"lookup", "store"} => mode' = "sse" /\ call'[d].agent \in Agent
             /\ call'[d].pc \in {"recheck", "login"} => authMu' = d
             /\ call'[d].pc = "login" => session' = Nobody
             /\ call'[d].pc = "run" =>
                  IF mode' = "stdio" THEN session' \in Agent ELSE call'[d].agent \in Agent
  <2>1. CASE d = c
    <3>1. call'[d] = record
      BY <2>1 DEF IInv, TypeOK
    <3>2. QED
      BY <2>1, <3>1
  <2>2. CASE d # c
    <3>1. call'[d] = call[d]
      BY <2>2 DEF IInv, TypeOK
    <3>2. /\ call[d].pc \in {"check", "lock", "recheck", "login", "refused"} => mode = "stdio"
          /\ call[d].pc \in {"lookup", "store"} => mode = "sse" /\ call[d].agent \in Agent
          /\ call[d].pc \in {"recheck", "login"} => authMu = d
          /\ call[d].pc = "login" => session = Nobody
          /\ call[d].pc = "run" =>
               IF mode = "stdio" THEN session \in Agent ELSE call[d].agent \in Agent
      BY DEF IInv, Control, At
    <3>3. call[d].pc \in {"recheck", "login"} => authMu' = d
      BY <2>2, <3>2, NamesAssumption
    <3>4. call[d].pc = "login" => session' = Nobody
      BY <2>2, <3>2
    <3>5. call[d].pc = "run" =>
            IF mode = "stdio" THEN session' \in Agent ELSE call[d].agent \in Agent
      BY <3>2, NamesAssumption
    <3>6. QED
      BY <3>1, <3>2, <3>3, <3>4, <3>5
  <2>3. QED
    BY <2>1, <2>2
<1>4. Control'
  BY <1>3 DEF Control, At
<1>5. Writing'
  BY DEF IInv, Writing
<1>6. QED
  BY <1>2, <1>4, <1>5 DEF IInv

LEMMA CallFields ==
  ASSUME IInv, NEW c \in Call, NEW pc \in Step, Go(c, pc)
  PROVE  \E record \in CallType :
           /\ record.pc = pc /\ record.agent = call[c].agent
           /\ call' = [call EXCEPT ![c] = record]
<1> DEFINE record == [call[c] EXCEPT !.pc = pc]
<1>1. call[c] \in CallType
  BY DEF IInv, TypeOK, CallType
<1>2. record \in CallType /\ record.pc = pc /\ record.agent = call[c].agent
  BY <1>1 DEF CallType
<1>3. call' = [call EXCEPT ![c] = record]
  BY DEF Go
<1>4. QED
  BY <1>2, <1>3

LEMMA Quiet ==
  ASSUME IInv, NEW c \in Call
  PROVE  /\ UNCHANGED stdioVars => Identifies(c)
         /\ UNCHANGED registryVars => Registers
         /\ UNCHANGED <<byAgent, byTool>> => Counts
         /\ call[c].pc # "idle" => boot = 0
<1>1. /\ session \in Agent \cup {Nobody} /\ authMu \in Call \cup {NoCall}
      /\ clients \in 0..MaxClients /\ registry \in [Agent -> 0..clients]
      /\ byAgent \in [Agent -> 0..MaxReads] /\ byTool \in Nat
  BY DEF IInv, TypeOK
<1>2. UNCHANGED stdioVars => Identifies(c)
  BY <1>1 DEF Identifies, stdioVars
<1>3. UNCHANGED registryVars => Registers
  BY <1>1 DEF Registers, registryVars
<1>4. UNCHANGED <<byAgent, byTool>> => Counts
  BY <1>1 DEF Counts
<1>5. call[c].pc # "idle" => boot = 0
  BY DEF IInv, Control, At
<1>6. QED
  BY <1>2, <1>3, <1>4, <1>5

\* The steps of a call, each as a change of one record.
LEMMA ArriveInv ==
  ASSUME IInv, NEW c \in Call, Arrive(c)
  PROVE  IInv'
<1>1. Identifies(c) /\ Registers /\ Counts
  BY Quiet DEF Arrive, stdioVars, registryVars, counterVars
<1>2. \E record \in CallType :
        /\ call' = [call EXCEPT ![c] = record]
        /\ \/ record.pc = "check" /\ mode = "stdio"
           \/ record.pc = "lookup" /\ mode = "sse" /\ record.agent \in Agent
  <2>1. CASE mode = "stdio"
    <3>1. [Idle EXCEPT !.pc = "check"] \in CallType /\ [Idle EXCEPT !.pc = "check"].pc = "check"
      BY Kinds DEF CallType, Step
    <3>2. QED
      BY <2>1, <3>1 DEF Arrive
  <2>2. CASE mode # "stdio"
    <3>1. mode = "sse"
      BY <2>2 DEF IInv, TypeOK
    <3>2. PICK a \in Agent :
            call' = [call EXCEPT ![c] =
              [pc |-> "lookup", agent |-> a, client |-> 0,
               late |-> /\ registry[a] # 0
                        /\ \A d \in Call : call[d].agent = a => ~At(d, "store")]]
      BY <2>2 DEF Arrive
    <3>3. ASSUME NEW late \in BOOLEAN
          PROVE  [pc |-> "lookup", agent |-> a, client |-> 0, late |-> late] \in CallType
      BY BoundsAssumption DEF CallType, Step
    <3>4. QED
      BY <3>1, <3>2, <3>3
  <2>3. QED
    BY <2>1, <2>2
<1>3. PICK record \in CallType :
        /\ call' = [call EXCEPT ![c] = record]
        /\ \/ record.pc = "check" /\ mode = "stdio"
           \/ record.pc = "lookup" /\ mode = "sse" /\ record.agent \in Agent
  BY <1>2
<1>4. Moves(c, record)
  BY <1>3 DEF Arrive, Moves, counterVars
<1>5. Placed(c, record)
  BY <1>3 DEF Placed
<1>6. QED
  BY <1>1, <1>4, <1>5, CallInv

LEMMA LoginInv ==
  ASSUME IInv, NEW c \in Call,
         Check(c) \/ Lock(c) \/ Recheck(c) \/ LogIn(c) \/ LogInFails(c)
  PROVE  IInv'
<1> USE DEF At, stdioVars, registryVars, counterVars
<1>1. Registers /\ Counts
  BY Quiet DEF Check, Lock, Recheck, LogIn, LogInFails
<1>2. /\ mode = "stdio" /\ boot = 0
      /\ Recheck(c) \/ LogIn(c) \/ LogInFails(c) => authMu = c
      /\ LogIn(c) => session = Nobody
  BY Quiet DEF Check, Lock, Recheck, LogIn, LogInFails, IInv, Control
<1>3. session \in Agent \cup {Nobody} /\ authMu \in Call \cup {NoCall}
  BY DEF IInv, TypeOK
<1>4. Identifies(c)
  BY <1>2, <1>3, NamesAssumption DEF Identifies, Check, Lock, Recheck, LogIn, LogInFails
<1>5. \E pc \in Step :
        /\ Go(c, pc) /\ pc \notin {"lookup", "store"}
        /\ pc \in {"recheck", "login"} => authMu' = c
        /\ pc = "login" => session' = Nobody
        /\ pc = "run" => session' \in Agent
  <2>1. {"lock", "recheck", "login", "run", "refused"} \subseteq Step
    BY DEF Step
  <2>2. CASE Check(c)
    BY <1>3, <2>1, <2>2 DEF Check
  <2>3. CASE Lock(c)
    BY <2>1, <2>3 DEF Lock
  <2>4. CASE Recheck(c)
    BY <1>2, <1>3, <2>1, <2>4 DEF Recheck
  <2>5. CASE LogIn(c)
    BY <2>1, <2>5 DEF LogIn
  <2>6. CASE LogInFails(c)
    BY <2>1, <2>6 DEF LogInFails
  <2>7. QED
    BY <2>2, <2>3, <2>4, <2>5, <2>6
<1>6. PICK pc \in Step :
        /\ Go(c, pc) /\ pc \notin {"lookup", "store"}
        /\ pc \in {"recheck", "login"} => authMu' = c
        /\ pc = "login" => session' = Nobody
        /\ pc = "run" => session' \in Agent
  BY <1>5
<1>7. PICK record \in CallType :
        /\ record.pc = pc /\ record.agent = call[c].agent
        /\ call' = [call EXCEPT ![c] = record]
  BY <1>6, CallFields
<1>8. Moves(c, record)
  BY <1>2, <1>7 DEF Moves, Check, Lock, Recheck, LogIn, LogInFails
<1>9. Placed(c, record)
  BY <1>2, <1>6, <1>7 DEF Placed
<1>10. QED
  BY <1>1, <1>4, <1>8, <1>9, CallInv

LEMMA RegistryInv ==
  ASSUME IInv, NEW c \in Call, LookUp(c) \/ Store(c)
  PROVE  IInv'
<1> USE DEF At, stdioVars, registryVars, counterVars
<1>1. Identifies(c) /\ Counts
  BY Quiet DEF LookUp, Store
<1>2. mode = "sse" /\ call[c].agent \in Agent /\ boot = 0
  BY Quiet DEF LookUp, Store, IInv, Control
<1>3. clients \in 0..MaxClients /\ registry \in [Agent -> 0..clients]
  BY DEF IInv, TypeOK
<1>4. clients' \in 0..MaxClients /\ clients <= clients'
  BY <1>3, BoundsAssumption DEF LookUp, Store
<1>5. registry' \in [Agent -> 0..clients']
  <2>1. \A a \in Agent : registry[a] \in 0..clients'
    BY <1>3, <1>4, BoundsAssumption
  <2>2. clients' \in 0..clients'
    BY <1>4, BoundsAssumption
  <2>3. registry' = registry \/ registry' = [registry EXCEPT ![call[c].agent] = clients']
    BY DEF LookUp, Store
  <2>4. DOMAIN registry = Agent /\ registry = [a \in Agent |-> registry[a]]
    BY <1>3
  <2>5. QED
    BY <2>1, <2>2, <2>3, <2>4
<1>6. Registers
  BY <1>4, <1>5 DEF Registers
<1>7. \E pc \in {"run", "store"}, client \in 0..MaxClients :
        call' = [call EXCEPT ![c].pc = pc, ![c].client = client]
  <2>1. registry[call[c].agent] \in 0..MaxClients /\ 0 \in 0..MaxClients
    BY <1>2, <1>3, BoundsAssumption
  <2>2. CASE LookUp(c)
    <3>1. CASE Registered(call[c].agent)
      BY <2>1, <2>2, <3>1 DEF LookUp
    <3>2. CASE ~Registered(call[c].agent)
      BY <2>1, <2>2, <3>2 DEF LookUp
    <3>3. QED
      BY <3>1, <3>2
  <2>3. CASE Store(c)
    BY <1>4, <2>3 DEF Store
  <2>4. QED
    BY <2>2, <2>3
<1>8. PICK pc \in {"run", "store"}, client \in 0..MaxClients :
        call' = [call EXCEPT ![c].pc = pc, ![c].client = client]
  BY <1>7
<1> DEFINE record == [call[c] EXCEPT !.pc = pc, !.client = client]
<1>9. record \in CallType /\ record.pc \in {"run", "store"} /\ record.agent \in Agent
  <2>1. call[c] \in CallType
    BY DEF IInv, TypeOK, CallType
  <2>2. QED
    BY <1>2, <2>1 DEF CallType, Step
<1>10. call' = [call EXCEPT ![c] = record]
  BY <1>8
<1> HIDE DEF record
<1>11. Moves(c, record)
  BY <1>2, <1>10 DEF Moves, LookUp, Store
<1>12. Placed(c, record)
  BY <1>2, <1>9 DEF Placed
<1>13. QED
  BY <1>1, <1>6, <1>9, <1>11, <1>12, CallInv

LEMMA EndInv ==
  ASSUME IInv, NEW c \in Call, CountRead(c) \/ Finish(c)
  PROVE  IInv'
<1> USE DEF At, stdioVars, registryVars, counterVars
<1>1. Identifies(c) /\ Registers /\ boot = 0
  BY Quiet DEF CountRead, Finish
<1>2. Caller(c) \in Agent
  BY DEF CountRead, Finish, Caller, IInv, Control
<1>3. byAgent \in [Agent -> 0..MaxReads] /\ byTool \in Nat
  BY DEF IInv, TypeOK
<1>4. Counts
  <2>1. CASE CountRead(c)
    <3>1. byAgent[Caller(c)] + 1 \in 0..MaxReads
      BY <1>2, <1>3, <2>1, BoundsAssumption DEF CountRead
    <3>2. byAgent' = [byAgent EXCEPT ![Caller(c)] = byAgent[Caller(c)] + 1] /\ byTool' = byTool + 1
      BY <2>1 DEF CountRead
    <3>3. byAgent' \in [Agent -> 0..MaxReads]
      BY <1>2, <1>3, <3>1, <3>2
    <3>4. QED
      BY <1>3, <3>2, <3>3 DEF Counts
  <2>2. CASE Finish(c)
    BY Quiet, <2>2 DEF Finish
  <2>3. QED
    BY <2>1, <2>2
<1>5. Moves(c, Idle)
  BY <1>1 DEF Moves, CountRead, Finish
<1>6. Placed(c, Idle)
  BY DEF Placed, Idle
<1>7. QED
  BY <1>1, <1>4, <1>5, <1>6, Kinds, CallInv

LEMMA CallStepInv ==
  ASSUME IInv, NEW c \in Call, Arrive(c) \/ Lock(c) \/ CallStep(c)
  PROVE  IInv'
BY ArriveInv, LoginInv, RegistryInv, EndInv DEF CallStep

\* The counter file, and the end of the process.
LEMMA FileInv == IInv /\ (Flush \/ WriteTmp \/ Rename) => IInv'
<1> SUFFICES ASSUME IInv, Flush \/ WriteTmp \/ Rename
             PROVE  IInv'
  OBVIOUS
<1> USE DEF stdioVars, registryVars
<1>1. /\ byAgent \in [Agent -> Nat] /\ byTool \in Nat /\ crashes \in Nat
      /\ flush.pc # "idle" => flush.snap \in Snapshots
      /\ flush.pc = "rename" => tmp = flush.snap
      /\ flush \in [pc: {"idle", "write", "rename"}, snap: Snapshots \cup {NoFile}]
      /\ tmp \in Snapshots \cup {NoFile, Torn}
      /\ file \in Snapshots \cup {NoFile, Torn} /\ file # Torn
  BY BoundsAssumption DEF IInv, TypeOK, Writing
<1>2. Snapshot \in Snapshots
  BY <1>1 DEF Snapshot, Snapshots
<1>3. /\ flush' \in [pc: {"idle", "write", "rename"}, snap: Snapshots \cup {NoFile}]
      /\ tmp' \in Snapshots \cup {NoFile, Torn}
      /\ file' \in Snapshots \cup {NoFile, Torn} /\ file' # Torn
      /\ flush'.pc # "idle" => flush'.snap \in Snapshots
      /\ flush'.pc = "rename" => tmp' = flush'.snap
  <2>1. CASE Flush
    BY <1>1, <1>2, <2>1 DEF Flush
  <2>2. CASE WriteTmp
    BY <1>1, <2>2 DEF WriteTmp
  <2>3. CASE Rename
    BY <1>1, <2>3, Kinds DEF Rename
  <2>4. QED
    BY <2>1, <2>2, <2>3
<1>4. UNCHANGED <<mode, boot, session, authMu, registry, clients, byAgent, byTool, call, crashes>>
  BY DEF Flush, WriteTmp, Rename
<1>5. TypeOK'
  BY <1>3, <1>4 DEF IInv, TypeOK, Snapshots
<1>6. Control'
  BY <1>4 DEF IInv, Control, At
<1>7. Writing'
  BY <1>3 DEF Writing, Snapshots
<1>8. QED
  BY <1>5, <1>6, <1>7 DEF IInv

LEMMA CrashInv == IInv /\ Crash => IInv'
<1> SUFFICES ASSUME IInv, Crash
             PROVE  IInv'
  OBVIOUS
<1>1. call' \in [Call -> CallType] /\ \A c \in Call : call'[c].pc = "idle"
  BY Kinds DEF Crash, Idle
<1>2. /\ registry' \in [Agent -> 0..clients'] /\ clients' \in 0..MaxClients
      /\ byAgent' \in [Agent -> 0..MaxReads] /\ byTool' \in Nat
      /\ boot' \in 0..Attempts /\ (boot' # 0 => mode' = "stdio")
  BY BoundsAssumption DEF Crash, IInv, TypeOK
<1>3. /\ flush' \in [pc: {"idle", "write", "rename"}, snap: Snapshots \cup {NoFile}]
      /\ flush'.pc = "idle"
  BY DEF Crash
<1>4. crashes' \in 0..MaxCrashes
  BY BoundsAssumption DEF Crash, IInv, TypeOK
<1>5. mode' \in {"stdio", "sse"} /\ tmp' = tmp /\ file' = file
      /\ session' = Nobody /\ authMu' = NoCall
  BY DEF Crash, IInv, TypeOK
<1>6. TypeOK'
  BY <1>1, <1>2, <1>3, <1>4, <1>5 DEF IInv, TypeOK, CallType, Snapshots
<1>7. Control'
  BY <1>1, <1>2, <1>5 DEF Control, At
<1>8. Writing'
  BY <1>3, <1>5 DEF IInv, Writing
<1>9. QED
  BY <1>6, <1>7, <1>8 DEF IInv

LEMMA StutterInv == IInv /\ UNCHANGED vars => IInv'
BY DEF IInv, TypeOK, Control, Writing, At, Snapshots, vars, stdioVars, registryVars, counterVars

LEMMA Invariant == Spec => []IInv
<1>1. IInv /\ [Next]_vars => IInv'
  BY StartUpInv, CallStepInv, FileInv, CrashInv, StutterInv DEF Next
<1>2. QED
  BY <1>1, InitInv, PTL DEF Spec

\* Every variable keeps the shape the code gives it (server.go, main.go,
\* read_counter.go).
THEOREM TypeCorrect == Spec => []TypeOK
<1>1. IInv => TypeOK
  BY DEF IInv
<1>2. QED
  BY <1>1, Invariant, PTL

-----------------------------------------------------------------------------
(* A late login implements OneIdentity.                                    *)

\* A step of one call leaves the others where they are, and logs in at most.
LEMMA Alone ==
  ASSUME IInv, NEW c \in Call, Arrive(c) \/ Lock(c) \/ CallStep(c)
  PROVE  /\ mode' = mode /\ crashes' = crashes /\ boot' = boot
         /\ \A d \in Call : d # c => call'[d] = call[d]
         /\ session' = session \/ LogIn(c)
<1> USE DEF stdioVars, registryVars, counterVars, Go
<1>1. call \in [Call -> CallType]
  BY DEF IInv, TypeOK, CallType
<1>2. mode' = mode /\ crashes' = crashes /\ boot' = boot /\ (session' = session \/ LogIn(c))
  BY DEF Arrive, Lock, CallStep, Check, Recheck, LogInFails, LookUp, Store, CountRead, Finish, LogIn
<1>3. \A d \in Call : d # c => call'[d] = call[d]
  BY <1>1 DEF Arrive, Lock, CallStep, Check, Recheck, LogIn, LogInFails, LookUp, Store,
       CountRead, Finish
<1>4. QED
  BY <1>2, <1>3

LEMMA CallImplements ==
  ASSUME IInv, IInv', NEW c \in Call, Arrive(c) \/ Lock(c) \/ CallStep(c)
  PROVE  Identity!Next
<1>1. /\ mode' = mode /\ crashes' = crashes
      /\ \A d \in Call : d # c => call'[d] = call[d]
      /\ session' = session \/ LogIn(c)
  BY Alone
<1>2. CASE mode = "stdio" /\ call'[c].pc = "run"
  <2>1. Serving' = Serving \cup {c}
    BY <1>1, <1>2 DEF Serving, At
  <2>2. session' \in Agent
    BY <1>1, <1>2 DEF IInv, Control, At
  <2>3. CASE session' = session
    BY <1>1, <2>1, <2>2, <2>3, NamesAssumption DEF Identity!Next, Identity!Serve
  <2>4. CASE LogIn(c)
    <3>1. session = Nobody
      BY <2>4 DEF LogIn, IInv, Control
    <3>2. QED
      BY <1>1, <2>1, <2>2, <3>1 DEF Identity!Next, Identity!LogIn
  <2>5. QED
    BY <1>1, <2>3, <2>4
<1>3. CASE ~(mode = "stdio" /\ call'[c].pc = "run")
  <2>1. Serving' = Serving \ {c}
    BY <1>1, <1>3 DEF Serving, At
  <2>2. ~LogIn(c)
    <3>1. SUFFICES ASSUME LogIn(c)
                   PROVE  FALSE
      OBVIOUS
    <3>2. mode = "stdio"
      BY <3>1 DEF LogIn, IInv, Control, At
    <3>3. call'[c].pc = "run"
      BY <3>1 DEF LogIn, Go, IInv, TypeOK
    <3>4. QED
      BY <1>3, <3>2, <3>3
  <2>3. QED
    BY <1>1, <2>1, <2>2 DEF Identity!Next, Identity!End
<1>4. QED
  BY <1>2, <1>3

\* Whatever logins fail, and however calls overlap, a stdio process turns
\* calls away until it has an identity, and from then on serves them as that
\* one (deferredAuthMiddleware and the start of main).
THEOREM ActsAsOneHolds == Spec => ActsAsOne
<1>1. Init => Identity!Init
  <2>1. SUFFICES ASSUME Init
                 PROVE  Identity!Init
    OBVIOUS
  <2>2. \A c \in Call : call[c].pc = "idle"
    BY <2>1 DEF Init, Idle
  <2>3. Serving = {}
    BY <2>2 DEF Serving, At
  <2>4. QED
    BY <2>1, <2>3 DEF Init, Identity!Init
<1>2. ASSUME IInv, IInv', [Next]_vars
      PROVE  [Identity!Next]_(Identity!vars)
  <2>1. CASE StartUp
    <3>1. Serving' = Serving /\ crashes' = crashes
      BY <2>1 DEF StartUp, Serving, At
    <3>2. session = Nobody
      BY <1>2, <2>1 DEF StartUp, IInv, Control
    <3>3. session' \in Agent \/ session' = session
      BY <2>1 DEF StartUp
    <3>4. QED
      BY <3>1, <3>2, <3>3 DEF Identity!Next, Identity!LogIn, Identity!vars
  <2>2. CASE Flush \/ WriteTmp \/ Rename \/ UNCHANGED vars
    <3>1. UNCHANGED <<mode, call, session, crashes>>
      BY <2>2 DEF Flush, WriteTmp, Rename, vars, stdioVars
    <3>2. Serving' = Serving
      BY <3>1 DEF Serving, At
    <3>3. QED
      BY <3>1, <3>2 DEF Identity!vars
  <2>3. CASE Crash
    <3>1. call' = [c \in Call |-> Idle] /\ Idle.pc = "idle"
      BY <2>3 DEF Crash, Idle
    <3>2. Serving' = {}
      BY <3>1 DEF Serving, At
    <3>3. QED
      BY <2>3, <3>2 DEF Crash, Identity!Next, Identity!Replace
  <2>4. ASSUME NEW c \in Call, Arrive(c) \/ Lock(c) \/ CallStep(c)
        PROVE  Identity!Next
    BY <1>2, <2>4, CallImplements
  <2>5. QED
    BY <1>2, <2>1, <2>2, <2>3, <2>4 DEF Next
<1>3. QED
  BY <1>1, <1>2, Invariant, PTL DEF Spec, ActsAsOne, Identity!Spec

\* No request of a stdio process is ever made without an identity.
THEOREM ServedAsSomebodyHolds == Spec => []Identity!ServedAsSomebody
<1>1. IInv => Identity!ServedAsSomebody
  BY NamesAssumption DEF IInv, Control, Serving, Identity!ServedAsSomebody
<1>2. QED
  BY <1>1, Invariant, PTL

-----------------------------------------------------------------------------
(* The split of an agent's clients ends.                                   *)

\* A late call finds a client, and nobody is about to replace it.
Settled(c) ==
  call[c].late =>
    /\ call[c].pc \in {"lookup", "run"} /\ call[c].agent \in Agent
    /\ registry[call[c].agent] # 0
    /\ \A d \in Call : call[d].agent = call[c].agent => ~At(d, "store")
    /\ At(c, "run") => call[c].client = registry[call[c].agent]

AllSettled == \A c \in Call : Settled(c)

LEMMA SettledStep ==
  ASSUME IInv, AllSettled, NEW c \in Call, Arrive(c) \/ Lock(c) \/ CallStep(c),
         NEW e \in Call
  PROVE  Settled(e)'
<1> USE DEF At, Go, stdioVars, registryVars, counterVars
<1>1. \A d \in Call : d # c => call'[d] = call[d]
  BY Alone
<1>2. /\ call \in [Call -> CallType]
      /\ registry \in [Agent -> 0..clients] /\ clients \in 0..MaxClients
  BY DEF IInv, TypeOK, CallType
<1>3. Idle.late = FALSE /\ Idle.pc = "idle"
  BY DEF Idle
<1>4. \A d \in Call : Settled(d)
  BY DEF AllSettled
<1>5. CASE Arrive(c) /\ mode = "stdio"
  <2>1. call'[c].late = FALSE /\ call'[c].pc = "check" /\ registry' = registry
    BY <1>2, <1>3, <1>5 DEF Arrive, Idle
  <2>2. QED
    BY <1>1, <1>4, <2>1 DEF Settled
<1>6. CASE Arrive(c) /\ mode # "stdio"
  <2>1. PICK a \in Agent :
          call' = [call EXCEPT ![c] =
            [pc |-> "lookup", agent |-> a, client |-> 0,
             late |-> /\ registry[a] # 0
                      /\ \A d \in Call : call[d].agent = a => ~At(d, "store")]]
    BY <1>6 DEF Arrive
  <2>2. /\ call'[c].pc = "lookup" /\ call'[c].agent = a /\ registry' = registry
        /\ call'[c].late => /\ registry[a] # 0
                            /\ \A d \in Call : call[d].agent = a => call[d].pc # "store"
    BY <1>2, <1>6, <2>1 DEF Arrive
  <2>3. CASE e = c
    BY <1>1, <2>2, <2>3 DEF Settled
  <2>4. CASE e # c
    BY <1>1, <1>4, <2>2, <2>4 DEF Settled
  <2>5. QED
    BY <2>3, <2>4
<1>7. CASE Check(c) \/ Lock(c) \/ Recheck(c) \/ LogIn(c) \/ LogInFails(c)
  <2>1. call[c].pc \in {"check", "lock", "recheck", "login"} /\ registry' = registry
    BY <1>7 DEF Check, Lock, Recheck, LogIn, LogInFails
  <2>2. ~call[c].late
    BY <1>4, <2>1 DEF Settled
  <2>3. /\ call'[c].late = call[c].late /\ call'[c].agent = call[c].agent
        /\ call'[c].pc # "store"
    BY <1>2, <1>7 DEF Check, Lock, Recheck, LogIn, LogInFails, CallType
  <2>4. CASE e = c
    BY <2>2, <2>3, <2>4 DEF Settled
  <2>5. CASE e # c
    BY <1>1, <1>4, <2>1, <2>3, <2>5 DEF Settled
  <2>6. QED
    BY <2>4, <2>5
<1>8. CASE LookUp(c)
  <2> DEFINE a == call[c].agent
  <2>1. /\ registry' = registry /\ call'[c].agent = a /\ call'[c].late = call[c].late
        /\ call'[c].pc = IF registry[a] # 0 THEN "run" ELSE "store"
        /\ registry[a] # 0 => call'[c].client = registry[a]
    BY <1>2, <1>8 DEF LookUp, Registered, CallType
  <2>2. ASSUME call[c].late
        PROVE  /\ a \in Agent /\ registry[a] # 0
               /\ \A d \in Call : call[d].agent = a => call[d].pc # "store"
    BY <1>4, <2>2 DEF Settled
  <2>3. CASE e = c /\ call[c].late
    <3>1. /\ call'[c].pc = "run" /\ call'[c].client = registry'[a]
          /\ a \in Agent /\ registry'[a] # 0
      BY <2>1, <2>2, <2>3
    <3>2. \A d \in Call : call'[d].agent = a => call'[d].pc # "store"
      BY <1>1, <2>2, <2>3, <3>1
    <3>3. QED
      BY <2>1, <2>3, <3>1, <3>2 DEF Settled
  <2>4. CASE e = c /\ ~call[c].late
    BY <2>1, <2>4 DEF Settled
  <2>5. CASE e # c
    BY <1>1, <1>4, <2>1, <2>5 DEF Settled
  <2>6. QED
    BY <2>3, <2>4, <2>5
<1>9. CASE Store(c)
  <2>1. call[c].pc = "store" /\ call'[c].pc = "run"
        /\ call'[c].agent = call[c].agent /\ call'[c].late = call[c].late
    BY <1>2, <1>9 DEF Store, CallType
  <2>2. ~call[c].late
    BY <1>4, <2>1 DEF Settled
  <2>3. \A b \in Agent : b # call[c].agent => registry'[b] = registry[b]
    BY <1>2, <1>9 DEF Store
  <2>4. CASE e = c
    BY <2>1, <2>2, <2>4 DEF Settled
  <2>5. CASE e # c
    <3>1. Settled(e) /\ call'[e] = call[e]
      BY <1>1, <1>4, <2>5
    <3>2. call[e].late => call[e].agent # call[c].agent
      BY <2>1, <3>1 DEF Settled
    <3>3. QED
      BY <1>1, <2>1, <2>3, <3>1, <3>2 DEF Settled
  <2>6. QED
    BY <2>4, <2>5
<1>10. CASE CountRead(c) \/ Finish(c)
  <2>1. call'[c] = Idle /\ registry' = registry
    BY <1>2, <1>10 DEF CountRead, Finish
  <2>2. QED
    BY <1>1, <1>3, <1>4, <2>1 DEF Settled
<1>11. QED
  BY <1>5, <1>6, <1>7, <1>8, <1>9, <1>10 DEF CallStep

\* However misses of the registry overlap, a call that came after they were
\* settled uses the registered client, and with it its retry slots
\* (serverRegistry.GetClient).
THEOREM LateCallsShareHolds == Spec => []LateCallsShare
<1>1. Init => AllSettled
  <2>1. Idle.late = FALSE
    BY DEF Idle
  <2>2. QED
    BY <2>1 DEF Init, AllSettled, Settled
<1>2. ASSUME IInv, AllSettled, [Next]_vars
      PROVE  AllSettled'
  <2>1. CASE UNCHANGED <<call, registry>>
    BY <1>2, <2>1 DEF AllSettled, Settled, At
  <2>2. CASE StartUp \/ Flush \/ WriteTmp \/ Rename \/ UNCHANGED vars
    BY <2>1, <2>2 DEF StartUp, Flush, WriteTmp, Rename, vars, registryVars
  <2>3. CASE Crash
    <3>1. call' = [c \in Call |-> Idle] /\ Idle.late = FALSE
      BY <2>3 DEF Crash, Idle
    <3>2. QED
      BY <3>1 DEF AllSettled, Settled
  <2>4. CASE \E c \in Call : Arrive(c) \/ Lock(c) \/ CallStep(c)
    BY <1>2, <2>4, SettledStep DEF AllSettled
  <2>5. QED
    BY <1>2, <2>2, <2>3, <2>4 DEF Next
<1>3. AllSettled => LateCallsShare
  BY DEF AllSettled, Settled, LateCallsShare
<1>4. QED
  BY <1>1, <1>2, <1>3, Invariant, PTL DEF Spec

-----------------------------------------------------------------------------
(* The counter file.                                                       *)

\* A snapshot is of a process not later than this one, and of its past.
Past(s) ==
  /\ s.of <= crashes
  /\ s.of = crashes => \A a \in Agent : s.byAgent[a] <= byAgent[a]

OnlyPast ==
  /\ file # NoFile => Past(file)
  /\ flush.pc # "idle" => Past(flush.snap)

LEMMA PastStep ==
  ASSUME IInv, OnlyPast, [Next]_vars
  PROVE  OnlyPast'
<1> USE DEF stdioVars, registryVars, counterVars
<1>1. /\ byAgent \in [Agent -> Nat] /\ crashes \in Nat
      /\ file # NoFile => file \in Snapshots
      /\ flush.pc # "idle" => flush.snap \in Snapshots
  BY BoundsAssumption DEF IInv, TypeOK, Writing
<1>2. ASSUME NEW s \in Snapshots, Past(s), crashes' = crashes,
             \A a \in Agent : byAgent[a] <= byAgent'[a], byAgent' \in [Agent -> Nat]
      PROVE  Past(s)'
  BY <1>1, <1>2 DEF Past, Snapshots
<1>3. CASE Flush
  <2>1. Past(Snapshot)
    BY <1>1 DEF Past, Snapshot
  <2>2. UNCHANGED <<byAgent, crashes, file>> /\ flush'.snap = Snapshot
    BY <1>3 DEF Flush
  <2>3. QED
    BY <2>1, <2>2 DEF OnlyPast, Past
<1>4. CASE WriteTmp
  <2>1. UNCHANGED <<byAgent, crashes, file>> /\ (flush'.pc # "idle" => flush'.snap = flush.snap)
    BY <1>4 DEF WriteTmp, IInv, TypeOK
  <2>2. flush.pc # "idle"
    BY <1>4 DEF WriteTmp
  <2>3. QED
    BY <2>1, <2>2 DEF OnlyPast, Past
<1>5. CASE Rename
  <2>1. /\ UNCHANGED <<byAgent, crashes>> /\ flush'.pc = "idle"
        /\ file' = flush.snap \/ file' = file
    BY <1>5 DEF Rename, IInv, Writing
  <2>2. flush.pc # "idle"
    BY <1>5 DEF Rename
  <2>3. QED
    BY <2>1, <2>2 DEF OnlyPast, Past
<1>6. CASE Crash
  <2>1. file' = file /\ crashes' = crashes + 1 /\ flush'.pc = "idle"
    BY <1>6 DEF Crash
  <2>2. file # NoFile => file.of \in Nat /\ file.of <= crashes
    BY <1>1 DEF OnlyPast, Past, Snapshots
  <2>3. QED
    BY <1>1, <2>1, <2>2 DEF OnlyPast, Past
<1>7. CASE UNCHANGED <<byAgent, crashes, file, flush>>
  BY <1>7 DEF OnlyPast, Past
<1>8. ASSUME NEW c \in Call, CountRead(c)
      PROVE  OnlyPast'
  <2>1. Caller(c) \in Agent
    BY <1>8 DEF CountRead, Caller, IInv, Control
  <2>2. byAgent' = [byAgent EXCEPT ![Caller(c)] = byAgent[Caller(c)] + 1]
        /\ UNCHANGED <<crashes, file, flush>>
    BY <1>8 DEF CountRead
  <2>3. /\ byAgent' \in [Agent -> Nat]
        /\ \A a \in Agent : byAgent[a] <= byAgent'[a]
    BY <1>1, <2>1, <2>2
  <2>4. QED
    BY <1>1, <1>2, <2>2, <2>3 DEF OnlyPast
<1>9. QED
  BY <1>3, <1>4, <1>5, <1>6, <1>7, <1>8 DEF Next, StartUp, CallStep, Arrive, Lock, Check,
     Recheck, LogIn, LogInFails, LookUp, Store, Finish, vars

\* At whatever instant the process ends, and whatever writes fail, the counter
\* file is never torn, and never counts a read that its process has not counted
\* (ReadCounter.WriteFile).
THEOREM PublishedIsPastHolds == Spec => []PublishedIsPast
<1>1. Init => OnlyPast
  BY DEF Init, OnlyPast
<1>2. IInv /\ OnlyPast => PublishedIsPast
  BY DEF IInv, Writing, OnlyPast, Past, PublishedIsPast
<1>3. QED
  BY <1>1, <1>2, PastStep, Invariant, PTL DEF Spec

-----------------------------------------------------------------------------
(* The totals of the counter file.                                         *)

\* A total that agrees with the agents' counts, which are of finitely many
\* reads: every agent counted so far has been counted read by read.
Agree(counts, total) ==
  IsFiniteSet(ReadsCounted(counts)) /\ total = Cardinality(ReadsCounted(counts))

AllAgree ==
  /\ Agree(byAgent, byTool)
  /\ flush.pc # "idle" => Agree(flush.snap.byAgent, flush.snap.byTool)
  /\ file # NoFile => Agree(file.byAgent, file.byTool)

LEMMA NothingCounted == Agree([a \in Agent |-> 0], 0)
<1>1. ReadsCounted([a \in Agent |-> 0]) = {}
  BY DEF ReadsCounted
<1>2. QED
  BY <1>1, FS_EmptySet DEF Agree

\* Inc: one more read of one agent is one more read.
LEMMA OneMoreCounted ==
  ASSUME NEW counts \in [Agent -> Nat], NEW total \in Nat, Agree(counts, total),
         NEW a \in Agent
  PROVE  Agree([counts EXCEPT ![a] = @ + 1], total + 1)
<1> DEFINE new == <<a, counts[a] + 1>>
           before == ReadsCounted(counts)
           after == ReadsCounted([counts EXCEPT ![a] = @ + 1])
<1>1. counts[a] \in Nat /\ 1 .. counts[a] + 1 = (1 .. counts[a]) \cup {counts[a] + 1}
  OBVIOUS
<1>2. ASSUME NEW b \in Agent
      PROVE  {b} \X (1 .. [counts EXCEPT ![a] = @ + 1][b]) =
               {b} \X (1 .. counts[b]) \cup (IF b = a THEN {new} ELSE {})
  <2>1. CASE b = a
    <3>1. [counts EXCEPT ![a] = @ + 1][b] = counts[a] + 1
      BY <2>1
    <3>2. QED
      BY <1>1, <2>1, <3>1
  <2>2. CASE b # a
    BY <2>2
  <2>3. QED
    BY <2>1, <2>2
<1>3. after = before \cup {new}
  BY <1>2 DEF ReadsCounted
<1>4. new \notin before
  BY <1>1 DEF ReadsCounted
<1>5. IsFiniteSet(after) /\ Cardinality(after) = Cardinality(before) + 1
  <2>1. IsFiniteSet(before)
    BY DEF Agree
  <2> HIDE DEF before, after, new
  <2>2. /\ IsFiniteSet(before \cup {new})
        /\ Cardinality(before \cup {new}) =
             IF new \in before THEN Cardinality(before) ELSE Cardinality(before) + 1
    BY <2>1, FS_AddElement
  <2>3. QED
    BY <1>3, <1>4, <2>2
<1>6. QED
  BY <1>5 DEF Agree

LEMMA AgreeStep ==
  ASSUME IInv, AllAgree, [Next]_vars
  PROVE  AllAgree'
<1> USE DEF stdioVars, registryVars, counterVars
<1>1. byAgent \in [Agent -> Nat] /\ byTool \in Nat
  BY BoundsAssumption DEF IInv, TypeOK
<1>2. CASE Flush
  <2>1. /\ UNCHANGED <<byAgent, byTool, file>>
        /\ flush'.snap.byAgent = byAgent /\ flush'.snap.byTool = byTool
    BY <1>2 DEF Flush, Snapshot
  <2>2. QED
    BY <2>1 DEF AllAgree
<1>3. CASE WriteTmp
  <2>1. /\ UNCHANGED <<byAgent, byTool, file>> /\ flush.pc # "idle"
        /\ flush'.pc # "idle" => flush'.snap = flush.snap
    BY <1>3 DEF WriteTmp, IInv, TypeOK
  <2>2. QED
    BY <2>1 DEF AllAgree
<1>4. CASE Rename
  <2>1. /\ UNCHANGED <<byAgent, byTool>> /\ flush.pc # "idle"
        /\ flush'.pc = "idle" /\ (file' = flush.snap \/ file' = file)
    BY <1>4 DEF Rename, IInv, Writing
  <2>2. QED
    BY <2>1 DEF AllAgree
<1>5. CASE Crash
  <2>1. /\ byAgent' = [a \in Agent |-> 0] /\ byTool' = 0
        /\ file' = file /\ flush'.pc = "idle"
    BY <1>5 DEF Crash
  <2>2. QED
    BY <2>1, NothingCounted DEF AllAgree
<1>6. CASE UNCHANGED <<byAgent, byTool, file, flush>>
  BY <1>6 DEF AllAgree
<1>7. ASSUME NEW c \in Call, CountRead(c)
      PROVE  AllAgree'
  <2>1. Caller(c) \in Agent
    BY <1>7 DEF CountRead, Caller, IInv, Control
  <2>2. /\ byAgent' = [byAgent EXCEPT ![Caller(c)] = @ + 1]
        /\ byTool' = byTool + 1
        /\ UNCHANGED <<file, flush>>
    BY <1>7 DEF CountRead
  <2>3. Agree(byAgent', byTool')
    BY <1>1, <2>1, <2>2, OneMoreCounted DEF AllAgree
  <2>4. QED
    BY <2>2, <2>3 DEF AllAgree
<1>8. QED
  BY <1>2, <1>3, <1>4, <1>5, <1>6, <1>7 DEF Next, StartUp, CallStep, Arrive, Lock, Check,
     Recheck, LogIn, LogInFails, LookUp, Store, Finish, vars

\* Besides, the totals of the published file agree with the agents' counts,
\* although a flush may be overtaken by reads and both end with the process
\* (ReadCounter.Inc, Snapshot, WriteFile).
THEOREM PublishedIsWholeHolds == Spec => []PublishedIsWhole
<1>1. Init => AllAgree
  BY NothingCounted DEF Init, AllAgree
<1>2. AllAgree /\ PublishedIsPast => PublishedIsWhole
  BY DEF AllAgree, Agree, Adds, PublishedIsWhole
<1>3. QED
  BY <1>1, <1>2, AgreeStep, Invariant, PublishedIsPastHolds, PTL DEF Spec

=============================================================================
