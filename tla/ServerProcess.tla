--------------------------- MODULE ServerProcess ---------------------------
(***************************************************************************)
(* What the calls of one server process share.                             *)
(*                                                                         *)
(* In stdio mode, the identity: the process logs in when it starts, with   *)
(* retries (authenticateWithRetry, main.go); when that fails it serves all *)
(* the same, and every call logs in first until one of them succeeds       *)
(* (deferredAuthMiddleware, client_info.go).                               *)
(*                                                                         *)
(* In sse mode, one REST client per agent (serverRegistry, main.go), which *)
(* keeps the retry slots of that agent's calls; and the counter of memory  *)
(* reads (read_counter.go), which one goroutine writes to a file.          *)
(***************************************************************************)
EXTENDS Integers, FiniteSets

CONSTANTS
  Call, Agent, NoCall, Nobody,
  Attempts,    \* authRetryAttempts
  MaxClients,  \* bound: REST clients made by a process
  MaxReads,    \* bound: memory reads of an agent counted by a process
  MaxCrashes   \* bound: how often the process is replaced

ASSUME BoundsAssumption ==
  /\ Attempts \in Nat \ {0} /\ MaxClients \in Nat /\ MaxReads \in Nat /\ MaxCrashes \in Nat
ASSUME NamesAssumption == NoCall \notin Call /\ Nobody \notin Agent

VARIABLES
  mode,       \* "stdio" or "sse"
  boot,       \* the attempt to log in at the start; 0 when the process serves
  session,    \* session, deferredSession: the agent of a stdio process
  authMu,     \* the call that holds the lock of deferred logins, or NoCall
  registry,   \* registry[a]: the client of agent a, 0 when there is none
  clients,    \* how many clients have been made
  byAgent, byTool,  \* the counter, for one tool
  flush,      \* the flush goroutine: "idle", or the snapshot it writes
  tmp, file,  \* the counter file and the temporary one beside it
  call,       \* call[c]: where a tool call is
  crashes

stdioVars   == <<session, authMu>>
registryVars == <<registry, clients>>
counterVars == <<byAgent, byTool, flush, tmp, file>>
vars == <<mode, boot, stdioVars, registryVars, counterVars, call, crashes>>

NoFile == [state |-> "none"]
Torn   == [state |-> "torn"]
Snapshots == [state: {"whole"}, of: Nat, byAgent: [Agent -> Nat], byTool: Nat]
Idle == [pc |-> "idle", agent |-> Nobody, client |-> 0, late |-> FALSE]

Step == {"idle", "check", "lock", "recheck", "login", "lookup", "store", "run", "refused"}

TypeOK ==
  /\ mode \in {"stdio", "sse"} /\ boot \in 0..Attempts
  /\ session \in Agent \cup {Nobody} /\ authMu \in Call \cup {NoCall}
  /\ registry \in [Agent -> 0..clients] /\ clients \in 0..MaxClients
  /\ byAgent \in [Agent -> 0..MaxReads] /\ byTool \in Nat
  /\ flush \in [pc: {"idle", "write", "rename"}, snap: Snapshots \cup {NoFile}]
  /\ tmp \in Snapshots \cup {NoFile, Torn} /\ file \in Snapshots \cup {NoFile, Torn}
  /\ call \in [Call -> [pc: Step, agent: Agent \cup {Nobody}, client: 0..MaxClients, late: BOOLEAN]]
  /\ crashes \in 0..MaxCrashes

Init ==
  /\ mode \in {"stdio", "sse"} /\ boot = IF mode = "stdio" THEN 1 ELSE 0
  /\ session = Nobody /\ authMu = NoCall
  /\ registry = [a \in Agent |-> 0] /\ clients = 0
  /\ byAgent = [a \in Agent |-> 0] /\ byTool = 0
  /\ flush = [pc |-> "idle", snap |-> NoFile]
  /\ tmp = NoFile /\ file = NoFile
  /\ call = [c \in Call |-> Idle]
  /\ crashes = 0

At(c, pc) == call[c].pc = pc
Go(c, pc) == call' = [call EXCEPT ![c].pc = pc]

(***************************************************************************)
(* main, authenticateWithRetry: a 502, 503, 504 or a network error is      *)
(* tried again; a refusal, or the last failure, leaves the process without *)
(* a session, and serving.  (An answer that is no agent ends the process:  *)
(* Crash.)                                                                 *)
(***************************************************************************)
StartUp ==
  /\ boot # 0
  /\ \/ session' \in Agent /\ boot' = 0
     \/ UNCHANGED session /\ boot' = 0
     \/ boot < Attempts /\ boot' = boot + 1 /\ UNCHANGED session
  /\ UNCHANGED <<mode, authMu, registryVars, counterVars, call, crashes>>

\* A tool call: of the agent of its credential in sse mode.
Arrive(c) ==
  /\ boot = 0 /\ call[c].pc \in {"idle", "refused"}
  /\ IF mode = "stdio"
       THEN call' = [call EXCEPT ![c] = [Idle EXCEPT !.pc = "check"]]
       ELSE \E a \in Agent :
              call' = [call EXCEPT ![c] =
                [pc |-> "lookup", agent |-> a, client |-> 0,
                 late |-> /\ registry[a] # 0
                          /\ \A d \in Call : call[d].agent = a => ~At(d, "store")]]
  /\ UNCHANGED <<mode, boot, stdioVars, registryVars, counterVars, crashes>>

-----------------------------------------------------------------------------
(***************************************************************************)
(* deferredAuthMiddleware: the session is looked for without the lock, and *)
(* again under it; one login at a time.                                    *)
(***************************************************************************)
Check(c) ==
  /\ At(c, "check")
  /\ Go(c, IF session # Nobody THEN "run" ELSE "lock")
  /\ UNCHANGED <<mode, boot, stdioVars, registryVars, counterVars, crashes>>

Lock(c) ==
  /\ At(c, "lock") /\ authMu = NoCall
  /\ authMu' = c
  /\ Go(c, "recheck")
  /\ UNCHANGED <<mode, boot, session, registryVars, counterVars, crashes>>

\* Mutant of Recheck: whoever waited for the lock logs in.
RecheckNever(c) ==
  /\ At(c, "recheck")
  /\ Go(c, "login") /\ UNCHANGED authMu
  /\ UNCHANGED <<mode, boot, session, registryVars, counterVars, crashes>>

Recheck(c) ==
  /\ At(c, "recheck")
  /\ IF session # Nobody
       THEN Go(c, "run") /\ authMu' = NoCall
       ELSE Go(c, "login") /\ UNCHANGED authMu
  /\ UNCHANGED <<mode, boot, session, registryVars, counterVars, crashes>>

\* The Mesh API says whose key it is.
LogIn(c) ==
  /\ At(c, "login")
  /\ session' \in Agent
  /\ authMu' = NoCall
  /\ Go(c, "run")
  /\ UNCHANGED <<mode, boot, registryVars, counterVars, crashes>>

\* Mutant of LogInFails: the error is returned with the lock held.
LogInFailsLocked(c) ==
  /\ At(c, "login")
  /\ Go(c, "refused")
  /\ UNCHANGED <<mode, boot, stdioVars, registryVars, counterVars, crashes>>

LogInFails(c) ==
  /\ At(c, "login")
  /\ authMu' = NoCall
  /\ Go(c, "refused")
  /\ UNCHANGED <<mode, boot, session, registryVars, counterVars, crashes>>

-----------------------------------------------------------------------------
\* Mutant of Registered: the registry is not read.
RegisteredNever(a) == FALSE

\* The registry has a client of this agent.
Registered(a) == registry[a] # 0

(***************************************************************************)
(* serverRegistry.GetClient: the client is looked up under the read lock,  *)
(* and a new one is stored under the write lock, over what others may have *)
(* stored in between.                                                      *)
(***************************************************************************)
LookUp(c) ==
  LET a == call[c].agent
  IN /\ At(c, "lookup")
     /\ call' = [call EXCEPT ![c].pc = IF Registered(a) THEN "run" ELSE "store",
                             ![c].client = IF Registered(a) THEN registry[a] ELSE 0]
     /\ UNCHANGED <<mode, boot, stdioVars, registryVars, counterVars, crashes>>

Store(c) ==
  /\ At(c, "store") /\ clients < MaxClients
  /\ clients' = clients + 1
  /\ registry' = [registry EXCEPT ![call[c].agent] = clients']
  /\ call' = [call EXCEPT ![c].pc = "run", ![c].client = clients']
  /\ UNCHANGED <<mode, boot, stdioVars, counterVars, crashes>>

-----------------------------------------------------------------------------
\* The agent a call is counted for: that of its context, or of the process.
Caller(c) == IF mode = "stdio" THEN session ELSE call[c].agent

\* A tool that reads memories and succeeds counts the read (recordMemoryRead, Inc).
CountRead(c) ==
  /\ At(c, "run") /\ byAgent[Caller(c)] < MaxReads
  /\ byAgent' = [byAgent EXCEPT ![Caller(c)] = @ + 1]
  /\ byTool' = byTool + 1
  /\ call' = [call EXCEPT ![c] = Idle]
  /\ UNCHANGED <<mode, boot, stdioVars, registryVars, flush, tmp, file, crashes>>

\* Any other tool, or one that fails.
Finish(c) ==
  /\ At(c, "run")
  /\ call' = [call EXCEPT ![c] = Idle]
  /\ UNCHANGED <<mode, boot, stdioVars, registryVars, counterVars, crashes>>

\* Snapshot: both maps, copied under the lock.
Snapshot == [state |-> "whole", of |-> crashes, byAgent |-> byAgent, byTool |-> byTool]

(***************************************************************************)
(* WriteFile, every five minutes: a snapshot, written to a temporary file, *)
(* which then takes the place of the published one.  A crash may leave a   *)
(* file that was being written in pieces.                                  *)
(***************************************************************************)
Flush ==
  /\ mode = "sse" /\ flush.pc = "idle"
  /\ flush' = [pc |-> "write", snap |-> Snapshot]
  /\ tmp' = Torn
  /\ UNCHANGED <<mode, boot, stdioVars, registryVars, byAgent, byTool, file, call, crashes>>

\* Mutant of WriteTmp: a write that failed is renamed all the same.
WriteTmpUnchecked ==
  /\ flush.pc = "write"
  /\ tmp' \in {flush.snap, tmp} /\ flush' = [flush EXCEPT !.pc = "rename"]
  /\ UNCHANGED <<mode, boot, stdioVars, registryVars, byAgent, byTool, file, call, crashes>>

\* The write ends, or fails and leaves what it has written.
WriteTmp ==
  /\ flush.pc = "write"
  /\ \/ tmp' = flush.snap /\ flush' = [flush EXCEPT !.pc = "rename"]
     \/ UNCHANGED tmp /\ flush' = [pc |-> "idle", snap |-> NoFile]
  /\ UNCHANGED <<mode, boot, stdioVars, registryVars, byAgent, byTool, file, call, crashes>>

\* The rename may fail: both files stay as they are.
Rename ==
  /\ flush.pc = "rename"
  /\ (file' = tmp /\ tmp' = NoFile) \/ UNCHANGED <<tmp, file>>
  /\ flush' = [pc |-> "idle", snap |-> NoFile]
  /\ UNCHANGED <<mode, boot, stdioVars, registryVars, byAgent, byTool, call, crashes>>

\* The process ends at any instant; the files stay, and another one starts.
Crash ==
  /\ crashes < MaxCrashes /\ crashes' = crashes + 1
  /\ boot' = IF mode = "stdio" THEN 1 ELSE 0
  /\ session' = Nobody /\ authMu' = NoCall
  /\ registry' = [a \in Agent |-> 0] /\ clients' = 0
  /\ byAgent' = [a \in Agent |-> 0] /\ byTool' = 0
  /\ flush' = [pc |-> "idle", snap |-> NoFile]
  /\ call' = [c \in Call |-> Idle]
  /\ UNCHANGED <<mode, tmp, file>>

CallStep(c) ==
  Check(c) \/ Recheck(c) \/ LogIn(c) \/ LogInFails(c) \/ LookUp(c) \/ Store(c)
    \/ CountRead(c) \/ Finish(c)

Next ==
  \/ StartUp \/ Flush \/ WriteTmp \/ Rename \/ Crash
  \/ \E c \in Call : Arrive(c) \/ Lock(c) \/ CallStep(c)

\* Requests are answered or time out, and a mutex is handed to those who wait.
Spec ==
  /\ Init /\ [][Next]_vars
  /\ WF_vars(StartUp)
  /\ \A c \in Call : WF_vars(CallStep(c)) /\ SF_vars(Lock(c))

-----------------------------------------------------------------------------
(***************************************************************************)
(* Properties.                                                             *)
(***************************************************************************)
\* A stdio process turns calls away until it has logged in, then makes every
\* call's requests as one agent, and logs in no more: a late login implements
\* the abstract one, however calls overlap and logins fail.
Serving == {c \in Call : mode = "stdio" /\ At(c, "run")}
Identity == INSTANCE OneIdentity WITH
  identity <- session, serving <- Serving, life <- crashes
ActsAsOne == Identity!Spec

\* Two misses of the registry make two clients, each with retry slots of its
\* own; but a call that came when the registry had a client, and no miss of
\* that agent was under way, uses the registered one, so the split ends.
LateCallsShare ==
  \A c \in Call :
    call[c].late /\ At(c, "run") => call[c].client = registry[call[c].agent]

\* The reads the agents' counts stand for: each one's first, second, ...
ReadsCounted(counts) == UNION {{a} \X (1 .. counts[a]) : a \in Agent}

Adds(s) == s.byTool = Cardinality(ReadsCounted(s.byAgent))

\* Whatever instant the process ends at, and whether writes of the file fail,
\* the published file is whole, its totals agree with the agents' counts, and
\* it holds a past state of the counter of the process that wrote it.
PublishedIsPast ==
  file # NoFile =>
    /\ file # Torn
    /\ file.of = crashes => \A a \in Agent : file.byAgent[a] <= byAgent[a]
PublishedIsWhole == PublishedIsPast /\ (file # NoFile => Adds(file))

\* Every tool call is answered in the end, whatever the Mesh API says to the
\* logins of the calls before it.
EveryCallAnswered ==
  \A c \in Call : At(c, "check") ~> call[c].pc \in {"run", "refused", "idle"}
=============================================================================
