--------------------------- MODULE DocEditsProofs ---------------------------
(***************************************************************************)
(* Proofs about DocEdits.                                                  *)
(*                                                                         *)
(* OnceInv is about where the change of an agent can be: among all texts   *)
(* there are (Texts), those that agents have read and those of writes that *)
(* may still land included, none has it while it is still to be written,   *)
(* and none has it twice.  ReadInv is about versions: who remembers the    *)
(* current version of a document has read its current text, and a late     *)
(* write that the version still admits holds that text, so that a write    *)
(* which Mesh accepts takes away only what its agent has read.  Each       *)
(* invariant is proved part by part: first what a write does to a text     *)
(* (Written) and what an agent's step does to the agent, then each part    *)
(* under every action.                                                     *)
(***************************************************************************)
EXTENDS DocEdits, SequenceTheorems, TLAPS

\* The texts there are: those of the documents and their originals, those the
\* agents have read, and those of replacements that may still land.
Texts ==
  {copy[d].text : d \in Doc} \cup {origin[d].text : d \in Doc}
    \cup {agent[a].seen : a \in Agent}
    \cup {r.text : r \in {q \in late : q.kind = "body"}}

\* What the agents know of their own writes.
Honest == \A a \in Agent :
  /\ agent[a].wrote <=> Wrote(agent[a].code)
  /\ agent[a].pc # "told" => agent[a].code = "none"

\* An agent whose change has not been written, by any of its calls.
Open(a) == lost[a] = 0 /\ agent[a].pc \notin {"done", "stopped"} /\ ~agent[a].wrote

\* The agents WrittenOnce is about.
Bound(a) == agent[a].appended => lost[a] = 0

Single(t) == \A a \in Agent : Bound(a) => Once(Times(a, t))
Singles   == \A t \in Texts : Single(t)
Unwritten == \A a \in Agent : Open(a) => \A t \in Texts : a \notin In(t)
SeenWithout == \A a \in Agent :
  agent[a].kind = "body" /\ agent[a].pc \in {"write", "writing"} => a \notin In(agent[a].seen)
LateOf == \A r \in late :
  lost[r.by] > 0 /\ (r.kind = "append" => agent[r.by].appended)

OnceInv == Honest /\ Singles /\ Unwritten /\ SeenWithout /\ LateOf

Holds(t, u) == In(t) \subseteq In(u)
ByPath(a) == agent[a].ref \in Path

\* What an agent has read is the text of the version it remembers.
Current == \A a \in Agent :
  LET d == agent[a].from
  IN d \in Doc =>
       /\ agent[a].base <= copy[d].version
       /\ agent[a].base = copy[d].version => agent[a].seen = copy[d].text

FromOwn == \A a \in Agent : agent[a].ref \in Doc => agent[a].from \in {NoDoc, agent[a].ref}
ReadFirst == \A a \in Agent :
  agent[a].kind = "body" /\ agent[a].pc \in {"write", "writing"} => agent[a].from \in Doc

LateCurrent == \A r \in late :
  ~ByPath(r.by) /\ r.kind = "body" =>
    /\ r.versioned
    /\ r.base <= copy[r.doc].version
    /\ r.base = copy[r.doc].version => Holds(copy[r.doc].text, r.text)

\* An agent whose write has replaced what it had not read.
Astray(a, d) ==
  /\ ByPath(a)
  /\ lost[a] > 0 \/ (agent[a].from # d /\ (agent[a].pc = "done" \/ agent[a].wrote))

Kept == \A d \in Relayed :
  Holds(copy[d].text, origin[d].text) \/ \E a \in Agent : Astray(a, d)

ReadInv == Current /\ FromOwn /\ ReadFirst /\ LateCurrent /\ Kept

-----------------------------------------------------------------------------
(***************************************************************************)
(* Texts.                                                                  *)
(***************************************************************************)
\* A change added to a text is in it, after all that was there.
LEMMA InAppend ==
  ASSUME NEW t \in Seq(Change), NEW x \in Change
  PROVE  Append(t, x) \in Seq(Change) /\ In(Append(t, x)) = In(t) \cup {x}
<1> DEFINE u == Append(t, x)
<1>1. u \in Seq(Change) /\ Len(t) \in Nat /\ Len(u) = Len(t) + 1 /\ u[Len(t) + 1] = x
  BY AppendProperties, LenProperties
<1>2. \A i \in 1..Len(t) : u[i] = t[i]
  BY AppendProperties
<1>3. 1..Len(u) = 1..Len(t) \cup {Len(t) + 1}
  BY <1>1
<1>4. In(u) = {u[i] : i \in 1..Len(t)} \cup {x}
  BY <1>1, <1>3 DEF In
<1>5. {u[i] : i \in 1..Len(t)} = In(t)
  BY <1>2 DEF In
<1>. QED
  BY <1>1, <1>4, <1>5

\* A change that was not in a text is in it once after it is added, and to
\* add one changes nothing for another.
LEMMA OnceAppend ==
  ASSUME NEW t \in Seq(Change), NEW x \in Change, NEW a \in Agent,
         Once(Times(a, t)), x = a => a \notin In(t)
  PROVE  Once(Times(a, Append(t, x)))
<1> DEFINE u == Append(t, x)
<1>1. Len(t) \in Nat /\ Len(u) = Len(t) + 1 /\ u[Len(t) + 1] = x
  BY AppendProperties, LenProperties
<1>2. \A i \in 1..Len(t) : u[i] = t[i]
  BY AppendProperties
<1>3. 1..Len(u) = 1..Len(t) \cup {Len(t) + 1}
  BY <1>1
<1> HIDE DEF u
<1>4. CASE x = a
  <2>1. \A i \in 1..Len(t) : u[i] # a
    BY <1>2, <1>4 DEF In
  <2>2. Times(a, u) \subseteq {Len(t) + 1}
    BY <1>3, <2>1 DEF Times
  <2>. QED
    BY <2>2 DEF Once, u
<1>5. CASE x # a
  <2>1. Times(a, u) \subseteq Times(a, t)
    BY <1>1, <1>2, <1>3, <1>5 DEF Times
  <2>. QED
    BY <2>1 DEF Once, u
<1>. QED
  BY <1>4, <1>5

\* A text of one change.
LEMMA Single1 ==
  ASSUME NEW x \in Change
  PROVE  <<x>> \in Seq(Change) /\ In(<<x>>) = {x} /\ \A a \in Agent : Once(Times(a, <<x>>))
<1>1. Len(<<x>>) = 1 /\ <<x>>[1] = x /\ 1..Len(<<x>>) = {1}
  OBVIOUS
<1>2. In(<<x>>) = {x}
  BY <1>1 DEF In
<1>3. \A a \in Agent : Times(a, <<x>>) \subseteq {1}
  BY <1>1 DEF Times
<1>. QED
  BY <1>2, <1>3 DEF Once

\* The empty text.
LEMMA NoText == <<>> \in Seq(Change) /\ In(<<>>) = {} /\ \A a \in Agent : Once(Times(a, <<>>))
<1>1. Len(<<>>) = 0 /\ 1..0 = {}
  OBVIOUS
<1>. QED
  BY <1>1 DEF In, Once, Times

-----------------------------------------------------------------------------
(***************************************************************************)
(* Types.                                                                  *)
(***************************************************************************)
MeshOK ==
  /\ copy \in [Doc -> [version: Nat, text: Seq(Change)]]
  /\ origin \in [Doc -> [rev: Nat, text: Seq(Change)]] /\ synced \in [Doc -> Nat]
  /\ due \subseteq Relayed
  /\ at \in [Path -> Doc \cup {NoDoc}] /\ was \in [Path -> Doc \cup {NoDoc}]
AgentsOK ==
  /\ agent \in [Agent -> Actor]
  /\ \A a \in Agent : agent[a].pc \in {"reading", "writing"} => agent[a].doc \in Doc
CountsOK ==
  /\ others \in 0..MaxOthers
  /\ lost \in [Agent -> Nat] /\ \A a \in Agent : lost[a] <= MaxLost[a]

LEMMA TypeParts == TypeOK <=> MeshOK /\ AgentsOK /\ late \subseteq Request /\ CountsOK
BY DEF TypeOK, MeshOK, AgentsOK, CountsOK

\* What a step of an agent does to it: a path resolved, a document read, a
\* write answered or given up, an advice followed.
LEMMA ResolvedActor ==
  ASSUME NEW x \in Actor, NEW pc \in {"reading", "writing", "stopped"}, NEW d \in Doc \cup {NoDoc}
  PROVE  [x EXCEPT !.doc = d, !.pc = pc] \in Actor
BY DEF Actor

LEMMA ReadingActor ==
  ASSUME NEW x \in Actor, NEW pc \in {"done", "write"}, NEW d \in Doc, NEW t \in Seq(Change),
         NEW n \in Nat
  PROVE  [x EXCEPT !.pc = pc, !.seen = t, !.from = d, !.base = n] \in Actor
BY DEF Actor

LEMMA ToldActor ==
  ASSUME NEW x \in Actor, NEW code \in Code, NEW wrote \in BOOLEAN, NEW appended \in BOOLEAN
  PROVE  [x EXCEPT !.pc = "told", !.code = code, !.wrote = wrote, !.appended = appended] \in Actor
BY DEF Actor

LEMMA HeedingActor ==
  ASSUME NEW x \in Actor, NEW pc \in {"read", "write", "done", "stopped"}, NEW kind \in Kind,
         NEW want \in Path \cup {NoPath}
  PROVE  [x EXCEPT !.pc = pc, !.kind = kind, !.want = want, !.doc = NoDoc, !.code = "none",
                   !.wrote = FALSE] \in Actor
BY DEF Actor, Code

LEMMA InitType == Init => TypeOK
<1> SUFFICES ASSUME Init
             PROVE  MeshOK /\ AgentsOK /\ late \subseteq Request /\ CountsOK
  BY TypeParts
<1>1. \A d \in Doc : <<d>> \in Seq(Change)
  BY Single1 DEF Change
<1>2. copy \in [Doc -> [version: Nat, text: Seq(Change)]]
  BY <1>1 DEF Init
<1>3. origin \in [Doc -> [rev: Nat, text: Seq(Change)]]
  BY <1>1 DEF Init
<1>4. at \in [Path -> Doc \cup {NoDoc}] /\ was \in [Path -> Doc \cup {NoDoc}]
  BY DEF Init
<1>5. MeshOK
  BY <1>2, <1>3, <1>4 DEF MeshOK, Init
<1>6. AgentsOK
  <2>1. <<>> \in Seq(Change) /\ 0 \in Nat
    BY NoText
  <2>2. ASSUME NEW a \in Agent PROVE agent[a] \in Actor /\ agent[a].pc \notin {"reading", "writing"}
    BY <2>1 DEF Init, Actor, Code
  <2>3. agent \in [Agent -> Actor]
    BY <2>2 DEF Init
  <2>. QED
    BY <2>2, <2>3 DEF AgentsOK
<1>7. CountsOK /\ late \subseteq Request
  BY DocsAssumption DEF CountsOK, Init
<1>. QED
  BY <1>5, <1>6, <1>7

\* The document of a request, and what is sent.
LEMMA PayloadType ==
  ASSUME TypeOK, NEW a \in Agent, Ready(a, "write", "writing")
  PROVE  Payload(a) \in Request /\ Target(a) \in Doc
<1>1. agent[a] \in Actor /\ Append(agent[a].seen, a) \in Seq(Change)
  BY InAppend DEF TypeOK, Actor, Change
<1>2. Target(a) \in Doc
  BY <1>1 DEF Ready, Target, TypeOK, Actor
<1>. QED
  BY <1>1, <1>2 DEF Payload, Request, Actor, Kind

LEMMA WrittenType ==
  ASSUME TypeOK, NEW r \in Request
  PROVE  Written(r) \in Seq(Change)
<1>1. copy[r.doc].text \in Seq(Change) /\ r.by \in Change /\ r.text \in Seq(Change)
  BY DEF TypeOK, Request, Change
<1>. QED
  BY <1>1, InAppend DEF Written

LEMMA MovedType ==
  ASSUME TypeOK, NEW d \in Doc, NEW p \in Path, Moved(d, p)
  PROVE  at' \in [Path -> Doc \cup {NoDoc}] /\ was' \in [Path -> Doc \cup {NoDoc}]
BY DEF TypeOK, Moved

LEMMA HandleType ==
  ASSUME TypeOK, NEW r \in Request, NEW code \in Code, Handle(r, code)
  PROVE  MeshOK'
<1>1. r.doc \in Doc /\ r.want \in Path \cup {NoPath}
  BY DEF Request
<1> DEFINE t == Written(r)
<1>0. t \in Seq(Change)
  BY WrittenType
<1> HIDE DEF t
<1>2. copy' \in [Doc -> [version: Nat, text: Seq(Change)]]
  <2>1. copy' = copy \/ copy' = [copy EXCEPT ![r.doc] = [version |-> copy[r.doc].version + 1, text |-> t]]
    BY DEF Handle, t
  <2>2. [version |-> copy[r.doc].version + 1, text |-> t] \in [version: Nat, text: Seq(Change)]
    BY <1>0, <1>1 DEF TypeOK
  <2>. QED
    BY <1>1, <2>1, <2>2 DEF TypeOK
<1>3. origin' \in [Doc -> [rev: Nat, text: Seq(Change)]] /\ synced' \in [Doc -> Nat]
  <2>1. origin' = origin \/ origin' = [origin EXCEPT ![r.doc] = [rev |-> origin[r.doc].rev + 1, text |-> t]]
    BY DEF Handle, t
  <2>2. origin[r.doc].rev + 1 \in Nat
    BY <1>1 DEF TypeOK
  <2>3. synced' = synced \/ synced' = [synced EXCEPT ![r.doc] = origin[r.doc].rev + 1]
    BY DEF Handle
  <2>4. [rev |-> origin[r.doc].rev + 1, text |-> t] \in [rev: Nat, text: Seq(Change)]
    BY <1>0, <2>2
  <2>5. origin' \in [Doc -> [rev: Nat, text: Seq(Change)]]
    BY <1>1, <2>1, <2>4 DEF TypeOK
  <2>6. synced' \in [Doc -> Nat]
    BY <1>1, <2>2, <2>3 DEF TypeOK
  <2>. QED
    BY <2>5, <2>6
<1>4. at' \in [Path -> Doc \cup {NoDoc}] /\ was' \in [Path -> Doc \cup {NoDoc}]
  BY <1>1, MovedType DEF Handle, TypeOK
<1>. QED
  BY <1>2, <1>3, <1>4 DEF MeshOK, Handle, TypeOK

LEMMA NextType == TypeOK /\ [Next]_vars => TypeOK'
<1> SUFFICES ASSUME TypeOK, [Next]_vars
             PROVE  (MeshOK /\ AgentsOK /\ late \subseteq Request /\ CountsOK)'
  BY DEF TypeOK, MeshOK, AgentsOK, CountsOK
<1>0. MeshOK /\ AgentsOK /\ late \subseteq Request /\ CountsOK
  BY TypeParts
<1>a. ASSUME UNCHANGED meshVars PROVE MeshOK'
  BY <1>0, <1>a DEF MeshOK, meshVars
<1>1. ASSUME NEW a \in Agent, Resolve(a)
      PROVE  (MeshOK /\ AgentsOK /\ late \subseteq Request /\ CountsOK)'
  <2>1. Resolved(agent[a].ref) \in Doc \cup {NoDoc}
    BY <1>1 DEF Resolve, Resolved, TypeOK
  <2>2. AgentsOK'
    <3>1. PICK pc \in {"reading", "writing", "stopped"} :
            /\ agent' = [agent EXCEPT ![a] = [agent[a] EXCEPT
                 !.doc = Resolved(agent[a].ref), !.pc = pc]]
            /\ pc # "stopped" => Resolved(agent[a].ref) # NoDoc
      BY <1>1 DEF Resolve, Unresolved
    <3>2. [agent[a] EXCEPT !.doc = Resolved(agent[a].ref), !.pc = pc] \in Actor
      BY <1>0, <2>1, ResolvedActor DEF AgentsOK
    <3>. QED
      BY <1>0, <2>1, <3>1, <3>2 DEF AgentsOK, Actor
  <2>. QED
    BY <1>0, <1>1, <1>a, <2>2 DEF Resolve, CountsOK
<1>2. ASSUME NEW a \in Agent, GetDoc(a)
      PROVE  (MeshOK /\ AgentsOK /\ late \subseteq Request /\ CountsOK)'
  <2>1. Target(a) \in Doc
    BY <1>2 DEF GetDoc, Ready, Target, TypeOK, Actor
  <2>2. Opened(Target(a)) \in [version: Nat, text: Seq(Change)]
    BY <2>1 DEF Opened, TypeOK
  <2>3. MeshOK'
    BY <1>0, <1>2, <2>1, <2>2 DEF MeshOK, GetDoc
  <2>4. AgentsOK'
    <3>1. PICK pc \in {"done", "write"} :
            agent' = [agent EXCEPT ![a] = [agent[a] EXCEPT !.pc = pc,
              !.seen = Opened(Target(a)).text, !.from = Target(a), !.base = Opened(Target(a)).version]]
      BY <1>2 DEF GetDoc
    <3>2. [agent[a] EXCEPT !.pc = pc, !.seen = Opened(Target(a)).text, !.from = Target(a),
             !.base = Opened(Target(a)).version] \in Actor
      BY <1>0, <2>1, <2>2, ReadingActor DEF AgentsOK
    <3>. QED
      BY <1>0, <3>1, <3>2 DEF AgentsOK, Actor
  <2>. QED
    BY <1>0, <1>2, <2>3, <2>4 DEF GetDoc, CountsOK
<1>3. ASSUME NEW a \in Agent, Patch(a)
      PROVE  (MeshOK /\ AgentsOK /\ late \subseteq Request /\ CountsOK)'
  <2>1. PICK code \in Code :
          /\ Handle(Payload(a), code)
          /\ agent' = [agent EXCEPT ![a].pc = "told", ![a].code = code, ![a].wrote = Wrote(code),
               ![a].appended = @ \/ agent[a].kind = "append"]
    BY <1>3 DEF Patch
  <2>2. Payload(a) \in Request
    BY <1>3, PayloadType DEF Patch
  <2>3. MeshOK'
    BY <2>1, <2>2, HandleType
  <2>4. AgentsOK'
    <3> DEFINE wrote == Wrote(code)
               appended == agent[a].appended \/ agent[a].kind = "append"
    <3>1. wrote \in BOOLEAN /\ appended \in BOOLEAN
      BY DEF Wrote
    <3>2. [agent[a] EXCEPT !.pc = "told", !.code = code, !.wrote = wrote, !.appended = appended]
            \in Actor
      BY <1>0, <3>1, ToldActor DEF AgentsOK
    <3>3. agent' = [agent EXCEPT ![a] = [agent[a] EXCEPT !.pc = "told", !.code = code,
              !.wrote = wrote, !.appended = appended]]
      BY <2>1
    <3> HIDE DEF wrote, appended
    <3>. QED
      BY <1>0, <3>2, <3>3 DEF AgentsOK, Actor
  <2>. QED
    BY <1>0, <1>3, <2>3, <2>4 DEF Patch, CountsOK
<1>4. ASSUME NEW a \in Agent, TimeOut(a)
      PROVE  (MeshOK /\ AgentsOK /\ late \subseteq Request /\ CountsOK)'
  <2>1. late' \subseteq Request
    BY <1>0, <1>4, PayloadType DEF TimeOut
  <2>2. AgentsOK'
    <3>1. PICK appended \in BOOLEAN :
            agent' = [agent EXCEPT ![a] = [agent[a] EXCEPT !.pc = "told", !.code = "error",
              !.wrote = FALSE, !.appended = appended]]
      BY <1>0, <1>4 DEF AgentsOK, Actor, TimeOut
    <3>2. [agent[a] EXCEPT !.pc = "told", !.code = "error", !.wrote = FALSE, !.appended = appended]
            \in Actor
      BY <1>0, ToldActor DEF AgentsOK, Code
    <3>. QED
      BY <1>0, <3>1, <3>2 DEF AgentsOK, Actor
  <2>3. CountsOK'
    <3>1. lost[a] \in Nat /\ MaxLost[a] \in Nat /\ lost[a] < MaxLost[a]
      BY <1>0, <1>4, DocsAssumption DEF CountsOK, TimeOut
    <3>2. lost[a] + 1 \in Nat /\ lost[a] + 1 <= MaxLost[a]
      BY <3>1
    <3>. QED
      BY <1>0, <1>4, <3>2 DEF CountsOK, TimeOut
  <2>. QED
    BY <1>4, <1>a, <2>1, <2>2, <2>3 DEF TimeOut
<1>5. ASSUME NEW r \in late, Land(r)
      PROVE  (MeshOK /\ AgentsOK /\ late \subseteq Request /\ CountsOK)'
  BY <1>0, <1>5, HandleType DEF Land, AgentsOK, CountsOK
<1>6. ASSUME NEW a \in Agent, NEW advice \in Advice, Heed(a, advice)
      PROVE  (MeshOK /\ AgentsOK /\ late \subseteq Request /\ CountsOK)'
  <2>1. AgentsOK'
    <3>1. agent[a].kind \in Kind /\ agent[a].want \in Path \cup {NoPath}
      BY <1>0 DEF AgentsOK, Actor
    <3> DEFINE pc == IF advice = "stop" THEN "done"
                     ELSE IF advice = "none" THEN "stopped"
                     ELSE IF advice # "reread" /\ (advice = "append" \/ agent[a].kind = "append")
                       THEN "write" ELSE "read"
               kind == IF advice = "append" THEN "append" ELSE agent[a].kind
               want == IF advice = "elsewhere" THEN NoPath ELSE agent[a].want
    <3>a. pc \in {"read", "write", "done", "stopped"} /\ kind \in Kind /\ want \in Path \cup {NoPath}
      BY <3>1 DEF Kind
    <3>2. agent' = [agent EXCEPT ![a] = [agent[a] EXCEPT !.pc = pc, !.kind = kind,
              !.want = want, !.doc = NoDoc, !.code = "none", !.wrote = FALSE]]
      BY <1>6 DEF Heed
    <3> HIDE DEF pc, kind, want
    <3>3. [agent[a] EXCEPT !.pc = pc, !.kind = kind, !.want = want, !.doc = NoDoc,
             !.code = "none", !.wrote = FALSE] \in Actor
      BY <1>0, <3>a, HeedingActor DEF AgentsOK
    <3>. QED
      BY <1>0, <3>a, <3>2, <3>3 DEF AgentsOK, Actor
  <2>. QED
    BY <1>0, <1>6, <1>a, <2>1 DEF Heed, CountsOK
<1>7. ASSUME NEW d \in Doc, Edit(d) \/ EditOrigin(d)
      PROVE  (MeshOK /\ AgentsOK /\ late \subseteq Request /\ CountsOK)'
  <2>1. CountsOK' /\ others + 1 \in Change
    BY <1>0, <1>7, DocsAssumption DEF CountsOK, Edit, EditOrigin, Change
  <2>2. <<others + 1>> \in Seq(Change) /\ \A t \in Seq(Change) : Append(t, others + 1) \in Seq(Change)
    BY <2>1, Single1, InAppend
  <2>3. CASE Edit(d)
    <3>1. PICK text \in Seq(Change) :
            copy' = [copy EXCEPT ![d] = [version |-> copy[d].version + 1, text |-> text]]
      BY <1>0, <2>2, <2>3 DEF MeshOK, Edit
    <3>2. [version |-> copy[d].version + 1, text |-> text] \in [version: Nat, text: Seq(Change)]
      BY <1>0 DEF MeshOK
    <3>. QED
      BY <1>0, <2>1, <2>3, <3>1, <3>2 DEF MeshOK, Edit, AgentsOK
  <2>4. CASE EditOrigin(d)
    <3>1. [rev |-> origin[d].rev + 1, text |-> Append(origin[d].text, others + 1)]
            \in [rev: Nat, text: Seq(Change)]
      BY <1>0, <2>2 DEF MeshOK
    <3>. QED
      BY <1>0, <2>1, <2>4, <3>1 DEF MeshOK, EditOrigin, AgentsOK
  <2>. QED
    BY <1>7, <2>3, <2>4
<1>8. ASSUME NEW d \in Doc, NEW p \in Path, Move(d, p)
      PROVE  (MeshOK /\ AgentsOK /\ late \subseteq Request /\ CountsOK)'
  <2>1. CountsOK'
    BY <1>0, <1>8, DocsAssumption DEF CountsOK, Move
  <2>2. MeshOK'
    BY <1>0, <1>8, MovedType DEF MeshOK, Move
  <2>. QED
    BY <1>0, <1>8, <2>1, <2>2 DEF AgentsOK, Move
<1>9. ASSUME NEW d \in Doc, Elapse(d)
      PROVE  (MeshOK /\ AgentsOK /\ late \subseteq Request /\ CountsOK)'
  BY <1>0, <1>9 DEF Elapse, MeshOK, AgentsOK, CountsOK
<1>10. CASE UNCHANGED vars
  BY <1>0, <1>10 DEF vars, meshVars, MeshOK, AgentsOK, CountsOK
<1>. QED
  BY <1>1, <1>2, <1>3, <1>4, <1>5, <1>6, <1>7, <1>8, <1>9, <1>10 DEF Next, AgentStep

\* Types.
THEOREM TypeCorrect == Spec => []TypeOK
BY InitType, NextType, PTL DEF Spec

-----------------------------------------------------------------------------
(***************************************************************************)
(* What the steps do to the agents.                                        *)
(***************************************************************************)
Others(a) == \A b \in Agent : b # a => agent'[b] = agent[b]

\* What no step of an agent changes; what only reading changes; and what only
\* the answer of a write changes.
SameName(a) == agent'[a].ref = agent[a].ref
SameRead(a) ==
  /\ agent'[a].seen = agent[a].seen /\ agent'[a].from = agent[a].from
  /\ agent'[a].base = agent[a].base
SameTold(a) ==
  /\ agent'[a].code = agent[a].code /\ agent'[a].wrote = agent[a].wrote
  /\ agent'[a].appended = agent[a].appended

LEMMA ResolveDoes ==
  ASSUME TypeOK, NEW a \in Agent, Resolve(a)
  PROVE  /\ Others(a) /\ SameName(a) /\ SameRead(a) /\ SameTold(a)
         /\ agent[a].pc \in {"read", "write"}
         /\ agent'[a].kind = agent[a].kind
         /\ agent'[a].pc \in {"reading", "writing", "stopped"}
         /\ agent'[a].pc = "writing" => agent[a].pc = "write"
<1>1. agent \in [Agent -> Actor] /\ agent[a] \in Actor
  BY DEF TypeOK
<1>. QED
  BY <1>1 DEF Resolve, Actor, Others, SameName, SameRead, SameTold

LEMMA GetDocDoes ==
  ASSUME TypeOK, NEW a \in Agent, GetDoc(a)
  PROVE  /\ Others(a) /\ SameName(a) /\ SameTold(a) /\ Target(a) \in Doc
         /\ agent[a].pc \in {"read", "reading"}
         /\ agent'[a].kind = agent[a].kind
         /\ agent'[a].pc = IF a \in In(Opened(Target(a)).text) THEN "done" ELSE "write"
         /\ agent'[a].seen = Opened(Target(a)).text /\ agent'[a].from = Target(a)
         /\ agent'[a].base = Opened(Target(a)).version
<1>1. agent \in [Agent -> Actor] /\ agent[a] \in Actor
  BY DEF TypeOK
<1>2. Target(a) \in Doc /\ agent[a].pc \in {"read", "reading"}
  BY <1>1 DEF GetDoc, Ready, Target, TypeOK, Actor
<1>3. Others(a) /\ SameName(a) /\ SameTold(a) /\ agent'[a].kind = agent[a].kind
  BY <1>1 DEF GetDoc, Actor, Others, SameName, SameTold
<1>4. /\ agent'[a].pc = IF a \in In(Opened(Target(a)).text) THEN "done" ELSE "write"
      /\ agent'[a].seen = Opened(Target(a)).text /\ agent'[a].from = Target(a)
      /\ agent'[a].base = Opened(Target(a)).version
  BY <1>1 DEF GetDoc, Actor
<1>. QED
  BY <1>2, <1>3, <1>4

LEMMA PatchDoes ==
  ASSUME TypeOK, NEW a \in Agent, Patch(a)
  PROVE  /\ Others(a) /\ SameName(a) /\ SameRead(a)
         /\ agent[a].pc \in {"write", "writing"} /\ Payload(a) \in Request
         /\ agent'[a].kind = agent[a].kind /\ agent'[a].pc = "told"
         /\ agent'[a].wrote <=> Wrote(agent'[a].code)
         /\ agent'[a].appended <=> agent[a].appended \/ agent[a].kind = "append"
         /\ agent'[a].code \in Code /\ Handle(Payload(a), agent'[a].code)
<1>1. agent \in [Agent -> Actor] /\ agent[a] \in Actor
  BY DEF TypeOK
<1>2. PICK code \in Code :
        /\ Handle(Payload(a), code)
        /\ agent' = [agent EXCEPT ![a].pc = "told", ![a].code = code, ![a].wrote = Wrote(code),
             ![a].appended = @ \/ agent[a].kind = "append"]
  BY DEF Patch
<1>3. Others(a) /\ SameName(a) /\ SameRead(a)
  BY <1>1, <1>2 DEF Actor, Others, SameName, SameRead
<1>4. agent'[a].kind = agent[a].kind /\ agent'[a].pc = "told" /\ agent'[a].code = code
  BY <1>1, <1>2 DEF Actor
<1>5. agent'[a].wrote = Wrote(code)
  BY <1>1, <1>2 DEF Actor
<1>6. agent'[a].appended = (agent[a].appended \/ agent[a].kind = "append")
  BY <1>1, <1>2 DEF Actor
<1>7. agent[a].pc \in {"write", "writing"} /\ Payload(a) \in Request
  BY PayloadType DEF Patch, Ready
<1>. QED
  BY <1>2, <1>3, <1>4, <1>5, <1>6, <1>7

LEMMA TimeOutDoes ==
  ASSUME TypeOK, NEW a \in Agent, TimeOut(a)
  PROVE  /\ Others(a) /\ SameName(a) /\ SameRead(a)
         /\ agent[a].pc \in {"write", "writing"} /\ Payload(a) \in Request
         /\ agent'[a].kind = agent[a].kind /\ agent'[a].pc = "told"
         /\ agent'[a].code = "error" /\ ~agent'[a].wrote
         /\ agent'[a].appended <=> agent[a].appended \/ agent[a].kind = "append"
         /\ lost'[a] > 0 /\ lost' = [lost EXCEPT ![a] = @ + 1] /\ lost \in [Agent -> Nat]
<1>1. agent \in [Agent -> Actor] /\ agent[a] \in Actor /\ lost \in [Agent -> Nat]
  BY DEF TypeOK
<1>2. agent' = [agent EXCEPT ![a].pc = "told", ![a].code = "error", ![a].wrote = FALSE,
       ![a].appended = @ \/ agent[a].kind = "append"]
  BY DEF TimeOut
<1>3. Others(a) /\ SameName(a) /\ SameRead(a)
  BY <1>1, <1>2 DEF Actor, Others, SameName, SameRead
<1>4. agent'[a].kind = agent[a].kind /\ agent'[a].pc = "told" /\ agent'[a].code = "error"
  BY <1>1, <1>2 DEF Actor
<1>5. agent'[a].wrote = FALSE
  BY <1>1, <1>2 DEF Actor
<1>6. agent'[a].appended = (agent[a].appended \/ agent[a].kind = "append")
  BY <1>1, <1>2 DEF Actor
<1>7. agent[a].pc \in {"write", "writing"} /\ Payload(a) \in Request
  BY PayloadType DEF TimeOut, Ready
<1>8. lost'[a] > 0 /\ lost' = [lost EXCEPT ![a] = @ + 1]
  BY <1>1 DEF TimeOut
<1>. QED
  BY <1>1, <1>3, <1>4, <1>5, <1>6, <1>7, <1>8

LEMMA HeedDoes ==
  ASSUME TypeOK, NEW a \in Agent, NEW advice \in Advice, Heed(a, advice)
  PROVE  /\ Others(a) /\ SameName(a) /\ SameRead(a)
         /\ agent[a].pc = "told" /\ advice \in UpdateDocAnswer(agent[a].code).advice
         /\ agent'[a].code = "none" /\ ~agent'[a].wrote
         /\ agent'[a].appended = agent[a].appended
         /\ advice = "stop" => agent'[a].pc = "done"
         /\ agent'[a].pc \in {"read", "write", "done", "stopped"}
         /\ agent'[a].pc = "write" => agent'[a].kind = "append"
<1>1. agent \in [Agent -> Actor] /\ agent[a] \in Actor
  BY DEF TypeOK
<1>2. Others(a) /\ SameName(a) /\ SameRead(a) /\ agent'[a].appended = agent[a].appended
  BY <1>1 DEF Heed, Actor, Others, SameName, SameRead
<1>3. agent'[a].code = "none" /\ agent'[a].wrote = FALSE
  BY <1>1 DEF Heed, Actor
<1>4. /\ agent'[a].pc = IF advice = "stop" THEN "done"
                 ELSE IF advice = "none" THEN "stopped"
                 ELSE IF advice # "reread" /\ (advice = "append" \/ agent[a].kind = "append")
                   THEN "write" ELSE "read"
      /\ agent'[a].kind = IF advice = "append" THEN "append" ELSE agent[a].kind
  BY <1>1 DEF Heed, Actor
<1>5. agent[a].pc = "told" /\ advice \in UpdateDocAnswer(agent[a].code).advice
  BY DEF Heed
<1>. QED
  BY <1>2, <1>3, <1>4, <1>5

-----------------------------------------------------------------------------
(***************************************************************************)
(* What agents say and are told of their writes.                           *)
(***************************************************************************)
\* The agents are as they were, in all but what a step of others changes.
Idle == UNCHANGED agent

\* Every step is one of an agent, or leaves the agents alone.
LEMMA WhoseStep ==
  ASSUME [Next]_vars
  PROVE  \/ \E a \in Agent : \/ Resolve(a) \/ GetDoc(a) \/ Patch(a) \/ TimeOut(a)
                             \/ \E advice \in Advice : Heed(a, advice)
         \/ Idle /\ (\E r \in late : Land(r))
         \/ Idle /\ \E d \in Doc : Edit(d) \/ EditOrigin(d) \/ Elapse(d) \/ \E p \in Path : Move(d, p)
         \/ UNCHANGED vars
BY DEF Next, AgentStep, Idle, Land, Edit, EditOrigin, Elapse, Move

LEMMA InitHonest == Init => Honest
<1> SUFFICES ASSUME Init, NEW a \in Agent
             PROVE  agent[a].wrote = FALSE /\ agent[a].code = "none"
  BY DEF Honest, Wrote
<1>. QED
  BY DEF Init

LEMMA NextHonest ==
  ASSUME TypeOK, Honest, [Next]_vars
  PROVE  Honest'
<1>1. ASSUME NEW a \in Agent, Others(a),
             agent'[a].wrote <=> Wrote(agent'[a].code),
             agent'[a].pc # "told" => agent'[a].code = "none"
      PROVE  Honest'
  BY <1>1 DEF Honest, Others
<1>2. ASSUME NEW a \in Agent, Resolve(a) \/ GetDoc(a)
      PROVE  Honest'
  <2>1. Others(a) /\ SameTold(a) /\ agent[a].pc # "told"
    BY <1>2, ResolveDoes, GetDocDoes
  <2>. QED
    BY <1>1, <2>1 DEF SameTold, Honest
<1>3. ASSUME NEW a \in Agent, Patch(a)
      PROVE  Honest'
  BY <1>1, <1>3, PatchDoes
<1>4. ASSUME NEW a \in Agent, TimeOut(a)
      PROVE  Honest'
  BY <1>1, <1>4, TimeOutDoes DEF Wrote
<1>5. ASSUME NEW a \in Agent, NEW advice \in Advice, Heed(a, advice)
      PROVE  Honest'
  BY <1>1, <1>5, HeedDoes DEF Wrote
<1>6. ASSUME UNCHANGED agent
      PROVE  Honest'
  BY <1>6 DEF Honest
<1>. QED
  BY <1>2, <1>3, <1>4, <1>5, <1>6, WhoseStep DEF Idle, vars

\* "NOTHING WAS WRITTEN" is said of calls that wrote nothing, "WAS SAVED" of
\* calls that wrote: conflictResult tells the causes of a 409 apart.
THEOREM ClaimsTrueHolds == Spec => []ClaimsTrue
<1>1. Init => TypeOK /\ Honest
  BY InitType, InitHonest
<1>2. TypeOK /\ Honest /\ [Next]_vars => (TypeOK /\ Honest)'
  BY NextType, NextHonest
<1>3. TypeOK /\ Honest => ClaimsTrue
  <2> SUFFICES ASSUME TypeOK, Honest, NEW a \in Agent, agent[a].pc = "told"
               PROVE  LET claim == UpdateDocAnswer(agent[a].code).claim
                      IN /\ claim = "nothing" => ~agent[a].wrote
                         /\ claim = "saved" => agent[a].wrote
    BY DEF ClaimsTrue
  <2>1. agent[a].wrote <=> agent[a].code \in {"ok", "external_source_write_landed"}
    BY DEF Honest, Wrote
  <2>. QED
    BY <2>1 DEF UpdateDocAnswer, ConflictResult
<1>. QED
  BY <1>1, <1>2, <1>3, PTL DEF Spec

-----------------------------------------------------------------------------
(***************************************************************************)
(* Every change is in a text once.                                         *)
(***************************************************************************)
LEMMA TextsTyped == TypeOK => Texts \subseteq Seq(Change)
<1> SUFFICES ASSUME TypeOK
             PROVE  Texts \subseteq Seq(Change)
  OBVIOUS
<1>1. \A d \in Doc : copy[d].text \in Seq(Change) /\ origin[d].text \in Seq(Change)
  BY DEF TypeOK
<1>2. \A a \in Agent : agent[a].seen \in Seq(Change)
  BY DEF TypeOK, Actor
<1>3. \A r \in late : r.text \in Seq(Change)
  BY DEF TypeOK, Request
<1>. QED
  BY <1>1, <1>2, <1>3 DEF Texts

\* Where a text can come from in a step: it was there, a person wrote it or
\* added to it, or an agent added its change to one, which by then is out of
\* reach of a second write: the text did not have the change, or the agent
\* has appended and lost an answer.
Follows(t) ==
  \/ t \in Texts
  \/ \E n \in 1..MaxOthers : t = <<n>> \/ \E s \in Texts : t = Append(s, n)
  \/ \E s \in Texts, a \in Agent :
       /\ t = Append(s, a)
       /\ a \notin In(s) \/ ~Bound(a)'
       /\ ~Open(a)'

LEMMA OnceKept ==
  ASSUME TypeOK, Singles, Unwritten,
         \A t \in Texts' : Follows(t),
         \A a \in Agent : (Bound(a)' => Bound(a)) /\ (Open(a)' => Open(a))
  PROVE  Singles' /\ Unwritten'
<1> USE DocsAssumption
<1>1. Texts \subseteq Seq(Change) /\ 1..MaxOthers \subseteq Change /\ Agent \subseteq Change
  BY TextsTyped DEF Change
<1>2. ASSUME NEW t \in Texts', NEW a \in Agent, Bound(a)'
      PROVE  Once(Times(a, t))
  <2>0. Bound(a) /\ \A s \in Texts : Once(Times(a, s))
    BY <1>2 DEF Singles, Single
  <2>1. ASSUME NEW s \in Texts, NEW x \in Change, t = Append(s, x), x = a => a \notin In(s)
        PROVE  Once(Times(a, t))
    BY <1>1, <2>0, <2>1, OnceAppend
  <2>2. CASE t \in Texts
    BY <2>0, <2>2
  <2>3. ASSUME NEW n \in 1..MaxOthers, t = <<n>> \/ \E s \in Texts : t = Append(s, n)
        PROVE  Once(Times(a, t))
    BY <1>1, <2>1, <2>3, Single1
  <2>4. ASSUME NEW s \in Texts, NEW b \in Agent, t = Append(s, b), b \notin In(s) \/ ~Bound(b)'
        PROVE  Once(Times(a, t))
    BY <1>1, <1>2, <2>1, <2>4
  <2>. QED
    BY <2>2, <2>3, <2>4 DEF Follows
<1>3. ASSUME NEW t \in Texts', NEW a \in Agent, Open(a)'
      PROVE  a \notin In(t)
  <2>0. \A s \in Texts : a \notin In(s)
    BY <1>3 DEF Unwritten
  <2>1. ASSUME NEW s \in Texts, NEW x \in Change, t = Append(s, x), x # a
        PROVE  a \notin In(t)
    BY <1>1, <2>0, <2>1, InAppend
  <2>2. CASE t \in Texts
    BY <2>0, <2>2
  <2>3. ASSUME NEW n \in 1..MaxOthers, t = <<n>> \/ \E s \in Texts : t = Append(s, n)
        PROVE  a \notin In(t)
    <3>1. n # a
      OBVIOUS
    <3>2. CASE t = <<n>>
      BY <1>1, <3>1, <3>2, Single1
    <3>. QED
      BY <1>1, <2>1, <2>3, <3>1, <3>2
  <2>4. ASSUME NEW s \in Texts, NEW b \in Agent, t = Append(s, b), ~Open(b)'
        PROVE  a \notin In(t)
    BY <1>1, <1>3, <2>1, <2>4
  <2>. QED
    BY <2>2, <2>3, <2>4 DEF Follows
<1>4. Singles'
  BY <1>2 DEF Singles, Single
<1>5. Unwritten'
  BY <1>3 DEF Unwritten
<1>. QED
  BY <1>4, <1>5

\* What the handling of a write leaves, in Mesh and on Team Relay.
LEMMA HandleDoes ==
  ASSUME TypeOK, NEW r \in Request, NEW code \in Code, Handle(r, code), NEW d \in Doc
  PROVE  /\ \/ copy'[d] = copy[d]
            \/ /\ code = "ok" /\ d = r.doc /\ copy'[d].text = Written(r)
               /\ copy'[d].version = copy[d].version + 1
         /\ \/ origin'[d] = origin[d]
            \/ Wrote(code) /\ d = r.doc /\ origin'[d].text = Written(r)
<1> DEFINE t == Written(r)
<1>1. copy' = copy \/ (code = "ok" /\
        copy' = [copy EXCEPT ![r.doc] = [version |-> copy[r.doc].version + 1, text |-> t]])
  BY DEF Handle
<1>2. origin' = origin \/ (Wrote(code) /\
        origin' = [origin EXCEPT ![r.doc] = [rev |-> origin[r.doc].rev + 1, text |-> t]])
  BY DEF Handle
<1> HIDE DEF t
<1>3. \/ copy'[d] = copy[d]
      \/ /\ code = "ok" /\ d = r.doc /\ copy'[d].text = t
         /\ copy'[d].version = copy[d].version + 1
  BY <1>1 DEF TypeOK
<1>4. origin'[d] = origin[d] \/ (Wrote(code) /\ d = r.doc /\ origin'[d].text = t)
  BY <1>2 DEF TypeOK
<1>. QED
  BY <1>3, <1>4 DEF t

\* The texts after a step, one by one.
LEMMA TextsAfter ==
  ASSUME \A d \in Doc : Follows(copy'[d].text) /\ Follows(origin'[d].text),
         \A a \in Agent : Follows(agent'[a].seen),
         \A r \in late' : r.kind = "body" => Follows(r.text)
  PROVE  \A t \in Texts' : Follows(t)
BY DEF Texts

\* What stays in its place follows.
LEMMA TextsStay ==
  /\ \A d \in Doc : Follows(copy[d].text) /\ Follows(origin[d].text)
  /\ \A a \in Agent : Follows(agent[a].seen)
  /\ \A r \in late : r.kind = "body" => Follows(r.text)
BY DEF Texts, Follows

\* An agent that may still write its change for the first time has been so all
\* along, and so has one that WrittenOnce is about.
LEMMA OpenKept ==
  ASSUME TypeOK, Honest, [Next]_vars, NEW a \in Agent
  PROVE  (Bound(a)' => Bound(a)) /\ (Open(a)' => Open(a)) /\ (lost[a] > 0 => lost'[a] > 0)
         /\ (agent[a].appended => agent'[a].appended)
<1>0. lost \in [Agent -> Nat]
  BY DEF TypeOK
<1>1. ASSUME NEW b \in Agent, Resolve(b) \/ GetDoc(b)
      PROVE  (Bound(a)' => Bound(a)) /\ (Open(a)' => Open(a)) /\ lost' = lost
             /\ (agent[a].appended => agent'[a].appended)
  <2>1. Others(b) /\ SameTold(b) /\ agent[b].pc \notin {"done", "stopped"} /\ lost' = lost
    BY <1>1, ResolveDoes, GetDocDoes DEF Resolve, GetDoc
  <2>. QED
    BY <2>1 DEF Others, SameTold, Bound, Open
<1>2. ASSUME NEW b \in Agent, Patch(b)
      PROVE  (Bound(a)' => Bound(a)) /\ (Open(a)' => Open(a)) /\ lost' = lost
             /\ (agent[a].appended => agent'[a].appended)
  <2>1. /\ Others(b) /\ agent[b].pc \in {"write", "writing"} /\ lost' = lost
        /\ agent[b].appended => agent'[b].appended
    BY <1>2, PatchDoes DEF Patch
  <2>2. ~agent[b].wrote
    BY <2>1 DEF Honest, Wrote
  <2>. QED
    BY <2>1, <2>2 DEF Others, Bound, Open
<1>3. ASSUME NEW b \in Agent, TimeOut(b)
      PROVE  (Bound(a)' => Bound(a)) /\ (Open(a)' => Open(a)) /\ (lost[a] > 0 => lost'[a] > 0)
             /\ (agent[a].appended => agent'[a].appended)
  <2>1. /\ Others(b)
        /\ agent[b].appended => agent'[b].appended
        /\ lost'[b] > 0 /\ lost' = [lost EXCEPT ![b] = @ + 1]
    BY <1>3, TimeOutDoes
  <2>2. CASE a = b
    <3>1. lost'[a] # 0 /\ (agent[a].appended => agent'[a].appended)
      BY <1>0, <2>1, <2>2
    <3>2. ~Open(a)'
      BY <3>1 DEF Open
    <3>3. Bound(a)' => Bound(a)
      BY <3>1 DEF Bound
    <3>. QED
      BY <2>1, <2>2, <3>1, <3>2, <3>3
  <2>3. CASE a # b
    <3>1. agent'[a] = agent[a] /\ lost'[a] = lost[a]
      BY <1>0, <2>1, <2>3 DEF Others
    <3>. QED
      BY <3>1 DEF Bound, Open
  <2>. QED
    BY <2>2, <2>3
<1>4. ASSUME NEW b \in Agent, NEW advice \in Advice, Heed(b, advice)
      PROVE  (Bound(a)' => Bound(a)) /\ (Open(a)' => Open(a)) /\ lost' = lost
             /\ (agent[a].appended => agent'[a].appended)
  <2>1. /\ Others(b) /\ agent[b].pc = "told" /\ lost' = lost
        /\ agent'[b].appended = agent[b].appended
        /\ advice = "stop" => agent'[b].pc = "done"
    BY <1>4, HeedDoes DEF Heed
  <2>2. agent[b].wrote => advice = "stop"
    <3>1. agent[b].wrote => agent[b].code \in {"ok", "external_source_write_landed"}
      BY DEF Honest, Wrote
    <3>. QED
      BY <1>4, <3>1, HeedDoes DEF UpdateDocAnswer, ConflictResult
  <2>. QED
    BY <2>1, <2>2 DEF Others, Bound, Open
<1>5. ASSUME Idle, lost' = lost
      PROVE  (Bound(a)' => Bound(a)) /\ (Open(a)' => Open(a))
             /\ (agent[a].appended => agent'[a].appended)
  <2>1. agent'[a] = agent[a] /\ lost'[a] = lost[a]
    BY <1>5 DEF Idle
  <2>. QED
    BY <2>1 DEF Bound, Open
<1>6. lost' = lost \/ \E b \in Agent : TimeOut(b)
  <2>1. \A b \in Agent : Resolve(b) \/ GetDoc(b) \/ Patch(b) => lost' = lost
    BY DEF Resolve, GetDoc, Patch
  <2>2. \A b \in Agent, advice \in Advice :
          Heed(b, advice) => lost' = lost
    BY DEF Heed
  <2>3. \A r \in late : Land(r) => lost' = lost
    BY DEF Land
  <2>4. \A d \in Doc : Edit(d) \/ EditOrigin(d) \/ Elapse(d) \/ (\E p \in Path : Move(d, p))
                         => lost' = lost
    BY DEF Edit, EditOrigin, Elapse, Move
  <2>5. UNCHANGED vars => lost' = lost
    BY DEF vars
  <2>. QED
    BY <2>1, <2>2, <2>3, <2>4, <2>5, WhoseStep
<1>7. ASSUME lost' = lost PROVE lost[a] > 0 => lost'[a] > 0
  BY <1>7
<1>8. ASSUME UNCHANGED vars PROVE Idle /\ lost' = lost
  BY <1>8 DEF Idle, vars
<1>9. CASE \E b \in Agent : TimeOut(b)
  BY <1>3, <1>9
<1>10. CASE lost' = lost
  <2>1. \/ \E b \in Agent : \/ Resolve(b) \/ GetDoc(b) \/ Patch(b) \/ TimeOut(b)
                            \/ \E advice \in Advice : Heed(b, advice)
        \/ Idle
    BY <1>8, WhoseStep
  <2>. QED
    BY <1>1, <1>2, <1>3, <1>4, <1>5, <1>7, <1>10, <2>1
<1>. QED
  BY <1>6, <1>9, <1>10

\* What an agent writes: to the document as it is, or to the text it has read.
LEMMA PatchFollows ==
  ASSUME TypeOK, OnceInv, NEW a \in Agent, Patch(a), Wrote(agent'[a].code)
  PROVE  Follows(Written(Payload(a)))
<1>1. /\ agent[a].pc \in {"write", "writing"} /\ agent'[a].pc = "told" /\ agent'[a].wrote
      /\ agent'[a].appended <=> agent[a].appended \/ agent[a].kind = "append"
      /\ Payload(a) \in Request /\ lost' = lost /\ lost \in [Agent -> Nat]
  BY PatchDoes DEF Patch, TypeOK
<1>2. ~Open(a)'
  BY <1>1 DEF Open
<1>3. agent[a].kind \in {"body", "append"} /\ Payload(a).kind = agent[a].kind
  BY DEF TypeOK, Actor, Kind, Payload
<1>4. CASE agent[a].kind = "append"
  <2>1. Payload(a).doc \in Doc
    BY <1>1 DEF Request
  <2>2. copy[Payload(a).doc].text \in Texts
    BY <2>1 DEF Texts
  <2>3. Written(Payload(a)) = Append(copy[Payload(a).doc].text, a)
    BY <1>3, <1>4 DEF Written, Payload
  <2>4. a \notin In(copy[Payload(a).doc].text) \/ ~Bound(a)'
    <3>1. CASE lost[a] = 0
      <4>1. Open(a)
        BY <1>1, <3>1 DEF Open, OnceInv, Honest, Wrote
      <4>. QED
        BY <2>2, <4>1 DEF OnceInv, Unwritten
    <3>2. CASE lost[a] # 0
      BY <1>1, <1>4, <3>2 DEF Bound
    <3>. QED
      BY <3>1, <3>2
  <2>. QED
    BY <1>2, <2>2, <2>3, <2>4 DEF Follows
<1>5. CASE agent[a].kind = "body"
  <2>1. Written(Payload(a)) = Append(agent[a].seen, a)
    BY <1>3, <1>5 DEF Written, Payload
  <2>2. agent[a].seen \in Texts /\ a \notin In(agent[a].seen)
    BY <1>1, <1>5 DEF Texts, OnceInv, SeenWithout
  <2>. QED
    BY <1>2, <2>1, <2>2 DEF Follows
<1>. QED
  BY <1>3, <1>4, <1>5

\* And so for a write that lands late.
LEMMA LateFollows ==
  ASSUME TypeOK, OnceInv, NEW r \in late, Land(r)
  PROVE  Follows(Written(r))
<1>1. r \in Request /\ r.by \in Agent /\ r.doc \in Doc /\ r.kind \in {"body", "append"}
  BY DEF TypeOK, Request, Kind
<1>2. lost[r.by] > 0 /\ (r.kind = "append" => agent[r.by].appended)
  BY DEF OnceInv, LateOf
<1>3. lost' = lost /\ agent' = agent /\ lost[r.by] \in Nat
  BY <1>1 DEF Land, TypeOK
<1>4. CASE r.kind = "body"
  BY <1>4 DEF Written, Texts, Follows
<1>5. CASE r.kind = "append"
  <2>1. Written(r) = Append(copy[r.doc].text, r.by) /\ copy[r.doc].text \in Texts
    BY <1>1, <1>5 DEF Written, Texts
  <2>2. lost'[r.by] # 0 /\ agent'[r.by].appended
    BY <1>2, <1>3, <1>5
  <2>3. ~Bound(r.by)' /\ ~Open(r.by)'
    BY <2>2 DEF Bound, Open
  <2>. QED
    BY <1>1, <2>1, <2>3 DEF Follows
<1>. QED
  BY <1>1, <1>4, <1>5

LEMMA TextsFollow ==
  ASSUME TypeOK, OnceInv, [Next]_vars
  PROVE  \A t \in Texts' : Follows(t)
<1>0. /\ \A d \in Doc : Follows(copy[d].text) /\ Follows(origin[d].text)
      /\ \A a \in Agent : Follows(agent[a].seen)
      /\ \A r \in late : r.kind = "body" => Follows(r.text)
  BY TextsStay
<1>a. ASSUME UNCHANGED <<copy, origin>>
      PROVE  \A d \in Doc : Follows(copy'[d].text) /\ Follows(origin'[d].text)
  BY <1>0, <1>a
<1>b. ASSUME NEW a \in Agent, Others(a), SameRead(a)
      PROVE  \A b \in Agent : Follows(agent'[b].seen)
  BY <1>0, <1>b DEF Others, SameRead
<1>c. ASSUME agent' = agent
      PROVE  \A b \in Agent : Follows(agent'[b].seen)
  BY <1>0, <1>c
<1>d. ASSUME late' \subseteq late
      PROVE  \A r \in late' : r.kind = "body" => Follows(r.text)
  BY <1>0, <1>d
<1>1. ASSUME NEW a \in Agent, Resolve(a)
      PROVE  \A t \in Texts' : Follows(t)
  <2>1. Others(a) /\ SameRead(a) /\ UNCHANGED <<copy, origin, late>>
    BY <1>1, ResolveDoes DEF Resolve, meshVars
  <2>. QED
    BY <1>a, <1>b, <1>d, <2>1, TextsAfter
<1>2. ASSUME NEW a \in Agent, GetDoc(a)
      PROVE  \A t \in Texts' : Follows(t)
  <2>1. Target(a) \in Doc /\ Others(a) /\ agent'[a].seen = Opened(Target(a)).text
    BY <1>2, GetDocDoes
  <2>2. Follows(Opened(Target(a)).text)
    BY <1>0, <2>1 DEF Opened
  <2>3. \A b \in Agent : Follows(agent'[b].seen)
    BY <1>0, <2>1, <2>2 DEF Others
  <2>4. origin' = origin /\ late' = late /\ copy' = [copy EXCEPT ![Target(a)] = Opened(Target(a))]
    BY <1>2 DEF GetDoc
  <2>5. \A d \in Doc : copy'[d] = copy[d] \/ copy'[d] = Opened(Target(a))
    BY <2>4 DEF TypeOK
  <2>6. \A d \in Doc : Follows(copy'[d].text) /\ Follows(origin'[d].text)
    BY <1>0, <2>2, <2>4, <2>5
  <2>. QED
    BY <1>d, <2>3, <2>4, <2>6, TextsAfter
<1>3. ASSUME NEW a \in Agent, Patch(a)
      PROVE  \A t \in Texts' : Follows(t)
  <2>1. /\ Others(a) /\ SameRead(a) /\ Payload(a) \in Request /\ agent'[a].code \in Code
        /\ Handle(Payload(a), agent'[a].code) /\ late' = late
    BY <1>3, PatchDoes DEF Patch
  <2>2. ASSUME NEW d \in Doc
        PROVE  Follows(copy'[d].text) /\ Follows(origin'[d].text)
    BY <1>0, <1>3, <2>1, HandleDoes, PatchFollows DEF Wrote
  <2>. QED
    BY <1>b, <1>d, <2>1, <2>2, TextsAfter
<1>4. ASSUME NEW a \in Agent, TimeOut(a)
      PROVE  \A t \in Texts' : Follows(t)
  <2>1. /\ Others(a) /\ SameRead(a) /\ agent[a].pc \in {"write", "writing"}
        /\ lost'[a] > 0 /\ late' = late \cup {Payload(a)} /\ UNCHANGED <<copy, origin>>
        /\ lost \in [Agent -> Nat] /\ lost' = [lost EXCEPT ![a] = @ + 1]
    BY <1>4, TimeOutDoes DEF TimeOut, meshVars
  <2>2. lost'[a] # 0
    BY <2>1
  <2>3. ~Open(a)'
    BY <2>2 DEF Open
  <2>4. Payload(a).kind = agent[a].kind /\ Payload(a).text = Append(agent[a].seen, a)
    BY DEF Payload
  <2>5. Payload(a).kind = "body" => Follows(Payload(a).text)
    <3>1. agent[a].kind = "body" => a \notin In(agent[a].seen)
      BY <2>1 DEF OnceInv, SeenWithout
    <3>2. agent[a].seen \in Texts
      BY DEF Texts
    <3>. QED
      BY <2>3, <2>4, <3>1, <3>2 DEF Follows
  <2>6. \A r \in late' : r.kind = "body" => Follows(r.text)
    BY <1>0, <2>1, <2>5
  <2>. QED
    BY <1>a, <1>b, <2>1, <2>6, TextsAfter
<1>5. ASSUME NEW r \in late, Land(r)
      PROVE  \A t \in Texts' : Follows(t)
  <2>1. PICK code \in Code : Handle(r, code)
    BY <1>5 DEF Land
  <2>2. r \in Request /\ agent' = agent /\ late' \subseteq late
    BY <1>5 DEF TypeOK, Land
  <2>3. ASSUME NEW d \in Doc
        PROVE  Follows(copy'[d].text) /\ Follows(origin'[d].text)
    BY <1>0, <1>5, <2>1, <2>2, HandleDoes, LateFollows
  <2>. QED
    BY <1>c, <1>d, <2>2, <2>3, TextsAfter
<1>6. ASSUME NEW a \in Agent, NEW advice \in Advice, Heed(a, advice)
      PROVE  \A t \in Texts' : Follows(t)
  <2>1. Others(a) /\ SameRead(a) /\ UNCHANGED <<copy, origin, late>>
    BY <1>6, HeedDoes DEF Heed, meshVars
  <2>. QED
    BY <1>a, <1>b, <1>d, <2>1, TextsAfter
<1>7. ASSUME NEW d \in Doc, Edit(d) \/ EditOrigin(d)
      PROVE  \A t \in Texts' : Follows(t)
  <2>1. agent' = agent /\ late' = late /\ others + 1 \in 1..MaxOthers
    BY <1>7, DocsAssumption DEF Edit, EditOrigin, TypeOK
  <2>2. copy[d].text \in Texts /\ origin[d].text \in Texts
    BY DEF Texts
  <2>3. /\ Follows(<<others + 1>>) /\ Follows(Append(copy[d].text, others + 1))
        /\ Follows(Append(origin[d].text, others + 1))
    BY <2>1, <2>2 DEF Follows
  <2>4. CASE Edit(d)
    <3>1. PICK text : /\ Follows(text) /\ origin' = origin
            /\ copy' = [copy EXCEPT ![d] = [version |-> copy[d].version + 1, text |-> text]]
      BY <2>3, <2>4 DEF Edit
    <3>2. \A e \in Doc : copy'[e] = copy[e] \/ copy'[e].text = text
      BY <3>1 DEF TypeOK
    <3>3. \A e \in Doc : Follows(copy'[e].text) /\ Follows(origin'[e].text)
      BY <1>0, <3>1, <3>2
    <3>. QED
      BY <1>c, <1>d, <2>1, <3>3, TextsAfter
  <2>5. CASE EditOrigin(d)
    <3>1. /\ copy' = copy
          /\ origin' = [origin EXCEPT ![d] = [rev |-> origin[d].rev + 1,
                                              text |-> Append(origin[d].text, others + 1)]]
      BY <2>5 DEF EditOrigin
    <3>2. \A e \in Doc : origin'[e] = origin[e] \/ origin'[e].text = Append(origin[d].text, others + 1)
      BY <3>1 DEF TypeOK
    <3>3. \A e \in Doc : Follows(copy'[e].text) /\ Follows(origin'[e].text)
      BY <1>0, <2>3, <3>1, <3>2
    <3>. QED
      BY <1>c, <1>d, <2>1, <3>3, TextsAfter
  <2>. QED
    BY <1>7, <2>4, <2>5
<1>8. ASSUME UNCHANGED <<copy, origin, agent, late>>
      PROVE  \A t \in Texts' : Follows(t)
  BY <1>a, <1>c, <1>d, <1>8, TextsAfter
<1>9. ASSUME NEW d \in Doc, Elapse(d) \/ \E p \in Path : Move(d, p)
      PROVE  UNCHANGED <<copy, origin, agent, late>>
  BY <1>9 DEF Elapse, Move
<1>10. ASSUME UNCHANGED vars
       PROVE  UNCHANGED <<copy, origin, agent, late>>
  BY <1>10 DEF vars, meshVars
<1>. QED
  BY <1>1, <1>2, <1>3, <1>4, <1>5, <1>6, <1>7, <1>8, <1>9, <1>10, WhoseStep

\* An agent writes over a text only when its change is not in it.
LEMMA SeenKept ==
  ASSUME TypeOK, SeenWithout, [Next]_vars
  PROVE  SeenWithout'
<1>1. ASSUME NEW a \in Agent, Others(a),
             agent'[a].kind = "body" /\ agent'[a].pc \in {"write", "writing"} =>
               a \notin In(agent'[a].seen)
      PROVE  SeenWithout'
  BY <1>1 DEF SeenWithout, Others
<1>2. ASSUME NEW a \in Agent, Resolve(a)
      PROVE  SeenWithout'
  BY <1>1, <1>2, ResolveDoes DEF SeenWithout, SameRead
<1>3. ASSUME NEW a \in Agent, GetDoc(a)
      PROVE  SeenWithout'
  BY <1>1, <1>3, GetDocDoes
<1>4. ASSUME NEW a \in Agent, Patch(a) \/ TimeOut(a)
      PROVE  SeenWithout'
  BY <1>1, <1>4, PatchDoes, TimeOutDoes
<1>5. ASSUME NEW a \in Agent, NEW advice \in Advice, Heed(a, advice)
      PROVE  SeenWithout'
  BY <1>1, <1>5, HeedDoes
<1>6. ASSUME UNCHANGED agent
      PROVE  SeenWithout'
  BY <1>6 DEF SeenWithout
<1>. QED
  BY <1>2, <1>3, <1>4, <1>5, <1>6, WhoseStep DEF Idle, vars

\* A write is late once its caller has given up, and until it lands.
LEMMA LateGrows ==
  ASSUME [Next]_vars
  PROVE  late' \subseteq late \/ \E a \in Agent : TimeOut(a) /\ late' = late \cup {Payload(a)}
<1>1. \A a \in Agent : Resolve(a) \/ GetDoc(a) \/ Patch(a) => late' = late
  BY DEF Resolve, GetDoc, Patch
<1>2. \A a \in Agent, advice \in Advice :
        Heed(a, advice) => late' = late
  BY DEF Heed
<1>3. \A r \in late : Land(r) => late' \subseteq late
  BY DEF Land
<1>4. \A d \in Doc : Edit(d) \/ EditOrigin(d) \/ Elapse(d) \/ (\E p \in Path : Move(d, p))
                       => late' = late
  BY DEF Edit, EditOrigin, Elapse, Move
<1>5. UNCHANGED vars => late' = late
  BY DEF vars
<1>6. \A a \in Agent : TimeOut(a) => late' = late \cup {Payload(a)}
  BY DEF TimeOut
<1>. QED
  BY <1>1, <1>2, <1>3, <1>4, <1>5, <1>6, WhoseStep

\* A write is late only after an answer of its agent was lost.
LEMMA LateOfKept ==
  ASSUME TypeOK, Honest, LateOf, [Next]_vars
  PROVE  LateOf'
<1>1. \A r \in late : r.by \in Agent
  BY DEF TypeOK, Request
<1>2. \A r \in late : lost'[r.by] > 0 /\ (r.kind = "append" => agent'[r.by].appended)
  BY <1>1, OpenKept DEF LateOf
<1>3. ASSUME late' \subseteq late
      PROVE  LateOf'
  BY <1>2, <1>3 DEF LateOf
<1>4. ASSUME NEW a \in Agent, TimeOut(a)
      PROVE  LateOf'
  <2>1. late' = late \cup {Payload(a)} /\ lost'[a] > 0
        /\ (agent[a].kind = "append" => agent'[a].appended)
    BY <1>4, TimeOutDoes DEF TimeOut
  <2>2. Payload(a).by = a /\ Payload(a).kind = agent[a].kind
    BY DEF Payload
  <2>. QED
    BY <1>2, <2>1, <2>2 DEF LateOf
<1>5. late' \subseteq late \/ \E a \in Agent : TimeOut(a)
  BY LateGrows
<1>. QED
  BY <1>3, <1>4, <1>5

LEMMA InitOnce == Init => OnceInv
<1> SUFFICES ASSUME Init
             PROVE  OnceInv
  OBVIOUS
<1>1. \A d \in Doc : copy[d].text = <<d>> /\ origin[d].text = <<d>>
  BY DEF Init
<1>2. \A a \in Agent : agent[a].seen = <<>> /\ agent[a].pc \in {"read", "write"}
                       /\ (agent[a].pc = "read" <=> agent[a].kind = "body")
  BY DEF Init
<1>3. late = {}
  BY DEF Init
<1>4. \A t \in Texts : t = <<>> \/ \E d \in Doc : t = <<d>>
  BY <1>1, <1>2, <1>3 DEF Texts
<1>5. Doc \subseteq Change /\ \A a \in Agent : a \notin Doc
  BY DocsAssumption DEF Change
<1>6. Singles
  BY <1>4, <1>5, Single1, NoText DEF Singles, Single
<1>7. Unwritten
  BY <1>4, <1>5, Single1, NoText DEF Unwritten
<1>8. SeenWithout /\ LateOf
  BY <1>2, <1>3 DEF SeenWithout, LateOf
<1>. QED
  BY <1>6, <1>7, <1>8, InitHonest DEF OnceInv

LEMMA NextOnce == TypeOK /\ OnceInv /\ [Next]_vars => OnceInv'
<1> SUFFICES ASSUME TypeOK, OnceInv, [Next]_vars
             PROVE  OnceInv'
  OBVIOUS
<1>1. Honest /\ Singles /\ Unwritten /\ SeenWithout /\ LateOf
  BY DEF OnceInv
<1>2. Honest' /\ SeenWithout' /\ LateOf'
  BY <1>1, NextHonest, SeenKept, LateOfKept
<1>3. Singles' /\ Unwritten'
  BY <1>1, TextsFollow, OpenKept, OnceKept
<1>. QED
  BY <1>2, <1>3 DEF OnceInv

\* However writes, edits, refreshes and lost answers fall, an agent that
\* follows the advice of update_doc has its change in a text at most once, in
\* Mesh and on Team Relay; only an append whose answer was lost is doubled.
THEOREM WrittenOnceHolds == Spec => []WrittenOnce
<1>1. Init => TypeOK /\ OnceInv
  BY InitType, InitOnce
<1>2. TypeOK /\ OnceInv /\ [Next]_vars => (TypeOK /\ OnceInv)'
  BY NextType, NextOnce
<1>3. OnceInv => WrittenOnce
  <2> SUFFICES ASSUME OnceInv, NEW a \in Agent, NEW d \in Doc,
                      agent[a].appended => lost[a] = 0
               PROVE  Once(Times(a, copy[d].text)) /\ Once(Times(a, origin[d].text))
    BY DEF WrittenOnce
  <2>1. copy[d].text \in Texts /\ origin[d].text \in Texts
    BY DEF Texts
  <2>. QED
    BY <2>1 DEF OnceInv, Singles, Single, Bound
<1>. QED
  BY <1>1, <1>2, <1>3, PTL DEF Spec

-----------------------------------------------------------------------------
(***************************************************************************)
(* Nothing is overwritten that was not read.                               *)
(***************************************************************************)
LEMMA HoldsAppend ==
  ASSUME NEW t \in Seq(Change), NEW x \in Change
  PROVE  Holds(t, Append(t, x))
BY InAppend DEF Holds

\* Versions only grow, and a text never changes under the same version.
LEMMA VersionsGrow ==
  ASSUME TypeOK, [Next]_vars, NEW d \in Doc
  PROVE  copy'[d] = copy[d] \/ copy'[d].version = copy[d].version + 1
<1>0. copy \in [Doc -> [version: Nat, text: Seq(Change)]]
  BY DEF TypeOK
<1>1. ASSUME NEW a \in Agent, GetDoc(a)
      PROVE  copy'[d] = copy[d] \/ copy'[d].version = copy[d].version + 1
  <2>1. copy' = [copy EXCEPT ![Target(a)] = Opened(Target(a))]
    BY <1>1 DEF GetDoc
  <2>2. \A e \in Doc : Opened(e) = copy[e] \/ Opened(e).version = copy[e].version + 1
    BY DEF Opened
  <2>. QED
    BY <1>0, <2>1, <2>2
<1>2. ASSUME NEW a \in Agent, Patch(a)
      PROVE  copy'[d] = copy[d] \/ copy'[d].version = copy[d].version + 1
  BY <1>2, PatchDoes, HandleDoes
<1>3. ASSUME NEW r \in late, Land(r)
      PROVE  copy'[d] = copy[d] \/ copy'[d].version = copy[d].version + 1
  <2>1. r \in Request /\ \E code \in Code : Handle(r, code)
    BY <1>3 DEF TypeOK, Land
  <2>. QED
    BY <2>1, HandleDoes
<1>4. ASSUME NEW e \in Doc, Edit(e)
      PROVE  copy'[d] = copy[d] \/ copy'[d].version = copy[d].version + 1
  <2>1. PICK text : copy' = [copy EXCEPT ![e] = [version |-> copy[e].version + 1, text |-> text]]
    BY <1>4 DEF Edit
  <2>. QED
    BY <1>0, <2>1
<1>5. ASSUME copy' = copy
      PROVE  copy'[d] = copy[d]
  BY <1>5
<1>6. \A a \in Agent : Resolve(a) \/ TimeOut(a) => copy' = copy
  BY DEF Resolve, TimeOut, meshVars
<1>7. \A a \in Agent, advice \in Advice :
        Heed(a, advice) => copy' = copy
  BY DEF Heed, meshVars
<1>8. \A e \in Doc : EditOrigin(e) \/ Elapse(e) \/ (\E p \in Path : Move(e, p)) => copy' = copy
  BY DEF EditOrigin, Elapse, Move
<1>9. UNCHANGED vars => copy' = copy
  BY DEF vars, meshVars
<1>. QED
  BY <1>1, <1>2, <1>3, <1>4, <1>5, <1>6, <1>7, <1>8, <1>9, WhoseStep

\* Nobody is given another name.
LEMMA NamesStay ==
  ASSUME TypeOK, [Next]_vars, NEW a \in Agent
  PROVE  agent'[a].ref = agent[a].ref
<1>1. ASSUME NEW b \in Agent, Others(b), SameName(b)
      PROVE  agent'[a].ref = agent[a].ref
  BY <1>1 DEF Others, SameName
<1>2. \A b \in Agent : Resolve(b) \/ GetDoc(b) \/ Patch(b) \/ TimeOut(b) => Others(b) /\ SameName(b)
  BY ResolveDoes, GetDocDoes, PatchDoes, TimeOutDoes
<1>3. \A b \in Agent, advice \in Advice :
        Heed(b, advice) => Others(b) /\ SameName(b)
  BY HeedDoes
<1>. QED
  BY <1>1, <1>2, <1>3, WhoseStep DEF Idle, vars

\* What an agent remembers of a version, one step later.
LEMMA StillCurrent ==
  ASSUME TypeOK, [Next]_vars, NEW d \in Doc, NEW n \in Nat, n <= copy[d].version
  PROVE  n <= copy'[d].version /\ (n = copy'[d].version => n = copy[d].version /\ copy'[d] = copy[d])
<1>1. copy[d].version \in Nat
  BY DEF TypeOK
<1>2. CASE copy'[d] = copy[d]
  BY <1>2
<1>3. CASE copy'[d].version = copy[d].version + 1
  BY <1>1, <1>3
<1>. QED
  BY <1>2, <1>3, VersionsGrow

LEMMA CurrentKept ==
  ASSUME TypeOK, Current, [Next]_vars
  PROVE  Current'
<1> DEFINE Knows(a) == LET d == agent[a].from
                       IN d \in Doc =>
                            /\ agent[a].base <= copy[d].version
                            /\ agent[a].base = copy[d].version => agent[a].seen = copy[d].text
<1>0. \A a \in Agent : agent[a].base \in Nat
  BY DEF TypeOK, Actor
<1>1. ASSUME NEW a \in Agent, agent'[a].from = agent[a].from, agent'[a].base = agent[a].base,
             agent'[a].seen = agent[a].seen
      PROVE  Knows(a)'
  BY <1>0, <1>1, StillCurrent DEF Current
<1>2. ASSUME NEW a \in Agent, GetDoc(a)
      PROVE  Knows(a)'
  <2>1. copy' = [copy EXCEPT ![Target(a)] = Opened(Target(a))] /\ copy \in [Doc -> [version: Nat, text: Seq(Change)]]
    BY <1>2 DEF GetDoc, TypeOK
  <2>2. /\ Target(a) \in Doc /\ agent'[a].from = Target(a)
        /\ agent'[a].seen = Opened(Target(a)).text /\ agent'[a].base = Opened(Target(a)).version
    BY <1>2, GetDocDoes
  <2>3. copy'[Target(a)] = Opened(Target(a))
    BY <2>1, <2>2
  <2>4. Opened(Target(a)).version \in Nat
    BY <2>2 DEF Opened, TypeOK
  <2>. QED
    BY <2>2, <2>3, <2>4
<1>3. ASSUME NEW b \in Agent, Others(b), SameRead(b) \/ GetDoc(b)
      PROVE  \A a \in Agent : Knows(a)'
  <2> SUFFICES ASSUME NEW a \in Agent PROVE Knows(a)'
    OBVIOUS
  <2>1. CASE a = b
    BY <1>1, <1>2, <1>3, <2>1 DEF SameRead
  <2>2. CASE a # b
    BY <1>1, <1>3, <2>2 DEF Others
  <2>. QED
    BY <2>1, <2>2
<1>4. ASSUME agent' = agent
      PROVE  \A a \in Agent : Knows(a)'
  BY <1>1, <1>4
<1> HIDE DEF Knows
<1>5. \A b \in Agent : Resolve(b) \/ GetDoc(b) \/ Patch(b) \/ TimeOut(b) =>
        Others(b) /\ (SameRead(b) \/ GetDoc(b))
  BY ResolveDoes, GetDocDoes, PatchDoes, TimeOutDoes
<1>6. \A b \in Agent, advice \in Advice :
        Heed(b, advice) => Others(b) /\ SameRead(b)
  BY HeedDoes
<1>7. UNCHANGED vars => agent' = agent
  BY DEF vars
<1>8. \A a \in Agent : Knows(a)'
  BY <1>3, <1>4, <1>5, <1>6, <1>7, WhoseStep DEF Idle
<1>. QED
  BY <1>8 DEF Current, Knows

LEMMA FromKept ==
  ASSUME TypeOK, FromOwn, ReadFirst, [Next]_vars
  PROVE  FromOwn' /\ ReadFirst'
<1> DEFINE Own(a)   == agent[a].ref \in Doc => agent[a].from \in {NoDoc, agent[a].ref}
           First(a) == agent[a].kind = "body" /\ agent[a].pc \in {"write", "writing"} =>
                         agent[a].from \in Doc
<1>0. \A a \in Agent : Own(a) /\ First(a)
  BY DEF FromOwn, ReadFirst
<1>1. ASSUME NEW b \in Agent, Others(b), Own(b)', First(b)'
      PROVE  \A a \in Agent : Own(a)' /\ First(a)'
  BY <1>0, <1>1 DEF Others
<1>2. ASSUME NEW b \in Agent, Resolve(b)
      PROVE  Own(b)' /\ First(b)'
  BY <1>0, <1>2, ResolveDoes DEF SameRead, SameName
<1>3. ASSUME NEW b \in Agent, GetDoc(b)
      PROVE  Own(b)' /\ First(b)'
  <2>1. agent'[b].from = Target(b) /\ Target(b) \in Doc /\ agent'[b].ref = agent[b].ref
    BY <1>3, GetDocDoes DEF SameName
  <2>. QED
    BY <2>1 DEF Target
<1>4. ASSUME NEW b \in Agent, Patch(b) \/ TimeOut(b)
      PROVE  Own(b)' /\ First(b)'
  BY <1>0, <1>4, PatchDoes, TimeOutDoes DEF SameRead, SameName
<1>5. ASSUME NEW b \in Agent, NEW advice \in Advice, Heed(b, advice)
      PROVE  Own(b)' /\ First(b)'
  BY <1>0, <1>5, HeedDoes DEF SameRead, SameName
<1>6. ASSUME agent' = agent
      PROVE  \A a \in Agent : Own(a)' /\ First(a)'
  BY <1>0, <1>6
<1> HIDE DEF Own, First
<1>7. \A b \in Agent : Resolve(b) \/ GetDoc(b) \/ Patch(b) \/ TimeOut(b) => Others(b)
  BY ResolveDoes, GetDocDoes, PatchDoes, TimeOutDoes
<1>8. \A b \in Agent, advice \in Advice :
        Heed(b, advice) => Others(b)
  BY HeedDoes
<1>9. \A a \in Agent : Own(a)' /\ First(a)'
  BY <1>1, <1>2, <1>3, <1>4, <1>5, <1>6, <1>7, <1>8, WhoseStep DEF Idle, vars
<1>. QED
  BY <1>9 DEF FromOwn, ReadFirst, Own, First

\* What an agent sends: an append, or a replacement made from the text it
\* read; if it read the document it writes to, that is the text of its base.
LEMMA SentWhole ==
  ASSUME TypeOK, Current, ReadFirst, NEW a \in Agent, Ready(a, "write", "writing"),
         agent[a].from = Target(a)
  PROVE  LET r == Payload(a)
         IN r.kind = "body" =>
              /\ r.versioned
              /\ r.base <= copy[r.doc].version
              /\ r.base = copy[r.doc].version => Holds(copy[r.doc].text, r.text)
<1>1. Target(a) \in Doc /\ agent[a].seen \in Seq(Change) /\ a \in Change
  BY PayloadType DEF TypeOK, Actor, Change
<1>2. /\ agent[a].base <= copy[Target(a)].version
      /\ agent[a].base = copy[Target(a)].version => agent[a].seen = copy[Target(a)].text
  BY <1>1 DEF Current
<1>3. Holds(agent[a].seen, Append(agent[a].seen, a))
  BY <1>1, HoldsAppend
<1>. QED
  BY <1>2, <1>3 DEF Payload

\* An agent that goes by uuid has read the document it writes over.
LEMMA OwnDocument ==
  ASSUME TypeOK, FromOwn, ReadFirst, NEW a \in Agent, Ready(a, "write", "writing"),
         ~ByPath(a), agent[a].kind = "body"
  PROVE  agent[a].from = Target(a)
<1>1. agent[a].ref \in Doc /\ agent[a].pc \in {"write", "writing"}
  BY DEF TypeOK, Actor, ByPath, Ready
<1>. QED
  BY <1>1, DocsAssumption DEF FromOwn, ReadFirst, Target

LEMMA LateCurrentKept ==
  ASSUME TypeOK, ReadInv, [Next]_vars
  PROVE  LateCurrent'
<1> DEFINE Sound(r) == ~ByPath(r.by) /\ r.kind = "body" =>
             /\ r.versioned
             /\ r.base <= copy[r.doc].version
             /\ r.base = copy[r.doc].version => Holds(copy[r.doc].text, r.text)
<1>1. ASSUME NEW r \in Request, Sound(r)
      PROVE  Sound(r)'
  <2>1. r.by \in Agent /\ r.doc \in Doc /\ r.base \in Nat
    BY DEF Request
  <2>2. ByPath(r.by)' <=> ByPath(r.by)
    BY <2>1, NamesStay DEF ByPath
  <2>. QED
    BY <1>1, <2>1, <2>2, StillCurrent
<1>2. \A r \in late : r \in Request /\ Sound(r)
  BY DEF TypeOK, ReadInv, LateCurrent
<1>3. \A a \in Agent : TimeOut(a) => Payload(a) \in Request /\ Sound(Payload(a))
  <2> SUFFICES ASSUME NEW a \in Agent, TimeOut(a)
               PROVE  Payload(a) \in Request /\ Sound(Payload(a))
    OBVIOUS
  <2>1. Ready(a, "write", "writing") /\ Payload(a) \in Request
    BY TimeOutDoes DEF TimeOut
  <2>2. Payload(a).by = a /\ Payload(a).kind = agent[a].kind
    BY DEF Payload
  <2>. QED
    BY <2>1, <2>2, SentWhole, OwnDocument DEF ReadInv
<1> HIDE DEF Sound
<1>4. late' \subseteq late \/ \E a \in Agent : TimeOut(a) /\ late' = late \cup {Payload(a)}
  BY LateGrows
<1>5. \A r \in late' : Sound(r)'
  BY <1>1, <1>2, <1>3, <1>4
<1>. QED
  BY <1>5 DEF LateCurrent, Sound

\* What is written holds what was there, unless its agent goes by a path and
\* has read another document.
LEMMA PatchHolds ==
  ASSUME TypeOK, ReadInv, NEW a \in Agent, Patch(a), Wrote(agent'[a].code)
  PROVE  LET r == Payload(a)
         IN \/ Holds(copy[r.doc].text, Written(r))
            \/ ByPath(a) /\ agent[a].from # r.doc
<1> DEFINE r == Payload(a)
<1>1. /\ r \in Request /\ r.doc = Target(a) /\ r.kind = agent[a].kind /\ r.by = a
      /\ agent'[a].code \in Answers(r) /\ Ready(a, "write", "writing")
  BY PatchDoes DEF Handle, Payload, Patch
<1>2. copy[r.doc].text \in Seq(Change) /\ a \in Change /\ r.kind \in {"body", "append"}
  BY <1>1 DEF TypeOK, Request, Change, Kind
<1>3. ~(r.versioned /\ r.base # copy[r.doc].version)
  BY <1>1 DEF Answers, Wrote
<1>4. CASE r.kind = "append"
  BY <1>1, <1>2, <1>4, HoldsAppend DEF Written
<1>5. CASE r.kind = "body"
  <2>1. CASE agent[a].from = r.doc
    BY <1>1, <1>3, <1>5, <2>1, SentWhole DEF Written, ReadInv
  <2>2. CASE agent[a].from # r.doc
    BY <1>1, <1>5, <2>2, OwnDocument DEF ReadInv
  <2>. QED
    BY <2>1, <2>2
<1>. QED
  BY <1>2, <1>4, <1>5

LEMMA LandHolds ==
  ASSUME TypeOK, ReadInv, NEW r \in late, NEW code \in Code, Handle(r, code), Wrote(code)
  PROVE  Holds(copy[r.doc].text, Written(r)) \/ ByPath(r.by)
<1>1. r \in Request /\ r.doc \in Doc /\ r.by \in Change /\ r.kind \in {"body", "append"}
  BY DEF TypeOK, Request, Change, Kind
<1>2. ~(r.versioned /\ r.base # copy[r.doc].version)
  BY DEF Handle, Answers, Wrote
<1>3. CASE r.kind = "append"
  BY <1>1, <1>3, HoldsAppend DEF Written, TypeOK
<1>4. CASE r.kind = "body"
  BY <1>2, <1>4 DEF Written, ReadInv, LateCurrent
<1>. QED
  BY <1>1, <1>3, <1>4

\* An agent that has replaced what it had not read is done with it.
LEMMA AstrayStays ==
  ASSUME TypeOK, Honest, [Next]_vars, NEW a \in Agent, NEW d \in Doc, Astray(a, d)
  PROVE  Astray(a, d)'
<1>1. ByPath(a) /\ ByPath(a)'
  BY NamesStay DEF Astray, ByPath
<1>2. CASE lost[a] > 0
  BY <1>1, <1>2, OpenKept DEF Astray
<1>3. CASE agent[a].from # d /\ (agent[a].pc = "done" \/ agent[a].wrote)
  <2>1. agent[a].pc \in {"done", "told"} /\ (agent[a].wrote => agent[a].pc = "told")
    BY <1>3 DEF Honest, Wrote
  <2>2. ASSUME NEW b \in Agent, Others(b), b = a => agent'[a] = agent[a]
        PROVE  agent'[a] = agent[a]
    BY <2>2 DEF Others
  <2>3. \A b \in Agent : Resolve(b) \/ GetDoc(b) \/ Patch(b) \/ TimeOut(b) => Others(b) /\ b # a
    BY <2>1, ResolveDoes, GetDocDoes, PatchDoes, TimeOutDoes
  <2>4. ASSUME NEW b \in Agent, NEW advice \in Advice, Heed(b, advice)
        PROVE  agent'[a] = agent[a] \/ (agent'[a].pc = "done" /\ agent'[a].from = agent[a].from)
    <3>1. CASE b # a
      BY <2>4, <3>1, HeedDoes DEF Others
    <3>2. CASE b = a
      <4>1. agent[a].code \in {"ok", "external_source_write_landed"}
        BY <1>3, <2>4, <3>2, HeedDoes DEF Honest, Wrote
      <4>2. advice = "stop"
        BY <2>4, <3>2, <4>1, HeedDoes DEF UpdateDocAnswer, ConflictResult
      <4>. QED
        BY <2>4, <3>2, <4>2, HeedDoes DEF SameRead
    <3>. QED
      BY <3>1, <3>2
  <2>5. agent'[a] = agent[a] \/ (agent'[a].pc = "done" /\ agent'[a].from = agent[a].from)
    BY <2>2, <2>3, <2>4, WhoseStep DEF Idle, vars
  <2>. QED
    BY <1>1, <1>3, <2>5 DEF Astray
<1>. QED
  BY <1>2, <1>3 DEF Astray

\* A write to a copy goes to the original first.
LEMMA HandleRelayed ==
  ASSUME TypeOK, NEW r \in Request, NEW code \in Code, Handle(r, code), NEW d \in Relayed
  PROVE  \/ copy'[d] = copy[d] /\ origin'[d] = origin[d]
         \/ /\ Wrote(code) /\ d = r.doc /\ origin'[d].text = Written(r)
            /\ copy'[d] = copy[d] \/ copy'[d].text = Written(r)
<1>0. d \in Doc
  BY DocsAssumption
<1>1. CASE d = r.doc /\ Wrote(code)
  <2> DEFINE t == Written(r)
  <2>1. origin' = [origin EXCEPT ![d] = [rev |-> origin[d].rev + 1, text |-> t]]
    BY <1>1 DEF Handle
  <2> HIDE DEF t
  <2>2. origin'[d].text = t
    BY <1>0, <2>1 DEF TypeOK
  <2>. QED
    BY <1>0, <1>1, <2>2, HandleDoes DEF t
<1>2. CASE d # r.doc \/ ~Wrote(code)
  BY <1>0, <1>2, HandleDoes DEF Wrote
<1>. QED
  BY <1>1, <1>2

LEMMA KeptKept ==
  ASSUME TypeOK, Honest, LateOf, ReadInv, [Next]_vars
  PROVE  Kept'
<1> SUFFICES ASSUME NEW d \in Relayed, ~(\E a \in Agent : Astray(a, d)')
             PROVE  Holds(copy'[d].text, origin'[d].text)
  BY DEF Kept
<1>0. d \in Doc /\ copy[d].text \in Seq(Change) /\ origin[d].text \in Seq(Change)
  BY DocsAssumption DEF TypeOK
<1>1. Holds(copy[d].text, origin[d].text)
  BY <1>0, AstrayStays DEF ReadInv, Kept
<1>2. ASSUME UNCHANGED <<copy, origin>>
      PROVE  Holds(copy'[d].text, origin'[d].text)
  BY <1>1, <1>2
<1>3. ASSUME NEW a \in Agent, GetDoc(a)
      PROVE  Holds(copy'[d].text, origin'[d].text)
  <2>1. /\ origin' = origin /\ copy' = [copy EXCEPT ![Target(a)] = Opened(Target(a))]
        /\ copy \in [Doc -> [version: Nat, text: Seq(Change)]]
    BY <1>3 DEF GetDoc, TypeOK
  <2>2. copy'[d] = copy[d] \/ copy'[d] = Opened(d)
    BY <1>0, <2>1
  <2>3. Opened(d).text = copy[d].text \/ Opened(d).text = origin[d].text
    BY DEF Opened
  <2>4. Holds(origin[d].text, origin[d].text)
    BY DEF Holds
  <2>. QED
    BY <1>1, <2>1, <2>2, <2>3, <2>4
<1>4. ASSUME NEW r \in Request, NEW code \in Code, Handle(r, code),
             Wrote(code) /\ d = r.doc => Holds(copy[d].text, Written(r))
      PROVE  Holds(copy'[d].text, origin'[d].text)
  <2>1. CASE copy'[d] = copy[d] /\ origin'[d] = origin[d]
    BY <1>1, <2>1
  <2>2. CASE /\ Wrote(code) /\ d = r.doc /\ origin'[d].text = Written(r)
             /\ copy'[d] = copy[d] \/ copy'[d].text = Written(r)
    BY <1>4, <2>2 DEF Holds
  <2>. QED
    BY <1>4, <2>1, <2>2, HandleRelayed
<1>5. ASSUME NEW a \in Agent, Patch(a)
      PROVE  Holds(copy'[d].text, origin'[d].text)
  <2>1. /\ Payload(a) \in Request /\ agent'[a].code \in Code
        /\ Handle(Payload(a), agent'[a].code)
        /\ agent'[a].wrote <=> Wrote(agent'[a].code)
        /\ agent'[a].from = agent[a].from /\ agent'[a].ref = agent[a].ref
    BY <1>5, PatchDoes DEF SameRead, SameName
  <2>2. ASSUME Wrote(agent'[a].code), d = Payload(a).doc
        PROVE  Holds(copy[d].text, Written(Payload(a)))
    <3>1. ByPath(a) /\ agent[a].from # d => Astray(a, d)'
      BY <2>1, <2>2 DEF ByPath, Astray
    <3>. QED
      BY <1>5, <2>2, <3>1, PatchHolds
  <2>. QED
    BY <1>4, <2>1, <2>2
<1>6. ASSUME NEW r \in late, Land(r)
      PROVE  Holds(copy'[d].text, origin'[d].text)
  <2>1. PICK code \in Code : Handle(r, code)
    BY <1>6 DEF Land
  <2>2. r \in Request /\ r.by \in Agent /\ lost'[r.by] > 0 /\ agent' = agent
    BY <1>6 DEF TypeOK, Request, Land, LateOf
  <2>3. ASSUME Wrote(code), d = r.doc
        PROVE  Holds(copy[d].text, Written(r))
    <3>1. ByPath(r.by) => Astray(r.by, d)'
      BY <2>2 DEF ByPath, Astray
    <3>. QED
      BY <2>1, <2>2, <2>3, <3>1, LandHolds
  <2>. QED
    BY <1>4, <2>1, <2>2, <2>3
<1>7. ASSUME NEW e \in Doc, Edit(e)
      PROVE  Holds(copy'[d].text, origin'[d].text)
  <2>1. PICK page : copy' = [copy EXCEPT ![e] = page] /\ origin' = origin /\ e # d
    BY <1>7 DEF Edit
  <2>2. copy'[d] = copy[d]
    BY <1>0, <2>1 DEF TypeOK
  <2>. QED
    BY <1>1, <2>1, <2>2
<1>8. ASSUME NEW e \in Doc, EditOrigin(e)
      PROVE  Holds(copy'[d].text, origin'[d].text)
  <2>1. /\ copy' = copy
        /\ origin' = [origin EXCEPT ![e] = [rev |-> origin[e].rev + 1,
                                            text |-> Append(origin[e].text, others + 1)]]
    BY <1>8 DEF EditOrigin
  <2>2. origin'[d] = origin[d] \/ origin'[d].text = Append(origin[d].text, others + 1)
    BY <1>0, <2>1 DEF TypeOK
  <2>3. others + 1 \in Change
    BY <1>8, DocsAssumption DEF EditOrigin, TypeOK, Change
  <2>4. Holds(origin[d].text, Append(origin[d].text, others + 1))
    BY <1>0, <2>3, HoldsAppend
  <2>. QED
    BY <1>1, <2>1, <2>2, <2>4 DEF Holds
<1>9. \A a \in Agent : Resolve(a) \/ TimeOut(a) => UNCHANGED <<copy, origin>>
  BY DEF Resolve, TimeOut, meshVars
<1>10. \A a \in Agent, advice \in Advice :
         Heed(a, advice) => UNCHANGED <<copy, origin>>
  BY DEF Heed, meshVars
<1>11. \A e \in Doc : Elapse(e) \/ (\E p \in Path : Move(e, p)) => UNCHANGED <<copy, origin>>
  BY DEF Elapse, Move
<1>12. UNCHANGED vars => UNCHANGED <<copy, origin>>
  BY DEF vars, meshVars
<1>. QED
  BY <1>2, <1>3, <1>5, <1>6, <1>7, <1>8, <1>9, <1>10, <1>11, <1>12, WhoseStep

LEMMA InitRead == Init => ReadInv
<1> SUFFICES ASSUME Init
             PROVE  ReadInv
  OBVIOUS
<1>1. \A a \in Agent : agent[a].from = NoDoc /\ (agent[a].pc = "write" => agent[a].kind # "body")
                       /\ agent[a].pc # "writing"
  BY DEF Init
<1>2. Current /\ FromOwn /\ ReadFirst
  BY <1>1, DocsAssumption DEF Current, FromOwn, ReadFirst
<1>3. LateCurrent
  BY DEF Init, LateCurrent
<1>4. \A d \in Doc : copy[d].text = origin[d].text
  BY DEF Init
<1>5. Kept
  BY <1>4, DocsAssumption DEF Kept, Holds
<1>. QED
  BY <1>2, <1>3, <1>5 DEF ReadInv

LEMMA NextRead == TypeOK /\ OnceInv /\ ReadInv /\ [Next]_vars => ReadInv'
<1> SUFFICES ASSUME TypeOK, OnceInv, ReadInv, [Next]_vars
             PROVE  ReadInv'
  OBVIOUS
<1>1. Current' /\ FromOwn' /\ ReadFirst' /\ LateCurrent'
  BY CurrentKept, FromKept, LateCurrentKept DEF ReadInv
<1>2. Kept'
  BY KeptKept DEF OnceInv
<1>. QED
  BY <1>1, <1>2 DEF ReadInv

\* A step that is not a person's takes a change away only where an agent goes
\* by a path.
LEMMA NothingLost ==
  ASSUME TypeOK, OnceInv, ReadInv, [Next]_vars, NEW d \in Doc, others' = others,
         ~Holds(copy[d].text, copy'[d].text)
  PROVE  \E a \in Agent : ByPath(a) /\ (agent[a].from # d \/ lost[a] > 0)
<1>0. Holds(copy[d].text, copy[d].text)
  BY DEF Holds
<1>1. ASSUME copy'[d] = copy[d]
      PROVE  FALSE
  BY <1>0, <1>1
<1>2. ASSUME NEW a \in Agent, GetDoc(a)
      PROVE  \E b \in Agent : ByPath(b) /\ (agent[b].from # d \/ lost[b] > 0)
  <2>1. /\ copy' = [copy EXCEPT ![Target(a)] = Opened(Target(a))]
        /\ copy \in [Doc -> [version: Nat, text: Seq(Change)]]
    BY <1>2 DEF GetDoc, TypeOK
  <2>2. copy'[d] = Opened(d)
    BY <1>1, <2>1
  <2>3. d \in due /\ copy'[d].text = origin[d].text
    BY <1>1, <2>2 DEF Opened
  <2>4. d \in Relayed
    BY <2>3 DEF TypeOK
  <2>. QED
    BY <2>3, <2>4 DEF ReadInv, Kept, Astray
<1>3. ASSUME NEW a \in Agent, Patch(a)
      PROVE  \E b \in Agent : ByPath(b) /\ (agent[b].from # d \/ lost[b] > 0)
  <2>1. /\ Payload(a) \in Request /\ agent'[a].code \in Code
        /\ Handle(Payload(a), agent'[a].code)
    BY <1>3, PatchDoes
  <2>2. agent'[a].code = "ok" /\ d = Payload(a).doc /\ copy'[d].text = Written(Payload(a))
    BY <1>1, <2>1, HandleDoes
  <2>. QED
    BY <1>3, <2>2, PatchHolds DEF Wrote
<1>4. ASSUME NEW r \in late, Land(r)
      PROVE  \E b \in Agent : ByPath(b) /\ (agent[b].from # d \/ lost[b] > 0)
  <2>1. PICK code \in Code : Handle(r, code)
    BY <1>4 DEF Land
  <2>2. r \in Request /\ r.by \in Agent /\ lost[r.by] > 0
    BY DEF TypeOK, Request, OnceInv, LateOf
  <2>3. code = "ok" /\ d = r.doc /\ copy'[d].text = Written(r)
    BY <1>1, <2>1, <2>2, HandleDoes
  <2>. QED
    BY <2>1, <2>2, <2>3, LandHolds DEF Wrote
<1>5. \A e \in Doc : ~Edit(e)
  BY DEF Edit, TypeOK
<1>6. \A a \in Agent : Resolve(a) \/ TimeOut(a) => copy' = copy
  BY DEF Resolve, TimeOut, meshVars
<1>7. \A a \in Agent, advice \in Advice :
        Heed(a, advice) => copy' = copy
  BY DEF Heed, meshVars
<1>8. \A e \in Doc : EditOrigin(e) \/ Elapse(e) \/ (\E p \in Path : Move(e, p)) => copy' = copy
  BY DEF EditOrigin, Elapse, Move
<1>9. UNCHANGED vars => copy' = copy
  BY DEF vars, meshVars
<1>. QED
  BY <1>1, <1>2, <1>3, <1>4, <1>5, <1>6, <1>7, <1>8, <1>9, WhoseStep

\* Whatever is refreshed, lands late or is refused in between, an agent's
\* write takes nothing away that the agent has not read, as long as documents
\* are called by uuid: base_version is enough.
THEOREM NoBlindOverwriteHolds == Spec => NoBlindOverwrite
<1>1. Init => TypeOK /\ OnceInv /\ ReadInv
  BY InitType, InitOnce, InitRead
<1>2. TypeOK /\ OnceInv /\ ReadInv /\ [Next]_vars => (TypeOK /\ OnceInv /\ ReadInv)'
  BY NextType, NextOnce, NextRead
<1>3. TypeOK /\ OnceInv /\ ReadInv /\ [Next]_vars =>
        [\A d \in Doc :
           others' = others /\ ~(In(copy[d].text) \subseteq In(copy'[d].text)) =>
             \E a \in Agent :
               agent[a].ref \in Path /\ (agent[a].from # d \/ lost[a] > 0)]_vars
  BY NothingLost DEF Holds, ByPath
<1>. QED
  BY <1>1, <1>2, <1>3, PTL DEF Spec, NoBlindOverwrite
=============================================================================
