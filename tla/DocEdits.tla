------------------------------ MODULE DocEdits ------------------------------
(***************************************************************************)
(* get_doc and update_doc (docs.go), called by agents that each have one   *)
(* change to make and follow the advice of the answers they get.  A write  *)
(* that replaces text carries the version it was made from (base_version); *)
(* an append needs none.  A 409 has several causes, and conflictResult     *)
(* tells them apart: it says what happened to the text, and what to do.    *)
(*                                                                         *)
(* Both tools resolve a slug path with a request of its own before the     *)
(* document is read or written.  Meanwhile people edit documents in a      *)
(* browser, without a version, and move them.                              *)
(*                                                                         *)
(* Of the Mesh API this is what the code relies on: a write with an old    *)
(* version is refused; some documents are copies of Team Relay documents,  *)
(* refreshed when they are opened and the sync interval has elapsed, and   *)
(* a write to such a copy goes to the original first.                      *)
(***************************************************************************)
EXTENDS Integers, Sequences

CONSTANTS
  Agent, Doc, Path,
  Relayed,     \* the documents that are copies of Team Relay documents
  NoDoc, NoPath,
  Place,       \* where each document is at the start
  Named,       \* Named[a]: what agent a may call its document by, a uuid or a path
  Wanted,      \* Wanted[a]: where it may want the document moved, or NoPath
  MaxOthers,   \* bound: changes made by people
  MaxLost      \* bound: answers that do not arrive, of an agent

ASSUME DocsAssumption ==
  /\ Relayed \subseteq Doc /\ NoDoc \notin Doc /\ NoPath \notin Path
  /\ Named \in [Agent -> SUBSET (Doc \cup Path)] /\ Doc \cap Path = {}
  /\ Place \in [Doc -> Path] /\ \A d, e \in Doc : Place[d] = Place[e] => d = e
  /\ Wanted \in [Agent -> SUBSET (Path \cup {NoPath})]
  /\ MaxOthers \in Nat /\ MaxLost \in [Agent -> Nat]
  /\ Agent \cap (Doc \cup 1..MaxOthers) = {}

VARIABLES
  copy,     \* copy[d]: version and text of document d, as Mesh has it
  origin,   \* origin[d]: revision and text of its original on Team Relay
  synced,   \* synced[d]: the revision the copy was taken from
  due,      \* the copies whose sync interval has elapsed
  at, was,  \* the document at a path, and the last that was moved away
  agent,    \* agent[a]: where its call is, and what it knows
  late,     \* writes whose caller has given up, and that may still land
  others,   \* how many changes people made
  lost      \* lost[a]: how many answers did not reach agent a

meshVars == <<copy, origin, synced, due, at, was>>
vars == <<meshVars, agent, late, others, lost>>

\* A text is the sequence of the changes in it: what the document was created
\* with, the change of an agent, or the n-th of the people.
Change == Doc \cup Agent \cup 1..MaxOthers
In(t) == {t[i] : i \in 1..Len(t)}

Kind == {"body", "append"}
Code == {"none", "ok", "error", "document_version_conflict", "document_slug_taken",
         "external_source_conflict", "external_source_write_landed", "conflict"}

\* What an answer tells the caller to do next.
Advice == {"elsewhere", "reread", "append", "stop", "none"}

\* pc: "read", "reading" (resolved), "write", "writing" (resolved), "told".
Actor ==
  [pc: {"read", "reading", "write", "writing", "told", "done", "stopped"},
   ref: Doc \cup Path, kind: Kind, want: Path \cup {NoPath}, doc: Doc \cup {NoDoc}, base: Nat,
   seen: Seq(Change), from: Doc \cup {NoDoc}, code: Code, wrote: BOOLEAN, appended: BOOLEAN]

\* What update_doc sends: versioned, it is refused unless base is the version.
Request ==
  [by: Agent, doc: Doc, kind: Kind, want: Path \cup {NoPath}, versioned: BOOLEAN, base: Nat,
   text: Seq(Change)]

TypeOK ==
  /\ copy \in [Doc -> [version: Nat, text: Seq(Change)]]
  /\ origin \in [Doc -> [rev: Nat, text: Seq(Change)]] /\ synced \in [Doc -> Nat]
  /\ due \subseteq Relayed
  /\ at \in [Path -> Doc \cup {NoDoc}] /\ was \in [Path -> Doc \cup {NoDoc}]
  /\ agent \in [Agent -> Actor]
  /\ \A a \in Agent : agent[a].pc \in {"reading", "writing"} => agent[a].doc \in Doc
  /\ late \subseteq Request
  /\ others \in 0..MaxOthers
  /\ lost \in [Agent -> Nat] /\ \A a \in Agent : lost[a] <= MaxLost[a]

\* An agent that replaces reads first; one that appends need not.
Init ==
  /\ copy = [d \in Doc |-> [version |-> 1, text |-> <<d>>]]
  /\ origin = [d \in Doc |-> [rev |-> 1, text |-> <<d>>]]
  /\ synced = [d \in Doc |-> 1] /\ due = {}
  /\ at = [p \in Path |-> IF \E d \in Doc : Place[d] = p
                          THEN CHOOSE d \in Doc : Place[d] = p ELSE NoDoc]
  /\ was = [p \in Path |-> NoDoc]
  /\ agent \in [Agent -> [pc: {"read", "write"}, ref: Doc \cup Path, kind: Kind,
       want: Path \cup {NoPath}, doc: {NoDoc}, base: {0}, seen: {<<>>}, from: {NoDoc},
       code: {"none"}, wrote: {FALSE}, appended: {FALSE}]]
  /\ \A a \in Agent : agent[a].ref \in Named[a] /\ agent[a].want \in Wanted[a]
                    /\ (agent[a].pc = "read" <=> agent[a].kind = "body")
  /\ late = {} /\ others = 0 /\ lost = [a \in Agent |-> 0]

-----------------------------------------------------------------------------
(***************************************************************************)
(* resolveDocRef: a uuid is taken as it is, without a request; a path is   *)
(* the live document there, else the one that was there and was moved.     *)
(***************************************************************************)
Resolved(path) == IF at[path] # NoDoc THEN at[path] ELSE was[path]

\* Mutant of Unresolved: a path without a document is not refused.
UnresolvedNever(d) == FALSE

\* No document at that path: the call is refused.
Unresolved(d) == d = NoDoc

Resolve(a) ==
  LET d == Resolved(agent[a].ref)
  IN /\ agent[a].pc \in {"read", "write"} /\ agent[a].ref \in Path
     /\ agent' = [agent EXCEPT
          ![a].doc = d,
          ![a].pc = IF Unresolved(d) THEN "stopped"
                    ELSE IF agent[a].pc = "read" THEN "reading" ELSE "writing"]
     /\ UNCHANGED <<meshVars, late, others, lost>>

\* The call of a is at its request, and this is the document it is for.
Ready(a, pc, resolved) ==
  agent[a].pc = resolved \/ (agent[a].pc = pc /\ agent[a].ref \in Doc)

Target(a) == IF agent[a].ref \in Doc THEN agent[a].ref ELSE agent[a].doc

\* The copy as it is when it is opened: a Team Relay copy is refreshed once
\* its interval has elapsed.
Opened(d) ==
  IF d \in due /\ synced[d] # origin[d].rev
    THEN [version |-> copy[d].version + 1, text |-> origin[d].text]
    ELSE copy[d]

(***************************************************************************)
(* get_doc with body: the text and its version, in one answer.  An agent   *)
(* that finds its change there has nothing left to do.                     *)
(***************************************************************************)
GetDoc(a) ==
  LET d == Target(a)
      page == Opened(d)
  IN /\ Ready(a, "read", "reading")
     /\ copy' = [copy EXCEPT ![d] = page]
     /\ synced' = IF d \in due THEN [synced EXCEPT ![d] = origin[d].rev] ELSE synced
     /\ due' = due \ {d}
     /\ agent' = [agent EXCEPT
          ![a].pc = IF a \in In(page.text) THEN "done" ELSE "write",
          ![a].seen = page.text, ![a].from = d, ![a].base = page.version]
     /\ UNCHANGED <<origin, at, was, late, others, lost>>

\* Mutant of Payload: base_version is optional for a replacement.
PayloadUnversioned(a) ==
  [by |-> a, doc |-> Target(a), kind |-> agent[a].kind, want |-> agent[a].want,
   versioned |-> FALSE, base |-> agent[a].base, text |-> Append(agent[a].seen, a)]

(***************************************************************************)
(* update_doc: what it sends.  A replacement carries the version its text  *)
(* was made from; the agent's change comes on top of the text it has read. *)
(***************************************************************************)
Payload(a) ==
  [by |-> a, doc |-> Target(a), kind |-> agent[a].kind, want |-> agent[a].want,
   versioned |-> agent[a].kind = "body",
   base |-> agent[a].base, text |-> Append(agent[a].seen, a)]

\* The document a write leaves behind.
Written(r) ==
  IF r.kind = "append" THEN Append(copy[r.doc].text, r.by) ELSE r.text

\* What the API may answer: it checks the version, the slug and the original
\* before it writes; a copy may fall behind the original it has just written.
\* And it may refuse any write with a 409 that has no code and no version.
Answers(r) ==
  {"conflict"} \cup
  IF r.versioned /\ r.base # copy[r.doc].version THEN {"document_version_conflict"}
  ELSE IF r.want # NoPath /\ at[r.want] \notin {NoDoc, r.doc} THEN {"document_slug_taken"}
  ELSE IF r.doc \in Relayed /\ synced[r.doc] # origin[r.doc].rev
    THEN {"external_source_conflict"}
  ELSE IF r.doc \in Relayed THEN {"ok", "external_source_write_landed"}
  ELSE {"ok"}

Wrote(code) == code \in {"ok", "external_source_write_landed"}

\* The paths after document d has been moved to p.
Moved(d, p) ==
  /\ at' = [q \in Path |-> IF q = p THEN d ELSE IF at[q] = d THEN NoDoc ELSE at[q]]
  /\ was' = [q \in Path |-> IF at[q] = d /\ q # p THEN d ELSE was[q]]

\* A write is handled with this answer.
Handle(r, code) ==
  LET d == r.doc
  IN /\ code \in Answers(r)
     /\ IF Wrote(code) /\ d \in Relayed
          THEN /\ origin' = [origin EXCEPT ![d] = [rev |-> @.rev + 1, text |-> Written(r)]]
               /\ synced' = IF code = "ok" THEN [synced EXCEPT ![d] = origin[d].rev + 1] ELSE synced
          ELSE UNCHANGED <<origin, synced>>
     /\ copy' = IF code = "ok"
                THEN [copy EXCEPT ![d] = [version |-> @.version + 1, text |-> Written(r)]]
                ELSE copy
     /\ IF code = "ok" /\ r.want # NoPath THEN Moved(d, r.want) ELSE UNCHANGED <<at, was>>
     /\ UNCHANGED due

\* update_doc sends its request, which is carried out and answered.
Patch(a) ==
  /\ Ready(a, "write", "writing")
  /\ \E code \in Code :
       /\ Handle(Payload(a), code)
       /\ agent' = [agent EXCEPT ![a].pc = "told", ![a].code = code, ![a].wrote = Wrote(code),
            ![a].appended = @ \/ agent[a].kind = "append"]
  /\ UNCHANGED <<late, others, lost>>

\* The request or its answer does not arrive in time: it may still be carried
\* out.  The answer of the tool says that it failed, and not what happened.
TimeOut(a) ==
  /\ Ready(a, "write", "writing") /\ lost[a] < MaxLost[a]
  /\ late' = late \cup {Payload(a)}
  /\ lost' = [lost EXCEPT ![a] = @ + 1]
  /\ agent' = [agent EXCEPT ![a].pc = "told", ![a].code = "error", ![a].wrote = FALSE,
       ![a].appended = @ \/ agent[a].kind = "append"]
  /\ UNCHANGED <<meshVars, others>>

Land(r) ==
  /\ late' = late \ {r}
  /\ \E code \in Code : Handle(r, code)
  /\ UNCHANGED <<agent, others, lost>>

-----------------------------------------------------------------------------
\* Mutant of ConflictResult: every 409 but a taken slug is told as a version race.
ConflictResultCollapsed(code) ==
  IF code = "document_slug_taken" THEN [claim |-> "nothing", advice |-> {"elsewhere"}]
  ELSE [claim |-> "nothing", advice |-> {"reread", "append"}]

\* Mutant of ConflictResult: a write that landed is told like a version race.
ConflictResultAgain(code) ==
  IF code = "external_source_write_landed"
    THEN [claim |-> "saved", advice |-> {"reread", "append"}]
  ELSE [claim |-> "nothing", advice |->
          CASE code = "document_slug_taken" -> {"elsewhere"}
            [] code = "external_source_conflict" -> {"reread"}
            [] code = "conflict" -> {"none"}
            [] OTHER -> {"reread", "append"}]

\* Mutant of ConflictResult: a conflict with the original is told as a version race.
ConflictResultRace(code) ==
  IF code = "external_source_write_landed" THEN [claim |-> "saved", advice |-> {"stop"}]
  ELSE [claim |-> "nothing", advice |->
          CASE code = "document_slug_taken" -> {"elsewhere"}
            [] code = "conflict" -> {"none"}
            [] OTHER -> {"reread", "append"}]

(***************************************************************************)
(* conflictResult: what a 409 is said to have done with the text, and what *)
(* the caller is told to do next: pick another place, open the document    *)
(* again, leave it, or read it again and retry, or append instead.  A 409  *)
(* without a known code and without a current_version is passed on as the  *)
(* server worded it, with no advice.                                       *)
(***************************************************************************)
ConflictResult(code) ==
  IF code = "document_slug_taken" THEN [claim |-> "nothing", advice |-> {"elsewhere"}]
  ELSE IF code = "external_source_conflict"
    THEN [claim |-> "nothing", advice |-> {"reread"}]
  ELSE IF code = "external_source_write_landed"
    THEN [claim |-> "saved", advice |-> {"stop"}]
  ELSE IF code = "conflict" THEN [claim |-> "nothing", advice |-> {"none"}]
  ELSE [claim |-> "nothing", advice |-> {"reread", "append"}]

\* The answer of update_doc: saved, a 409, or an error that claims nothing,
\* after which a careful agent looks whether its change is there.
UpdateDocAnswer(code) ==
  IF code = "ok" THEN [claim |-> "saved", advice |-> {"stop"}]
  ELSE IF code = "error" THEN [claim |-> "unknown", advice |-> {"reread"}]
  ELSE ConflictResult(code)

\* The agent does as it is told, and gives up when it is told nothing.
Heed(a, advice) ==
  /\ agent[a].pc = "told"
  /\ advice \in UpdateDocAnswer(agent[a].code).advice
  /\ agent' = [agent EXCEPT
       ![a].pc = IF advice = "stop" THEN "done"
                 ELSE IF advice = "none" THEN "stopped"
                 ELSE IF advice # "reread" /\ (advice = "append" \/ agent[a].kind = "append")
                   THEN "write" ELSE "read",
       ![a].kind = IF advice = "append" THEN "append" ELSE @,
       ![a].want = IF advice = "elsewhere" THEN NoPath ELSE @,
       ![a].doc = NoDoc, ![a].code = "none", ![a].wrote = FALSE]
  /\ UNCHANGED <<meshVars, late, others, lost>>

(***************************************************************************)
(* People: they edit a document of Mesh, writing without a version over    *)
(* all that is there or adding to it; edit an original; move a document.   *)
(***************************************************************************)
Edit(d) ==
  /\ d \notin Relayed /\ others < MaxOthers
  /\ others' = others + 1
  /\ \E text \in {<<others + 1>>, Append(copy[d].text, others + 1)} :
       copy' = [copy EXCEPT ![d] = [version |-> @.version + 1, text |-> text]]
  /\ UNCHANGED <<origin, synced, due, at, was, agent, late, lost>>

EditOrigin(d) ==
  /\ d \in Relayed /\ others < MaxOthers
  /\ others' = others + 1
  /\ origin' = [origin EXCEPT ![d] = [rev |-> @.rev + 1, text |-> Append(@.text, others + 1)]]
  /\ UNCHANGED <<copy, synced, due, at, was, agent, late, lost>>

Move(d, p) ==
  /\ at[p] = NoDoc /\ others < MaxOthers
  /\ others' = others + 1
  /\ Moved(d, p)
  /\ UNCHANGED <<copy, origin, synced, due, agent, late, lost>>

Elapse(d) ==
  /\ d \in Relayed \ due
  /\ due' = due \cup {d}
  /\ UNCHANGED <<copy, origin, synced, at, was, agent, late, others, lost>>

AgentStep(a) ==
  \/ Resolve(a) \/ GetDoc(a) \/ Patch(a)
  \/ \E advice \in Advice : Heed(a, advice)

Next ==
  \/ \E a \in Agent : AgentStep(a) \/ TimeOut(a)
  \/ \E r \in late : Land(r)
  \/ \E d \in Doc : Edit(d) \/ EditOrigin(d) \/ Elapse(d) \/ \E p \in Path : Move(d, p)

\* Every call is answered and every agent goes on; intervals elapse.
Spec ==
  /\ Init /\ [][Next]_vars
  /\ \A a \in Agent : WF_vars(AgentStep(a))
  /\ \A d \in Relayed : WF_vars(Elapse(d))

-----------------------------------------------------------------------------
(***************************************************************************)
(* Properties.                                                             *)
(***************************************************************************)
\* What an answer says of the text is so: "NOTHING WAS WRITTEN" when this
\* call wrote nothing, "WAS SAVED" when it wrote.
ClaimsTrue ==
  \A a \in Agent : agent[a].pc = "told" =>
    LET claim == UpdateDocAnswer(agent[a].code).claim
    IN /\ claim = "nothing" => ~agent[a].wrote
       /\ claim = "saved" => agent[a].wrote

Times(a, t) == {i \in 1..Len(t) : t[i] = a}
Once(s) == \A i, j \in s : i = j

\* An agent that follows the advice of its answers has its change in a text
\* once, in Mesh and on Team Relay, whatever answers were lost, as long as it
\* never appends; an append is doubled only if an answer of its own was lost.
WrittenOnce ==
  \A a \in Agent, d \in Doc :
    (agent[a].appended => lost[a] = 0) =>
      Once(Times(a, copy[d].text)) /\ Once(Times(a, origin[d].text))

\* Agents destroy nothing they have not read: a change disappears in a step
\* that is not a person's only when some agent goes by a path, and the path
\* has come to mean another document than the one it read, or it has given
\* up on a write that may still land.
NoBlindOverwrite ==
  [][\A d \in Doc :
       others' = others /\ ~(In(copy[d].text) \subseteq In(copy'[d].text)) =>
         \E a \in Agent :
           agent[a].ref \in Path /\ (agent[a].from # d \/ lost[a] > 0)]_vars

\* An agent that calls its document by uuid gets its change in, unless it is
\* told of a 409 that names neither a known code nor a version: the advice, where
\* there is any, leads out of every conflict.
EditLands ==
  \A a \in Agent :
    agent[a].ref \in Doc =>
      <>(agent[a].pc = "done" \/ (agent[a].pc = "told" /\ agent[a].code = "conflict"))
=============================================================================
