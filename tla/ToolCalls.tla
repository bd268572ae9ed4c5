----------------------------- MODULE ToolCalls -----------------------------
(***************************************************************************)
(* One tool call at a time, made of the requests of its script, against an *)
(* API that may answer, refuse, say 404, or carry a write out and lose the *)
(* answer on the way; and the repeats: an agent repeats a call that ended  *)
(* in an error which says nothing of what was done, and a host repeats, as *)
(* it likes, a call of a tool that is annotated idempotent.  Meanwhile     *)
(* what a name of the API stands for (a status slug, the edge of two       *)
(* tasks, the owner in the team directory) may change.                     *)
(*                                                                         *)
(* A request of this module is one call of the REST client: the retries of *)
(* a throttled read below it are those of Retry429.                        *)
(***************************************************************************)
EXTENDS ToolScripts

CONSTANTS
  Ids,         \* what the name a call looks up may stand for
  NoId,        \* nothing bears the name
  Unaimed,     \* no write of this call has used a looked-up id
  MaxTries,    \* bound: how often one call is made
  MaxRenames   \* bound: how often the name changes hands during a call

ASSUME BoundsAssumption == MaxTries \in Nat /\ MaxRenames \in Nat
ASSUME IdsAssumption    == NoId \notin Ids /\ Unaimed \notin Ids

(***************************************************************************)
(* The tools as the server registers them (server.go), each with the       *)
(* scripts of its handler; what the model of a client sees is their names  *)
(* and their annotations.                                                  *)
(***************************************************************************)
CoreTools ==
  [ heartbeat |-> heartbeat,
    get_project_knowledge |-> get_project_knowledge,
    get_my_rules |-> get_my_rules, get_context |-> get_context,
    create_task |-> create_task, update_task |-> update_task,
    move_task |-> move_task, assign_task |-> assign_task,
    get_task_context |-> get_task_context, add_comment |-> add_comment,
    add_vcs_link |-> add_vcs_link, publish_event |-> publish_event,
    recall |-> recall, get_memory |-> get_memory,
    recall_with_graph |-> recall_with_graph, remember |-> remember,
    forget |-> forget, set_project_knowledge |-> set_project_knowledge,
    record_owner_decision |-> record_owner_decision,
    get_canonical_updates |-> get_canonical_updates,
    list_projects |-> list_projects, list_tasks |-> list_tasks,
    report_error |-> report_error,
    session_report |-> session_report ]

TurnOutcomeTools ==
  [ continue_next |-> continue_next, wait_for |-> wait_for,
    ask_agent |-> ask_agent, answer_decision |-> answer_decision,
    finish_task |-> finish_task, hand_off |-> hand_off,
    add_note |-> add_note ]

AdvancedTools ==
  [ clear_start_after |-> clear_start_after,
    post_project_update |-> post_project_update,
    get_project_updates |-> get_project_updates,
    search_docs |-> search_docs, create_doc |-> create_doc,
    comment_doc |-> comment_doc, get_project |-> get_project,
    create_subtask |-> create_subtask, add_dependency |-> add_dependency,
    update_dependency |-> update_dependency,
    remove_dependency |-> remove_dependency,
    mark_vcs_deployed |-> mark_vcs_deployed,
    set_human_gate |-> set_human_gate,
    clear_human_gate |-> clear_human_gate,
    upload_artifact |-> upload_artifact, list_artifacts |-> list_artifacts,
    get_artifact |-> get_artifact, publish_summary |-> publish_summary,
    subscribe_events |-> subscribe_events,
    register_sub_agent |-> register_sub_agent,
    list_sub_agents |-> list_sub_agents,
    get_team_directory |-> get_team_directory,
    get_project_rules |-> get_project_rules,
    get_assignment_rules |-> get_assignment_rules,
    get_workflow_rules |-> get_workflow_rules,
    update_agent_profile |-> update_agent_profile,
    import_workspace_config |-> import_workspace_config,
    export_workspace_config |-> export_workspace_config,
    poll_tasks |-> poll_tasks,
    create_recurring_task |-> create_recurring_task,
    list_recurring_schedules |-> list_recurring_schedules,
    get_recurring_history |-> get_recurring_history,
    trigger_recurring_now |-> trigger_recurring_now,
    update_recurring_schedule |-> update_recurring_schedule,
    delete_recurring_schedule |-> delete_recurring_schedule,
    get_canonical |-> get_canonical ]

RuntimeTools ==
  [ get_operator_runtime |-> get_operator_runtime,
    save_operator_runtime |-> save_operator_runtime,
    get_operator_runtime_history |-> get_operator_runtime_history,
    set_agent_limits |-> set_agent_limits,
    get_workspace_runtime |-> get_workspace_runtime,
    get_workspace_runtime_revisions |-> get_workspace_runtime_revisions,
    save_workspace_runtime |-> save_workspace_runtime ]

Tools ==
  [t \in UNION {DOMAIN CoreTools, DOMAIN TurnOutcomeTools, DOMAIN AdvancedTools,
                DOMAIN RuntimeTools} |->
     IF t \in DOMAIN CoreTools THEN CoreTools[t]
     ELSE IF t \in DOMAIN TurnOutcomeTools THEN TurnOutcomeTools[t]
     ELSE IF t \in DOMAIN AdvancedTools THEN AdvancedTools[t]
     ELSE RuntimeTools[t]]

(***************************************************************************)
(* The annotations hosts act on (annotations.go): what only reads may run  *)
(* unasked, what is idempotent may be sent again.                          *)
(***************************************************************************)
\* Mutant of ReadOnly: the subscription is taken for a read.
ReadOnlySubscribe ==
  { "export_workspace_config", "get_context", "get_project", "poll_tasks",
    "subscribe_events" }

ReadOnly ==
  { "export_workspace_config", "get_artifact", "get_assignment_rules",
    "get_canonical", "get_canonical_updates", "get_context", "get_my_rules",
    "get_project", "get_project_knowledge", "get_project_rules",
    "get_recurring_history", "get_task_context", "get_team_directory",
    "get_workflow_rules", "list_artifacts", "list_projects", "list_tasks",
    "list_recurring_schedules", "list_sub_agents", "poll_tasks", "get_memory",
    "recall", "recall_with_graph", "search_docs", "get_project_updates",
    "get_operator_runtime", "get_operator_runtime_history",
    "get_workspace_runtime", "get_workspace_runtime_revisions" }

Idempotent ==
  { "heartbeat", "subscribe_events", "mark_vcs_deployed", "assign_task",
    "clear_human_gate", "clear_start_after", "move_task", "set_agent_limits",
    "remember", "set_human_gate", "set_project_knowledge",
    "update_agent_profile", "update_recurring_schedule", "update_task" }

MayRepeat == ReadOnly \cup Idempotent

VARIABLES
  tool, script, at,     \* the call: its tool, its script, the next step
  end,                  \* "idle", "running", or how it ended
  done, failed, said,   \* requests answered, failed, and named as failed in the answer
  made, before,         \* writes carried out in this try, and in earlier ones
  unsure,               \* writes whose answer was lost, in any try
  found, target,        \* the id looked up, and the one the last write used
  tries,
  holder, bore, renames \* what the name stands for now, and stood for during this try

callVars == <<tool, script, tries>>
doneVars == <<done, failed, said, made, unsure, found, target>>
nameVars == <<holder, bore, renames>>
vars == <<callVars, at, end, doneVars, before, nameVars>>

step == script[at]

Fresh ==
  /\ at' = 1 /\ end' = "running"
  /\ done' = {} /\ failed' = {} /\ said' = {} /\ made' = {}
  /\ found' = NoId /\ target' = Unaimed
  /\ bore' = {holder} \ {NoId} /\ renames' = 0
  /\ UNCHANGED holder

Init ==
  /\ tool = "list_projects" /\ script \in Tools[tool]
  /\ at = 1 /\ end = "idle" /\ tries = 0
  /\ done = {} /\ failed = {} /\ said = {} /\ made = {} /\ before = {} /\ unsure = {}
  /\ found = NoId /\ target = Unaimed
  /\ holder \in Ids \cup {NoId} /\ bore = {} /\ renames = 0

Begin(t) ==
  /\ end # "running"
  /\ tool' = t /\ script' \in Tools[t]
  /\ tries' = 1 /\ before' = {} /\ unsure' = {}
  /\ Fresh

(***************************************************************************)
(* The handler checks the session and its arguments before it asks         *)
(* anything: errResult without a request.                                  *)
(***************************************************************************)
BadArguments ==
  /\ end = "running" /\ at = 1 /\ done = {} /\ failed = {}
  /\ end' = "error"
  /\ UNCHANGED <<callVars, at, doneVars, before, nameVars>>

(***************************************************************************)
(* The next step is made when the requests it depends on went its way; a   *)
(* step that is not made is passed over.                                   *)
(***************************************************************************)
Running == end = "running" /\ at \in 1..Len(script)
Due     == step.after \subseteq done /\ step.instead \subseteq failed

Pass ==
  /\ Running /\ ~Due
  /\ at' = at + 1
  /\ UNCHANGED <<callVars, end, doneVars, before, nameVars>>

\* Mutant of Pick: no entry bears the name, so any entry is taken.
PickAny == IF holder = NoId THEN CHOOSE i \in Ids : TRUE ELSE holder

(***************************************************************************)
(* The id a handler takes from an answer: the entry that bears the name,   *)
(* NoId when there is none.                                                *)
(***************************************************************************)
Pick == holder

Aimed == \E i \in 1..(at - 1) : script[i].finds

CarriedOut ==
  IF IsWrite(step.of)
    THEN /\ made' = made \cup {step.of}
         /\ target' = IF Aimed THEN found ELSE target
    ELSE UNCHANGED <<made, target>>

Answer ==
  /\ Running /\ Due
  /\ step.finds => Pick # NoId
  /\ found' = IF step.finds THEN Pick ELSE found
  /\ done' = done \cup {step.of}
  /\ at' = at + 1
  /\ CarriedOut
  /\ UNCHANGED <<callVars, end, failed, said, unsure, before, nameVars>>

(***************************************************************************)
(* What a failed request does to the call.                                 *)
(***************************************************************************)
Ends(absent) ==
  CASE step.fail = "named" -> "named"
    [] step.fail = "error" -> "error"
    [] step.fail = "fallback" /\ ~absent -> "error"
    [] OTHER -> "running"

Failing(absent) ==
  /\ end' = Ends(absent)
  /\ at' = IF end' = "running" THEN at + 1 ELSE at
  /\ failed' = failed \cup {step.of}
  /\ said' = IF step.fail = "report" THEN said \cup {step.of} ELSE said
  /\ UNCHANGED <<callVars, done, found, before, nameVars>>

\* The API refuses: 404 or 403 (absent), or any other status, or it is not reached.
Refusal ==
  /\ Running /\ Due
  /\ \E absent \in BOOLEAN : Failing(absent)
  /\ UNCHANGED <<made, target, unsure>>

\* The answer does not hold the name.
NotFound ==
  /\ Running /\ Due
  /\ step.finds /\ Pick = NoId
  /\ Failing(FALSE)
  /\ UNCHANGED <<made, target, unsure>>

\* The API carries the write out, and its answer does not arrive or does not decode.
LoseAnswer ==
  /\ Running /\ Due
  /\ IsWrite(step.of)
  /\ CarriedOut
  /\ unsure' = unsure \cup {step.of}
  /\ Failing(FALSE)

Finish ==
  /\ end = "running" /\ at > Len(script)
  /\ end' = "ok"
  /\ UNCHANGED <<callVars, at, doneVars, before, nameVars>>

(***************************************************************************)
(* The same call again, with the same arguments.                           *)
(***************************************************************************)
Again ==
  /\ tries < MaxTries
  /\ tries' = tries + 1
  /\ before' = before \cup made
  /\ UNCHANGED <<tool, script, unsure>>
  /\ Fresh

AgentRepeats == end = "error" /\ Again
HostRepeats  == end \in {"ok", "error", "named"} /\ tool \in MayRepeat /\ Again

(***************************************************************************)
(* Somebody renames, deletes or replaces what the call is looking up.      *)
(***************************************************************************)
Rename ==
  /\ end = "running"
  /\ \E i \in 1..Len(script) : script[i].finds
  /\ renames < MaxRenames
  /\ renames' = renames + 1
  /\ holder' \in (Ids \cup {NoId}) \ {holder}
  /\ bore' = bore \cup ({holder'} \ {NoId})
  /\ UNCHANGED <<callVars, at, end, doneVars, before>>

Next ==
  \/ \E t \in DOMAIN Tools : Begin(t)
  \/ BadArguments
  \/ Pass
  \/ Answer
  \/ Refusal
  \/ NotFound
  \/ LoseAnswer
  \/ Finish
  \/ AgentRepeats
  \/ HostRepeats
  \/ Rename

Spec == Init /\ [][Next]_vars

-----------------------------------------------------------------------------
Doubled == {r \in made \cap before : r.effect = "adds"}

\* A call that an agent repeats because its answer was a plain error adds a
\* row a second time (a comment, a task, a link) only when the answer to the
\* first was lost between the API and the server: no handler ends in a plain
\* error after a write of its own that is known to have been carried out.
RepeatsOnlyLost ==
  tool \notin MayRepeat => Doubled \subseteq unsure

\* Hosts act on the annotations: a tool annotated read-only, which they run
\* unasked, sends no request that changes anything, whatever its arguments and
\* the answers; and a call of a tool annotated idempotent, sent again, leaves
\* nothing twice (annotations.go: "repeating the call with the same arguments
\* leaves the same result"), but for the comment that move_task may carry.
HintsHold ==
  /\ tool \in ReadOnly => made = {}
  /\ tool \in MayRepeat =>
       {<<tool, r>> : r \in Doubled} \subseteq {<<"move_task", AddComment>>}

\* The writes whose failure is not told: the comment of move_task, and the
\* two of report_error, whose answer is "reported" all the same.
BestEffort ==
  { <<"move_task", AddComment>>, <<"report_error", PublishEvent>>,
    <<"report_error", UpdateAgent>> }

\* A call that ends well has made every write of its script, or its answer
\* names the one that failed or the request that one waited for; the event and
\* the status of report_error and the comment of move_task, which are lost in
\* silence (tools.go:2256, 2281, 840), are the only exceptions.
NothingSilentlyLost ==
  end = "ok" =>
    \A i \in 1..Len(script) :
      IsWrite(script[i].of) =>
        \/ script[i].of \in made
        \/ ({script[i].of} \cup script[i].after) \cap said # {}
        \/ <<tool, script[i].of>> \in BestEffort

\* A write that follows a lookup is aimed at something that bore the name
\* while the call ran: never at nothing, never at what another call found,
\* and never at an entry that did not match.
TargetAsNamed == target # Unaimed => target \in bore
=============================================================================
