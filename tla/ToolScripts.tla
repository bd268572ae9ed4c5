---------------------------- MODULE ToolScripts ----------------------------
(***************************************************************************)
(* The requests each tool handler makes (tools.go, project_updates.go,     *)
(* start_after.go, runtime_tools.go, turn_outcomes.go, docs.go), in order, *)
(* and what it does when one of them fails.  A handler is written as the   *)
(* set of its scripts: which one a call follows is decided by its          *)
(* arguments (a comment is given or not, an id is short or not) and by     *)
(* data of the API that the model leaves open (a task belongs to a series  *)
(* or not).  The local checks of the arguments come before the first       *)
(* request in every handler; ToolCalls has them as an action of its own.   *)
(*                                                                         *)
(* get_task, get_my_tasks, list_comments, the walks over documents,        *)
(* get_doc, update_doc, the checkouts and the turn outcomes keep state   *)
(* or loop, and have modules of their own; the turn outcomes are here too, *)
(* for what a repeated one does.                                           *)
(***************************************************************************)
EXTENDS Naturals, Sequences, RestRequests

(***************************************************************************)
(* A step: the request; what its failure does to the call; the requests    *)
(* that must have succeeded (after) or failed (instead) for the step to be *)
(* made at all; and whether the handler looks a name up in the answer,     *)
(* where not finding it is an error.                                       *)
(*                                                                         *)
(*   "error"    the call ends, with an error                               *)
(*   "named"    the same, and the error says what has been done            *)
(*   "report"   the call goes on, and the answer names the failure         *)
(*   "skip"     the call goes on, and nothing is said                      *)
(*   "fallback" the call goes on after a 404 or a 403, as the handler      *)
(*              expects; another failure ends it                           *)
(***************************************************************************)
Step(request, fail) ==
  [of |-> request, fail |-> fail, after |-> {}, instead |-> {}, finds |-> FALSE]

Must(request)      == Step(request, "error")
Naming(request)    == Step(request, "named")
Reporting(request) == Step(request, "report")
Softly(request)    == Step(request, "skip")
Falling(request)   == Step(request, "fallback")

After(step, request)   == [step EXCEPT !.after = @ \cup {request}]
Instead(step, request) == [step EXCEPT !.instead = @ \cup {request}]
Finding(step)          == [step EXCEPT !.finds = TRUE]

Only(step)     == {<<step>>}
Optional(step) == {<<>>, <<step>>}
P ++ Q         == {p \o q : p \in P, q \in Q}

(***************************************************************************)
(* Parts several handlers share: the id of a status by its slug, the slugs *)
(* of the statuses of listed tasks (a task may be visible where its        *)
(* project is not), the link of a project's updates page, the latest       *)
(* update of a project, the id of the human whose decision is recorded.    *)
(***************************************************************************)
StatusOfProject == Only(Finding(Must(GetProjectStatuses)))
StatusOfTask ==
  {<< Finding(Falling(GetTaskStatuses)),
      Instead(Must(GetTask), GetTaskStatuses),
      Instead(Finding(Must(GetProjectStatuses)), GetTaskStatuses) >>}
StatusOfRows ==
  {<< Falling(GetProjectStatuses), Instead(Must(GetTaskStatuses), GetProjectStatuses) >>}
UpdatesPage ==
  {<<>>, << Softly(GetProject), After(Softly(GetWorkspace), GetProject) >>}
LatestUpdate ==
  {<<>>} \cup (Only(Softly(ListProjectUpdates)) ++ UpdatesPage)
DecidingUser == Only(Finding(Reporting(GetTeamDirectory)))

(***************************************************************************)
(* Projects and tasks.                                                     *)
(***************************************************************************)
list_projects == Only(Must(ListProjects))
get_project ==
  {<< Must(GetProject), Must(GetProjectStatuses), Must(GetProjectCustomFields) >>}
    ++ LatestUpdate
post_project_update == Only(Must(CreateProjectUpdate))
get_project_updates == Only(Must(ListProjectUpdates))
list_tasks ==
  ({<<>>} \cup Only(Finding(Must(GetTeamDirectory)))) ++ Only(Must(ListTasks))
    ++ ({<<>>} \cup StatusOfRows)
create_task    == ({<<>>} \cup StatusOfProject) ++ Only(Must(CreateTask))
update_task    == Only(Must(UpdateTask))
move_task ==
  StatusOfTask ++ Only(Must(MoveTask)) ++ Optional(Softly(AddComment))
    ++ Only(Naming(GetTask))
create_subtask == ({<<>>} \cup StatusOfTask) ++ Only(Must(CreateSubtask))
add_dependency == Only(Must(AddDependency))
EdgeOfPair ==
  Only(Must(GetTask)) ++ Optional(Must(GetTask))
    ++ Only(Finding(Must(GetTaskDependencies)))
update_dependency == EdgeOfPair ++ Only(Must(UpdateDependency))
remove_dependency == EdgeOfPair ++ Only(Must(RemoveDependency))
assign_task    == Only(Must(AssignTask))
add_comment    == Only(Must(AddComment))
add_vcs_link   == Only(Must(AddVCSLink)) ++ Optional(Naming(PatchVCSLinkMetadata))
mark_vcs_deployed == Only(Must(MarkVCSLinkDeployed))
upload_artifact   == Only(Must(UploadArtifact))
list_artifacts    == Only(Must(ListArtifacts))
get_artifact      == Only(Must(GetArtifact))
get_task_context ==
  Optional(Must(GetTask)) ++ Only(Must(GetTaskContext))
    ++ Optional(Softly(GetRecurringHistory)) ++ LatestUpdate
clear_start_after == Only(Must(ClearStartAfter))
set_human_gate    == Only(Must(SetHumanGate))
clear_human_gate  == Only(Must(ClearHumanGate))

(***************************************************************************)
(* Events, the agent itself, the team and its rules.                       *)
(***************************************************************************)
publish_event    == Only(Must(PublishEvent))
publish_summary  == Only(Must(PublishEvent))
get_context      == Only(Must(GetContext)) ++ Only(Softly(GetProjectKnowledge))
subscribe_events == Optional(Must(UpdateMe))
heartbeat        == Only(Must(Heartbeat))

\* Mutant of report_error: a status that is not set fails a call whose event is out.
report_error_strict ==
  {<<>>, << Softly(GetTask), After(Softly(PublishEvent), GetTask) >>}
    ++ Optional(Must(UpdateAgent))

report_error ==
  {<<>>, << Softly(GetTask), After(Softly(PublishEvent), GetTask) >>}
    ++ Optional(Softly(UpdateAgent))

register_sub_agent   == Only(Must(RegisterSubAgent))
get_my_rules         == Only(Must(GetEffectiveRules))
get_project_rules    == Only(Must(GetEffectiveRules))
list_sub_agents      == Only(Must(ListSubAgents))
get_team_directory   == Only(Must(GetTeamDirectory))
get_assignment_rules == Only(Must(GetAssignmentRules))
get_workflow_rules   == Only(Must(GetWorkflowRules))
update_agent_profile ==
  (Optional(Must(UpdateAgentProfile)) ++ Optional(Naming(UpdateMe))) \ {<<>>}
import_workspace_config == Only(Must(ImportWorkspaceConfig))
export_workspace_config == Only(Must(ExportWorkspaceConfig))
poll_tasks     == Only(Must(PollTasks))
session_report == Only(Reporting(ReportSession))
get_operator_runtime   == Only(Must(ReadRuntime))
get_workspace_runtime  == Only(Must(ReadRuntime))
get_operator_runtime_history    == Only(Must(ReadRuntime))
get_workspace_runtime_revisions == Only(Must(ReadRuntime))
save_operator_runtime  == Only(Must(SaveRuntime))
save_workspace_runtime == Only(Must(SaveRuntime))
set_agent_limits       == Only(Must(SetAgentLimits))

(***************************************************************************)
(* Recurring schedules.                                                    *)
(***************************************************************************)
create_recurring_task     == Only(Must(CreateRecurringSchedule))
list_recurring_schedules  == Only(Must(ListRecurringSchedules))
get_recurring_history     == Only(Must(GetRecurringHistory))
trigger_recurring_now     == Only(Must(TriggerRecurringNow))
update_recurring_schedule == Only(Must(UpdateRecurringSchedule))
delete_recurring_schedule == Only(Must(DeleteRecurringSchedule))

(***************************************************************************)
(* Memories.  get_memory pages until it has the key, four pages at most.   *)
(***************************************************************************)
GetMemoryPages == 4

recall ==  Only(Must(RecallFinal))
get_memory ==
  {[i \in 1..n |-> IF i = n THEN Finding(Must(RecallMemories)) ELSE Must(RecallMemories)] :
     n \in 1..GetMemoryPages}
recall_with_graph     == Only(Must(RecallWithGraph))
remember              == Only(Must(Remember))
set_project_knowledge == Only(Must(SetProjectKnowledge))
get_project_knowledge == Only(Must(GetProjectKnowledge))
forget                == Only(Must(ForgetMemory))

\* Mutant of record_owner_decision: the decision that is not linked is not told.
record_owner_decision_silent ==
  Only(Must(Remember))
    ++ ({<<>>} \cup (DecidingUser
                     ++ Only(After(Softly(CreateHumanGateDecision), GetTeamDirectory))))

record_owner_decision ==
  Only(Must(Remember))
    ++ ({<<>>} \cup (DecidingUser
                     ++ Only(After(Reporting(CreateHumanGateDecision), GetTeamDirectory))))

get_canonical_updates == Only(Must(GetCanonicalUpdates))
get_canonical ==
  Only(Softly(RecallMemories))
    ++ {<<>>, << Softly(ListProjects), After(Softly(GetProjectKnowledge), ListProjects) >>}

(***************************************************************************)
(* Turn outcomes and documents.                                            *)
(***************************************************************************)
continue_next   == Only(Must(TurnCommand))
wait_for        == Only(Must(TurnCommand))
ask_agent       == Only(Must(TurnCommand))
answer_decision == Only(Must(TurnCommand))
finish_task     == Only(Must(TurnCommand))
hand_off        == Only(Must(TurnCommand))
add_note        == Only(Must(TurnCommand))
search_docs     == Only(Must(SearchDocuments)) ++ Only(Must(ListDocuments))
create_doc      == Only(Must(CreateDocument))
comment_doc ==
  Optional(Must(GetDocumentByPath)) ++ Only(Must(CreateDocumentComment))
=============================================================================
