---------------------------- MODULE RestRequests ----------------------------
(***************************************************************************)
(* The requests the server's REST client (rest_client.go) knows, as far as *)
(* a tool call can tell them apart: whether a request changes anything on  *)
(* the Mesh API, and whether sending it twice leaves more than once.       *)
(*                                                                         *)
(* GET reads.  PATCH, PUT and DELETE set: a second one changes nothing     *)
(* more.  A POST adds, unless the API takes it as a setting of something   *)
(* that exists (a status, an assignee, a gate, a memory under a key, a     *)
(* command with an idempotency key); which it is, is the API's, and taken  *)
(* from the annotation of the tool that sends nothing else                 *)
(* (annotations.go: kindAdditive or one of the Idempotent kinds) and from  *)
(* its description (a second add_vcs_link "corrects the existing link").   *)
(***************************************************************************)
Reads(name) == [name |-> name, effect |-> "reads"]
Sets(name)  == [name |-> name, effect |-> "sets"]
Adds(name)  == [name |-> name, effect |-> "adds"]

IsWrite(request) == request.effect # "reads"

(***************************************************************************)
(* Projects, their statuses and updates.                                   *)
(***************************************************************************)
ListProjects           == Reads("ListProjects")
GetProject             == Reads("GetProject")
GetProjectStatuses     == Reads("GetProjectStatuses")
GetTaskStatuses        == Reads("GetTaskStatuses")
GetProjectCustomFields == Reads("GetProjectCustomFields")
GetWorkspace           == Reads("GetWorkspace")
CreateProjectUpdate    == Adds("CreateProjectUpdate")
ListProjectUpdates     == Reads("ListProjectUpdates")

(***************************************************************************)
(* Tasks: their fields, status, assignee, edges, links and comments.       *)
(***************************************************************************)
ListTasks               == Reads("ListTasks")
GetTask                 == Reads("GetTask")
CreateTask              == Adds("CreateTask")
UpdateTask              == Sets("UpdateTask")
MoveTask                == Sets("MoveTask")
AssignTask              == Sets("AssignTask")
CreateSubtask           == Adds("CreateSubtask")
AddDependency           == Adds("AddDependency")
UpdateDependency        == Sets("UpdateDependency")
RemoveDependency        == Sets("RemoveDependency")
GetTaskDependencies     == Reads("GetTaskDependencies")
AddComment              == Adds("AddComment")
AddVCSLink              == Sets("AddVCSLink")
MarkVCSLinkDeployed     == Sets("MarkVCSLinkDeployed")
PatchVCSLinkMetadata    == Sets("PatchVCSLinkMetadata")
UploadArtifact          == Adds("UploadArtifact")
ListArtifacts           == Reads("ListArtifacts")
GetArtifact             == Reads("GetArtifact")
GetTaskContext          == Reads("GetTaskContext")
CreateHumanGateDecision == Adds("CreateHumanGateDecision")
SetHumanGate            == Sets("SetHumanGate")
ClearHumanGate          == Sets("ClearHumanGate")
ClearStartAfter         == Sets("ClearStartAfter")
TurnCommand             == Adds("TurnCommand")

(***************************************************************************)
(* Agents, the team and its rules.                                         *)
(***************************************************************************)
Heartbeat             == Sets("Heartbeat")
PollTasks             == Reads("PollTasks")
PublishEvent          == Adds("PublishEvent")
GetContext            == Reads("GetContext")
UpdateAgent           == Sets("UpdateAgent")
UpdateMe              == Sets("UpdateMe")
RegisterSubAgent      == Adds("RegisterSubAgent")
ListSubAgents         == Reads("ListSubAgents")
GetEffectiveRules     == Reads("GetEffectiveRules")
GetTeamDirectory      == Reads("GetTeamDirectory")
GetAssignmentRules    == Reads("GetAssignmentRules")
GetWorkflowRules      == Reads("GetWorkflowRules")
UpdateAgentProfile    == Sets("UpdateAgentProfile")
ReportSession         == Adds("ReportSession")
ImportWorkspaceConfig == Sets("ImportWorkspaceConfig")
ExportWorkspaceConfig == Reads("ExportWorkspaceConfig")
ReadRuntime           == Reads("ReadRuntime")
SaveRuntime           == Sets("SaveRuntime")
SetAgentLimits        == Sets("SetAgentLimits")

(***************************************************************************)
(* Recurring schedules.                                                    *)
(***************************************************************************)
CreateRecurringSchedule == Adds("CreateRecurringSchedule")
ListRecurringSchedules  == Reads("ListRecurringSchedules")
GetRecurringHistory     == Reads("GetRecurringHistory")
TriggerRecurringNow     == Adds("TriggerRecurringNow")
UpdateRecurringSchedule == Sets("UpdateRecurringSchedule")
DeleteRecurringSchedule == Sets("DeleteRecurringSchedule")

(***************************************************************************)
(* Memories.                                                               *)
(***************************************************************************)
Remember            == Sets("Remember")
RecallMemories      == Reads("RecallMemories")
RecallFinal         == Reads("RecallFinal")
RecallWithGraph     == Reads("RecallWithGraph")
SetProjectKnowledge == Sets("SetProjectKnowledge")
GetProjectKnowledge == Reads("GetProjectKnowledge")
ForgetMemory        == Sets("ForgetMemory")
GetCanonicalUpdates == Reads("GetCanonicalUpdates")

(***************************************************************************)
(* Documents.                                                              *)
(***************************************************************************)
ListDocuments         == Reads("ListDocuments")
SearchDocuments       == Reads("SearchDocuments")
CreateDocument        == Adds("CreateDocument")
GetDocumentByPath     == Reads("GetDocumentByPath")
CreateDocumentComment == Adds("CreateDocumentComment")
=============================================================================
