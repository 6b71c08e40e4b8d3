-------------------------- MODULE StagePermissions --------------------------
(***************************************************************************)
(* What the Agent of an Issue may do in a stage, and how it comes to be    *)
(* allowed more: the project's permission mode, the grants of the Issue,   *)
(* the sandbox and the prompt of a turn, the Agent's structured answer and *)
(* its request for a capability, which the human grants (stageTurn of the  *)
(* Codex adapter, stage-capabilities.ts, output-schemas.ts, prompts.ts).   *)
(***************************************************************************)
EXTENDS Naturals, FiniteSets

CONSTANT MaxAttempts    \* bound: revisions of the Issue

VARIABLES
    permissionMode,     \* permissionMode of the project
    granted,            \* capabilityGrants of the Issue
    request,            \* capabilities of its pendingCapabilityRequest
    row,                \* its revision, the stage queued, and its last event that queued one
    attempt,            \* the stage under way
    asked               \* history: how often the human was asked

permissionVars == <<permissionMode, granted, request, row, attempt, asked>>

AgentCapability == {"HOST_EXECUTION", "NETWORK_ACCESS"}
PermissionModes == {"request-approval", "auto-review", "full-access"}
AgentStages == {"ASSESSMENT", "REPAIR", "EVIDENCE", "FINALIZATION_RECOVERY"}
nothing == "NONE"

-----------------------------------------------------------------------------
(* What a stage has.  Repair always has the network, for its tools.        *)

Available(mode, grants, stage) ==
  grants \cup (IF stage = "REPAIR" THEN {"NETWORK_ACCESS"} ELSE {})
         \cup (IF mode = "full-access" THEN AgentCapability ELSE {})

(* The defaults of assess, repair, captureEvidence and recoverFinalization. *)
Default(stage) == IF stage = "ASSESSMENT" THEN "read-only" ELSE "workspace-write"

(* projectPermissionOptions *)
Options(mode, grants, stage) ==
  IF mode = "full-access"
    THEN [sandbox |-> "danger-full-access", network |-> TRUE, reviewer |-> nothing]
    ELSE LET has == Available("request-approval", grants, stage)
         IN  [sandbox  |-> IF "HOST_EXECUTION" \in has THEN "danger-full-access" ELSE Default(stage),
              network  |-> "NETWORK_ACCESS" \in has,
              reviewer |-> IF mode = "auto-review" THEN "auto_review" ELSE nothing]

(* What the app-server lets a turn do by the sandbox policy of the options. *)
SandboxPolicy(options) ==
  IF options.sandbox = "danger-full-access" THEN AgentCapability
  ELSE IF options.network THEN {"NETWORK_ACCESS"} ELSE {}

-----------------------------------------------------------------------------
(* What the Agent returns: the envelope of the output schemas, filled in   *)
(* as it likes, or an error.  "bad" stands for what a parser refuses.      *)
Envelopes ==
  [outcome : {"RESULT", "CAPABILITY_REQUIRED"},
   result  : {nothing, "good", "bad"},
   request : (SUBSET AgentCapability) \cup {{"bad"}}]

Errors == {"permission", "other"}

(* parseCapabilityRequiredOutput: the capabilities asked for, or refused.  *)
Requests(output) == output.outcome = "CAPABILITY_REQUIRED"
RequestRefused(output) ==
  output.result # nothing \/ output.request = {} \/ output.request = {"bad"}

(* unwrapResult and the parser of the stage's result.                      *)
ResultAccepted(output) ==
  output.outcome = "RESULT" /\ output.result = "good" /\ output.request = {}

(* Mutant: what the stage already has is asked for once more. *)
CheckUnfiltered(output) ==
  IF ~Requests(output) THEN "NONE"
  ELSE IF attempt.mode = "auto-review" THEN "AUTO_REVIEW" ELSE "NEW"

(* checkCapabilityRequest of a request that was parsed.                    *)
Check(output) ==
  IF ~Requests(output) THEN "NONE"
  ELSE IF output.request \subseteq attempt.has THEN "REDUNDANT"
  ELSE IF attempt.mode = "auto-review" THEN "AUTO_REVIEW"
  ELSE "NEW"

-----------------------------------------------------------------------------
Idle0 == [pc |-> "idle", stage |-> nothing, mode |-> nothing, has |-> {}, may |-> {},
          told |-> nothing, turns |-> 0, outcome |-> nothing]
NoEvent == [reason |-> nothing, revision |-> 0, capabilities |-> {}]

InitPermission ==
  /\ permissionMode \in PermissionModes /\ granted = {} /\ request = {}
  /\ row = [revision |-> 1, queued |-> "ASSESSMENT", event |-> NoEvent]
  /\ attempt = Idle0 /\ asked = 0

(* A transition that queues a stage, and the event that says why.          *)
Queued(stage, reason, capabilities) ==
  row' = [revision |-> row.revision + 1, queued |-> stage,
          event |-> [reason |-> reason, revision |-> row.revision + 1, capabilities |-> capabilities]]

Below == row.revision < MaxAttempts

(* continuation: the event counts while the Issue is as it left it.        *)
Continuation == IF row.event.revision = row.revision THEN row.event.reason ELSE nothing

(* What the prompt of a stage says the Agent has, and why it goes on.      *)
Prompt(stage) ==
  [has |-> Available(permissionMode, granted, stage), told |-> Continuation]

(* The worker takes the stage up with the project as it is now.            *)
BeginStage ==
  /\ attempt.pc = "idle" /\ row.queued # nothing
  /\ attempt' = [pc |-> "turn", stage |-> row.queued, mode |-> permissionMode,
                 has |-> Prompt(row.queued).has, told |-> Prompt(row.queued).told,
                 may |-> SandboxPolicy(Options(permissionMode, granted, row.queued)),
                 turns |-> 1, outcome |-> nothing]
  /\ row' = [row EXCEPT !.queued = nothing]
  /\ UNCHANGED <<permissionMode, granted, request, asked>>

PermissionFrame == UNCHANGED <<permissionMode, granted>>

(* Only the first turn of a stage is followed by another.                  *)
Corrects == attempt.turns = 1 /\ attempt' = [attempt EXCEPT !.turns = @ + 1]

(* The stage is over without a request: the worker records its result or   *)
(* its failure, and the Issue waits for a review or a retry.               *)
Over(outcome) ==
  /\ attempt' = [Idle0 EXCEPT !.stage = attempt.stage, !.outcome = outcome]
  /\ row' = [row EXCEPT !.revision = @ + 1]

TurnFails(error) ==
  /\ attempt.pc = "turn"
  /\ \/ error = "permission" /\ Corrects /\ UNCHANGED row
     \/ ~(error = "permission" /\ attempt.turns = 1) /\ Over("failed")
  /\ UNCHANGED <<request, asked>> /\ PermissionFrame

(* pauseForCapability and recordCapabilityRequest.                         *)
Asks(capabilities) ==
  /\ attempt' = [attempt EXCEPT !.pc = "asking"]
  /\ request' = capabilities \ granted
  /\ row' = [row EXCEPT !.revision = @ + 1]
  /\ asked' = asked + 1

(* stageTurn, once a turn of it has returned.                              *)
TurnReturns(output) ==
  /\ attempt.pc = "turn"
  /\ IF Requests(output) /\ RequestRefused(output)
       THEN Over("failed") /\ UNCHANGED <<request, asked>>
       ELSE \/ Check(output) = "NEW" /\ Asks(output.request \ attempt.has)
            \/ /\ Check(output) = "NONE"
               /\ Over(IF ResultAccepted(output) THEN "result" ELSE "failed")
               /\ UNCHANGED <<request, asked>>
            \/ /\ Check(output) \in {"REDUNDANT", "AUTO_REVIEW"}
               /\ (Corrects /\ UNCHANGED row) \/ (attempt.turns > 1 /\ Over("failed"))
               /\ UNCHANGED <<request, asked>>
  /\ PermissionFrame

(* The stages that may follow one: the workflow's transitions.             *)
Follow ==
  [ ASSESSMENT            |-> {"ASSESSMENT", "REPAIR"},
    REPAIR                |-> {"REPAIR", "EVIDENCE"},
    EVIDENCE              |-> {"REPAIR", "EVIDENCE", "FINALIZATION_RECOVERY"},
    FINALIZATION_RECOVERY |-> {"REPAIR", "EVIDENCE"} ]

(* The answer of a review, or a retry of a stage that failed.              *)
QueueStage(stage) ==
  /\ Below /\ attempt.outcome # nothing
  /\ \/ /\ attempt.outcome = "result" /\ stage \in Follow[attempt.stage]
        /\ Queued(stage, "REVIEW_SUBMITTED", {})
     \/ /\ attempt.outcome = "failed"
        /\ stage = IF attempt.stage = "FINALIZATION_RECOVERY" THEN "REPAIR" ELSE attempt.stage
        /\ row' = [row EXCEPT !.revision = @ + 1, !.queued = stage]
  /\ attempt' = Idle0
  /\ UNCHANGED <<request, asked>> /\ PermissionFrame

(* grantIssueCapabilities *)
Grant ==
  /\ Below /\ attempt.pc = "asking"
  /\ granted' = granted \cup request
  /\ request' = {}
  /\ Queued(attempt.stage, "CAPABILITY_GRANTED", request)
  /\ attempt' = Idle0
  /\ UNCHANGED <<permissionMode, asked>>

(* The stage is paused and resumed, or interrupted by a stop.              *)
InterruptStage ==
  /\ Below /\ attempt.pc = "turn"
  /\ \E reason \in {"USER_RESUMED", "RUNTIME_INTERRUPTED"} : Queued(attempt.stage, reason, {})
  /\ attempt' = Idle0
  /\ UNCHANGED <<request, asked>> /\ PermissionFrame

(* acceptIntegrationInput of an input that joins the Issue.                *)
JoinInput ==
  /\ Below /\ row.queued # nothing
  /\ row' = [row EXCEPT !.revision = @ + 1]
  /\ UNCHANGED <<request, attempt, asked>> /\ PermissionFrame

(* The project is saved.                                                   *)
SetPermissionMode ==
  /\ permissionMode' \in PermissionModes \ {permissionMode}
  /\ UNCHANGED <<granted, request, row, attempt, asked>>

PermissionNext ==
  \/ BeginStage \/ Grant \/ InterruptStage \/ JoinInput \/ SetPermissionMode
  \/ \E stage \in AgentStages : QueueStage(stage)
  \/ \E error \in Errors : TurnFails(error)
  \/ \E output \in Envelopes : TurnReturns(output)
=============================================================================
