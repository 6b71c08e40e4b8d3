--------------------------- MODULE IssueWorkflow ---------------------------
(***************************************************************************)
(* The Issue aggregate of packages/core/src/issue: the status machine of   *)
(* workflow.ts, the result recorders of results.ts and the review choices  *)
(* of apps/runtime/src/orchestration/reviews.ts, as operators on an issue  *)
(* record.  A recorder that throws in the code has an enabling predicate   *)
(* here (CanTransition, CanRebuild, ...); its caller conjoins it.          *)
(*                                                                         *)
(* Texts, timestamps and identifiers are dropped.  An evidence draft and a *)
(* delivery are represented by the Repair iteration they were made in, 0   *)
(* standing for "none"; iteration 0 stands for an issue with no repair.    *)
(***************************************************************************)
EXTENDS Naturals

CONSTANTS
    Capabilities,       \* what an Agent may ask for: HOST_EXECUTION, NETWORK_ACCESS
    AgentAssessments    \* the assessments an Agent may return

None == "NONE"

Verdicts == {"BUG", "FEATURE", "NOT_A_BUG", "UNCERTAIN"}
Assessment == [verdict : Verdicts, duplicate : BOOLEAN]
NoAssessment == [verdict |-> None, duplicate |-> FALSE]

ASSUME AssessmentAssumption == AgentAssessments \subseteq Assessment

Terminal == {"COMPLETED", "CLOSED", "CANCELED"}

(***************************************************************************)
(* transitions: the legal actions of each status and where they lead.      *)
(***************************************************************************)
Transitions ==
  [ RECEIVED              |-> [START_ASSESSMENT |-> "ASSESSING", CANCEL |-> "CANCELED"],
    ASSESSING             |-> [ASSESSMENT_READY |-> "ASSESSING",
                               ASSESSMENT_ERRORED |-> "ASSESSMENT_FAILED",
                               PAUSE |-> "PAUSED"],
    ASSESSMENT_FAILED     |-> [RETRY_ASSESSMENT |-> "ASSESSING", CANCEL |-> "CANCELED"],
    REPAIRING             |-> [IMPLEMENTATION_READY |-> "EVIDENCE_CAPTURE",
                               REPAIR_ERRORED |-> "REPAIR_FAILED",
                               PAUSE |-> "PAUSED"],
    EVIDENCE_CAPTURE      |-> [DELIVERY_READY |-> "EVIDENCE_CHECK",
                               EVIDENCE_ERRORED |-> "EVIDENCE_FAILED",
                               PAUSE |-> "PAUSED"],
    EVIDENCE_CHECK        |-> [EVIDENCE_REJECTED |-> "EVIDENCE_CAPTURE",
                               EVIDENCE_ACCEPTED |-> "EVIDENCE_CHECK",
                               EVIDENCE_ERRORED |-> "EVIDENCE_FAILED",
                               CANCEL |-> "CANCELED"],
    EVIDENCE_FAILED       |-> [RETRY_EVIDENCE |-> "EVIDENCE_CAPTURE", CANCEL |-> "CANCELED"],
    REPAIR_FAILED         |-> [RETRY_REPAIR |-> "REPAIRING", CANCEL |-> "CANCELED"],
    PERMISSION_REQUIRED   |-> [CANCEL |-> "CANCELED"],
    REVIEW_REQUIRED       |-> [CANCEL |-> "CANCELED"],
    FINALIZING            |-> [BEGIN_FINALIZATION_RECOVERY |-> "FINALIZATION_RECOVERY",
                               FINALIZATION_ERRORED |-> "FINALIZATION_FAILED",
                               BASE_INTEGRATION_STALE |-> "REPAIRING",
                               COMPLETE_DELIVERY |-> "COMPLETED"],
    FINALIZATION_RECOVERY |-> [RETRY_FINALIZATION |-> "FINALIZING",
                               FINALIZATION_RECOVERY_ERRORED |-> "FINALIZATION_FAILED",
                               FINALIZATION_RECOVERY_CHANGED_DELIVERY |-> "EVIDENCE_CAPTURE",
                               PAUSE |-> "PAUSED"],
    FINALIZATION_FAILED   |-> [RETRY_FINALIZATION_REPAIR |-> "REPAIRING",
                               CANCEL |-> "CANCELED"],
    PAUSED                |-> [CANCEL |-> "CANCELED"],
    COMPLETED             |-> << >>,
    CLOSED                |-> << >>,
    CANCELED              |-> << >> ]

Statuses == DOMAIN Transitions

(***************************************************************************)
(* pauseByStatus and resumeStatusByOperation: an interruptible status and  *)
(* the operation that is queued again when it is resumed.                  *)
(***************************************************************************)
PauseByStatus ==
  [ ASSESSING             |-> "ASSESS",
    REPAIRING             |-> "REPAIR",
    EVIDENCE_CAPTURE      |-> "CAPTURE_EVIDENCE",
    FINALIZATION_RECOVERY |-> "RECOVER_FINALIZATION" ]

ResumeStatus ==
  [ ASSESS               |-> "ASSESSING",
    REPAIR               |-> "REPAIRING",
    CAPTURE_EVIDENCE     |-> "EVIDENCE_CAPTURE",
    RECOVER_FINALIZATION |-> "FINALIZATION_RECOVERY" ]

AgentOperations == DOMAIN ResumeStatus
Operations == AgentOperations \cup {"PREPARE", "EVIDENCE", "FINALIZE"}

NoPause == [operation |-> None, ready |-> FALSE, at |-> 0]
NoRequest == [operation |-> None, capabilities |-> {}]
NoFailure == [stage |-> None, code |-> None]

Stages == {"ASSESSMENT", "REPAIR", "EVIDENCE", "FINALIZATION_RECOVERY"}
FailureCodes ==
  {"AGENT_FAILURE", "AGENT_SESSION_UNAVAILABLE", "EVIDENCE_INTAKE_FAILED",
   "EVIDENCE_RETRY_LIMIT_REACHED", "PUBLISH_FAILED", "FINALIZATION_RECOVERY_UNSAFE"}
Reviews == {"assessment", "delivery", "business-merge-conflict"}
Resolutions == {"NOT_A_BUG", "DUPLICATE", "FIXED", "IMPLEMENTED", "CANCELED"}

(***************************************************************************)
(* The persisted Issue.  recovery is finalizationRecovery: "ARMED" after a *)
(* human acceptance (automaticAttempts 0), "STARTED" once an attempt with  *)
(* its fingerprint is recorded (automaticAttempts 1).                      *)
(***************************************************************************)
Recoveries == {None, "ARMED", "STARTED"}
Failure == [stage : Stages \cup {None}, code : FailureCodes \cup {None}]
CapabilityRequest ==
  [operation : AgentOperations \cup {None}, capabilities : SUBSET Capabilities]
PauseContext == [operation : AgentOperations \cup {None}, ready : BOOLEAN, at : Nat]

Issue ==
  [ status     : Statuses,
    resolution : Resolutions \cup {None},
    path       : BOOLEAN,
    session    : BOOLEAN,
    assessment : Assessment \cup {NoAssessment},
    iteration  : Nat,
    retries    : Nat,
    draft      : Nat,
    delivery   : Nat,
    failure    : Failure,
    grants     : SUBSET Capabilities,
    request    : CapabilityRequest,
    review     : Reviews \cup {None},
    recovery   : Recoveries,
    pause      : PauseContext,
    revision   : Nat ]

(* createIssue *)
NewIssue ==
  [ status     |-> "RECEIVED",
    resolution |-> None,
    path       |-> FALSE,
    session    |-> FALSE,
    assessment |-> NoAssessment,
    iteration  |-> 0,
    retries    |-> 0,
    draft      |-> 0,
    delivery   |-> 0,
    failure    |-> NoFailure,
    grants     |-> {},
    request    |-> NoRequest,
    review     |-> None,
    recovery   |-> None,
    pause      |-> NoPause,
    revision   |-> 1 ]

-----------------------------------------------------------------------------
(* applyTransition *)

CanTransition(i, action) == action \in DOMAIN Transitions[i.status]

Moved(i, status) == [i EXCEPT !.status = status, !.revision = @ + 1]

(* What a terminal status forgets. *)
Ended(i) ==
  [i EXCEPT !.grants = {}, !.request = NoRequest, !.recovery = None,
            !.review = None, !.failure = NoFailure, !.pause = NoPause]

Transition(i, action) == Moved(i, Transitions[i.status][action])

StartAssessment(i) == [Transition(i, "START_ASSESSMENT") EXCEPT !.assessment = NoAssessment]

RetryAssessment(i) ==
  [Transition(i, "RETRY_ASSESSMENT") EXCEPT !.assessment = NoAssessment, !.failure = NoFailure]

(* The next iteration keeps the delivery, for the Agent to compare with. *)
RetryRepair(i) ==
  [Transition(i, "RETRY_REPAIR") EXCEPT
     !.iteration = @ + 1, !.retries = 0, !.draft = 0, !.failure = NoFailure]

CompleteDelivery(i) == Ended(Transition(i, "COMPLETE_DELIVERY"))

(* Mutant: a resolution misspelt. *)
CancelMisspelt(i) == Ended([Transition(i, "CANCEL") EXCEPT !.resolution = "CANCEL"])

Cancel(i) == Ended([Transition(i, "CANCEL") EXCEPT !.resolution = "CANCELED"])

(* Mutant: a pause that is not counted. *)
PauseUncounted(i) ==
  [i EXCEPT !.status = "PAUSED",
            !.pause = [operation |-> PauseByStatus[i.status], ready |-> FALSE, at |-> i.revision]]

Pause(i) ==
  [Transition(i, "PAUSE") EXCEPT
     !.pause = [operation |-> PauseByStatus[i.status], ready |-> FALSE, at |-> i.revision + 1]]

CanResume(i) == i.status = "PAUSED" /\ i.pause.ready

Resume(i) == [Moved(i, ResumeStatus[i.pause.operation]) EXCEPT !.pause = NoPause]

CompleteIssuePause(i) == [i EXCEPT !.pause.ready = TRUE, !.revision = @ + 1]

-----------------------------------------------------------------------------
(* results.ts *)

RequestReview(i, kind) ==
  [Moved(i, "REVIEW_REQUIRED") EXCEPT !.review = kind, !.failure = NoFailure]

RecordCapabilityRequest(i, operation, capabilities) ==
  [Moved(i, "PERMISSION_REQUIRED") EXCEPT
     !.request = [operation |-> operation, capabilities |-> capabilities \ i.grants],
     !.failure = NoFailure]

GrantCapabilityRequest(i) ==
  [Moved(i, ResumeStatus[i.request.operation]) EXCEPT
     !.grants = @ \cup i.request.capabilities, !.request = NoRequest]

RecordAgentSession(i) == [i EXCEPT !.session = TRUE, !.revision = @ + 1]

CanReplaceAgentSession(i) ==
  /\ i.session
  /\ i.failure.code = "AGENT_SESSION_UNAVAILABLE"
  /\ \/ i.status = "ASSESSMENT_FAILED" /\ i.failure.stage = "ASSESSMENT"
     \/ i.status = "REPAIR_FAILED" /\ i.failure.stage = "REPAIR"

(* The rebuilt session keeps the assessment and, unlike a retry, the whole *)
(* repair record.                                                          *)
ReplaceAgentSession(i) ==
  IF i.status = "ASSESSMENT_FAILED"
    THEN [RetryAssessment(i) EXCEPT !.assessment = i.assessment]
    ELSE [RetryRepair(i) EXCEPT !.retries = i.retries, !.draft = i.draft]

RecordAssessment(i, assessment) ==
  [Transition(i, "ASSESSMENT_READY") EXCEPT !.assessment = assessment, !.failure = NoFailure]

Failed(i, action, stage, code) ==
  [Transition(i, action) EXCEPT !.failure = [stage |-> stage, code |-> code]]

RecordAssessmentFailure(i, code) == Failed(i, "ASSESSMENT_ERRORED", "ASSESSMENT", code)
RecordRepairFailure(i, code) == Failed(i, "REPAIR_ERRORED", "REPAIR", code)
RecordEvidenceFailure(i, code) == Failed(i, "EVIDENCE_ERRORED", "EVIDENCE", code)

(* Mutant: a draft that is there is kept. *)
RecordImplementationDraftOnce(i) ==
  [Transition(i, "IMPLEMENTATION_READY") EXCEPT
     !.draft = IF i.draft > 0 THEN i.draft ELSE i.iteration, !.delivery = 0, !.failure = NoFailure]

(* The draft belongs to the iteration that was implemented; an older       *)
(* delivery is dropped, the evidence retries already spent are not.        *)
RecordImplementationDraft(i) ==
  [Transition(i, "IMPLEMENTATION_READY") EXCEPT
     !.draft = i.iteration, !.delivery = 0, !.failure = NoFailure]

(* Evidence is imported under the iteration of the issue it is read from. *)
RecordDelivery(i) ==
  [Transition(i, "DELIVERY_READY") EXCEPT !.delivery = i.iteration, !.failure = NoFailure]

RecordEvidenceRejection(i) == [Transition(i, "EVIDENCE_REJECTED") EXCEPT !.delivery = 0]

RecordEvidenceAcceptance(i) == Transition(i, "EVIDENCE_ACCEPTED")

RetryEvidence(i) == [Transition(i, "RETRY_EVIDENCE") EXCEPT !.failure = NoFailure]

RecordRecoveryUnchanged(i) == [Transition(i, "RETRY_FINALIZATION") EXCEPT !.failure = NoFailure]

(* Mutant: the changed delivery is published without new evidence and review. *)
RecordRecoveryChangedTrusted(i) ==
  [Transition(i, "RETRY_FINALIZATION") EXCEPT
     !.iteration = @ + 1, !.draft = i.iteration + 1, !.failure = NoFailure]

RecordRecoveryChanged(i) ==
  [Transition(i, "FINALIZATION_RECOVERY_CHANGED_DELIVERY") EXCEPT
     !.iteration = @ + 1, !.draft = i.iteration + 1,
     !.retries = 0, !.delivery = 0, !.failure = NoFailure]

RecordRecoveryUnsafe(i) ==
  Failed(i, "FINALIZATION_RECOVERY_ERRORED", "FINALIZATION_RECOVERY",
         "FINALIZATION_RECOVERY_UNSAFE")

(* A new iteration whose repair record holds nothing but feedback. *)
ReopenedForRepair(i, action) ==
  [Transition(i, action) EXCEPT
     !.iteration = @ + 1, !.retries = 0, !.draft = 0, !.delivery = 0,
     !.resolution = None, !.recovery = None, !.failure = NoFailure]

(* Mutant: a stale base is integrated without leaving FINALIZING. *)
RecordBaseIntegrationStaleInPlace(i) ==
  [i EXCEPT !.iteration = @ + 1, !.failure = NoFailure, !.revision = @ + 1]

RecordBaseIntegrationStale(i) == ReopenedForRepair(i, "BASE_INTEGRATION_STALE")
RetryFinalizationAsRepair(i) == ReopenedForRepair(i, "RETRY_FINALIZATION_REPAIR")

-----------------------------------------------------------------------------
(* reviews.ts: the finite choices of a pending review, each with the status *)
(* it leads to, the operation it queues and the resolution it records.      *)

Choice(id, resume, operation, resolution) ==
  [id |-> id, resume |-> resume, operation |-> operation, resolution |-> resolution]

AssessmentChoices(i) ==
  UNION {
    IF i.assessment.verdict \in {"BUG", "FEATURE"}
      THEN {Choice("implement", "REPAIRING", "REPAIR", None)} ELSE {},
    IF i.assessment.verdict = "NOT_A_BUG"
      THEN {Choice("not-a-bug", "CLOSED", None, "NOT_A_BUG")} ELSE {},
    IF i.assessment.duplicate
      THEN {Choice("duplicate", "CLOSED", None, "DUPLICATE")} ELSE {},
    {Choice("reassess", "ASSESSING", "ASSESS", None)} }

DeliveryChoices(i) ==
  { Choice("accept", "FINALIZING", "FINALIZE",
           IF i.assessment.verdict = "FEATURE" THEN "IMPLEMENTED" ELSE "FIXED"),
    Choice("request-changes", "REPAIRING", "REPAIR", None) }

BusinessChoices == {Choice("business", "REPAIRING", "REPAIR", None)}

ReviewChoices(i) ==
  CASE i.review = "assessment"              -> AssessmentChoices(i)
    [] i.review = "delivery"                -> DeliveryChoices(i)
    [] i.review = "business-merge-conflict" -> BusinessChoices
    [] OTHER                                -> {}

(* submitReview of results.ts followed by applyReviewSideEffects. *)
SubmitReview(i, choice) ==
  LET selected == [Moved(i, choice.resume) EXCEPT
                     !.resolution = IF choice.resolution = None THEN @ ELSE choice.resolution,
                     !.review = None, !.failure = NoFailure]
  IN  CASE choice.id = "implement" ->
             [selected EXCEPT !.iteration = @ + 1, !.retries = 0, !.draft = 0, !.delivery = 0]
        [] choice.id = "reassess" -> [selected EXCEPT !.assessment = NoAssessment]
        [] choice.id = "request-changes" -> [selected EXCEPT !.iteration = @ + 1]
        [] choice.id = "accept" -> [selected EXCEPT !.recovery = "ARMED"]
        [] choice.resume = "CLOSED" ->
             [selected EXCEPT !.grants = {}, !.request = NoRequest, !.recovery = None]
        [] OTHER -> selected
=============================================================================
