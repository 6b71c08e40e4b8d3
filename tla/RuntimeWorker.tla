---------------------------- MODULE RuntimeWorker ----------------------------
(***************************************************************************)
(* RuntimeWorker: the operation that is started for a pending Issue and    *)
(* every await of it, for Agent stages and the evidence check.  The steps  *)
(* of the workspace stages are in WorkspaceCoordinator.                    *)
(*                                                                         *)
(* Between listing the pending operations and the first await of one there *)
(* are only microtasks, so starting and claiming it are one step.  What an *)
(* Agent is told of the reason it is started again (continuation) is left  *)
(* out.                                                                    *)
(***************************************************************************)
EXTENDS RuntimeState

MAX_AUTOMATIC_EVIDENCE_RETRIES == 2

OperationFrame == UNCHANGED <<reviewed, mode, pauser, history>>

(* The pump lists the issue: it has a pending operation, nothing runs for  *)
(* it, and it has not failed in this pump.                                 *)
Dispatched(operation) ==
  /\ mode = "up"
  /\ ~Active
  /\ ~asleep
  /\ pending = operation

Started(pc, operation, claimed) ==
  op' = [NoOp EXCEPT !.pc = pc, !.kind = operation, !.snap = claimed]

At(pc, kinds) == op.pc = pc /\ op.kind \in kinds
InTurn(kinds) == op.pc \in Turning /\ op.kind \in kinds

Goto(pc) == op' = [op EXCEPT !.pc = pc]
Settle == op' = NoOp /\ asleep' = asleep
Reject == op' = NoOp /\ asleep' = TRUE

(* The finally block that removes the evidence intake; with an exception   *)
(* under way it rejects the operation afterwards.                          *)
CleanUp(pc) == op' = [NoOp EXCEPT !.pc = pc] /\ asleep' = asleep

-----------------------------------------------------------------------------
(* queueEvidenceCapture and requeueEvidence                                *)
RequeuedCapture(i) ==
  [(IF i.status = "EVIDENCE_CHECK" THEN RecordEvidenceRejection(i) ELSE i) EXCEPT
     !.retries = i.retries + 1, !.delivery = 0, !.failure = NoFailure,
     !.revision = i.revision + 1]

(* Mutant: the capture is counted, the operation not queued. *)
QueueEvidenceCaptureForgotten(i) ==
  IF i.retries >= MAX_AUTOMATIC_EVIDENCE_RETRIES
    THEN Complete(i, RecordEvidenceFailure(i, "EVIDENCE_RETRY_LIMIT_REACHED"), None)
    ELSE Complete(i, RequeuedCapture(i), None)

QueueEvidenceCapture(i) ==
  IF i.retries >= MAX_AUTOMATIC_EVIDENCE_RETRIES
    THEN Complete(i, RecordEvidenceFailure(i, "EVIDENCE_RETRY_LIMIT_REACHED"), None)
    ELSE Complete(i, RequeuedCapture(i), "CAPTURE_EVIDENCE")

-----------------------------------------------------------------------------
(* assess, up to its claim.  An Issue without a session awaits a new one,  *)
(* its operation still pending; the claim then reads the Issue again.      *)

ClaimedAssessment(i) ==
  LET withSession == IF i.session THEN i ELSE RecordAgentSession(i)
  IN  IF i.status = "RECEIVED" THEN StartAssessment(withSession) ELSE withSession

BeginAssessment(snapshot) ==
  IF issue.status \in {"RECEIVED", "ASSESSING"}
    THEN /\ Store(ClaimedAssessment(issue), None)
         /\ Started("turn", "ASSESS", ClaimedAssessment(issue))
    ELSE UNCHANGED <<issue, pending>> /\ op' = NoOp

(* failPendingAssessment *)
FailPendingAssessment(snapshot) ==
  LET assessing == IF issue.status = "RECEIVED" THEN StartAssessment(issue) ELSE issue
  IN  IF Current(snapshot) /\ issue.status \in {"RECEIVED", "ASSESSING"}
        THEN Store(RecordAssessmentFailure(assessing, "AGENT_FAILURE"), None)
        ELSE UNCHANGED <<issue, pending>>

Assess ==
  /\ Dispatched("ASSESS")
  /\ IF ~issue.path THEN Reject /\ UNCHANGED <<issue, pending>>
     ELSE /\ asleep' = asleep
          /\ IF issue.session THEN BeginAssessment(issue)
             ELSE Started("creating", "ASSESS", issue) /\ UNCHANGED <<issue, pending>>
  /\ UNCHANGED binding /\ OperationFrame

SessionCreated ==
  /\ At("creating", {"ASSESS"})
  /\ BeginAssessment(op.snap)
  /\ UNCHANGED <<binding, asleep>> /\ OperationFrame

SessionNotCreated ==
  /\ At("creating", {"ASSESS"})
  /\ FailPendingAssessment(op.snap)
  /\ Settle
  /\ UNCHANGED binding /\ OperationFrame

-----------------------------------------------------------------------------
(* repair and captureEvidence, up to the Agent's turn or the host capture  *)

RepairContext(i) == i.session /\ i.assessment # NoAssessment /\ i.iteration > 0

Repair ==
  /\ Dispatched("REPAIR")
  /\ IF RepairContext(issue) /\ issue.status = "REPAIRING" /\ issue.path
       THEN Store(issue, None) /\ Started("observing", "REPAIR", issue) /\ asleep' = asleep
       ELSE Reject /\ UNCHANGED <<issue, pending>>
  /\ UNCHANGED binding /\ OperationFrame

(* readyProvider throws without a ready binding; an issue that has none is *)
(* given one at startup when the local provider is there.                  *)
RepairObserved ==
  /\ At("observing", {"REPAIR"})
  /\ binding = "READY"
  /\ Goto("intake")
  /\ UNCHANGED <<issue, pending, binding, asleep>> /\ OperationFrame

RepairNotObserved ==
  /\ At("observing", {"REPAIR"})
  /\ Complete(op.snap, RecordRepairFailure(op.snap, "AGENT_FAILURE"), None)
  /\ Settle
  /\ UNCHANGED binding /\ OperationFrame

CaptureContext(i) ==
  i.session /\ i.assessment # NoAssessment /\ i.draft > 0 /\ i.status = "EVIDENCE_CAPTURE"

CaptureEvidence ==
  /\ Dispatched("CAPTURE_EVIDENCE")
  /\ IF CaptureContext(issue) /\ issue.path
       THEN Store(issue, None) /\ Started("intake", "CAPTURE_EVIDENCE", issue) /\ asleep' = asleep
       ELSE Reject /\ UNCHANGED <<issue, pending>>
  /\ UNCHANGED binding /\ OperationFrame

(* The turn starts whether or not the issue has been paused meanwhile.     *)
IntakePrepared ==
  /\ At("intake", {"REPAIR", "CAPTURE_EVIDENCE"})
  /\ Goto(IF HostCapture /\ op.kind = "CAPTURE_EVIDENCE" THEN "capturing" ELSE "turn")
  /\ UNCHANGED <<issue, pending, binding, asleep>> /\ OperationFrame

IntakeFailed ==
  /\ At("intake", {"REPAIR", "CAPTURE_EVIDENCE"})
  /\ "intake" \in Faults
  /\ IF op.kind = "REPAIR"
       THEN Complete(op.snap, RecordRepairFailure(op.snap, "EVIDENCE_INTAKE_FAILED"), None)
       ELSE QueueEvidenceCapture(op.snap)
  /\ Settle
  /\ UNCHANGED binding /\ OperationFrame

-----------------------------------------------------------------------------
(* The Agent's turn.  One that is aborted after its last check still       *)
(* returns, so an interruption only adds an outcome.                       *)

(* A correction registers a turn of its own, whose signal is fresh.        *)
TurnCorrected ==
  /\ op.pc = "turn" /\ op.interrupt # None
  /\ op' = [op EXCEPT !.pc = "correcting", !.interrupt = None]
  /\ UNCHANGED <<issue, pending, binding, asleep>> /\ OperationFrame

(* What follows the turn of an operation that is over.                     *)
Leave ==
  IF op.kind \in {"REPAIR", "CAPTURE_EVIDENCE"} THEN CleanUp("cleanup") ELSE Settle

(* captureEvidence rethrows every error but the signal's own reason once   *)
(* the issue has been paused.                                              *)
Rethrows == op.kind = "CAPTURE_EVIDENCE" /\ op.aborted

AssessmentReturned(assessment) ==
  /\ InTurn({"ASSESS"})
  /\ Complete(op.snap, RequestReview(RecordAssessment(op.snap, assessment), "assessment"), None)
  /\ Leave
  /\ UNCHANGED binding /\ OperationFrame

RepairReturned(result) ==
  /\ InTurn({"REPAIR"})
  /\ op' = [op EXCEPT !.pc = "validating", !.result = result, !.interrupt = None]
  /\ UNCHANGED <<issue, pending, binding, asleep>> /\ OperationFrame

EvidenceReturned ==
  /\ \/ InTurn({"CAPTURE_EVIDENCE"})
     \/ At("capturing", {"CAPTURE_EVIDENCE"})
  /\ IF op.aborted
       THEN CleanUp("cleanup")
       ELSE op' = [op EXCEPT !.pc = "importing", !.interrupt = None] /\ asleep' = asleep
  /\ UNCHANGED <<issue, pending, binding>> /\ OperationFrame

(* validateFinalizationRecovery first looks whether the issue is current.  *)
Revalidated(result) ==
  IF Current(op.snap)
    THEN op' = [op EXCEPT !.pc = "validating", !.result = result, !.interrupt = None]
    ELSE op' = NoOp

RecoveryReturned(result) ==
  /\ InTurn({"RECOVER_FINALIZATION"})
  /\ Revalidated(result)
  /\ UNCHANGED <<issue, pending, binding, asleep>> /\ OperationFrame

(* pauseForCapability.  The adapter throws for capabilities not granted.   *)
CapabilityRequired(capabilities) ==
  /\ op.pc \in Turning
  /\ ~(capabilities \subseteq op.snap.grants)
  /\ IF Rethrows
       THEN UNCHANGED <<issue, pending>> /\ CleanUp("unwinding")
       ELSE /\ Complete(op.snap, RecordCapabilityRequest(op.snap, op.kind, capabilities), None)
            /\ Leave
  /\ UNCHANGED binding /\ OperationFrame

(* Every other error of the turn.                                          *)
FailTurn(code) ==
  CASE op.kind = "ASSESS" ->
         Complete(op.snap, RecordAssessmentFailure(op.snap, code), None) /\ Leave
    [] op.kind = "REPAIR" ->
         Complete(op.snap, RecordRepairFailure(op.snap, code), None) /\ Leave
    [] op.kind = "CAPTURE_EVIDENCE" ->
         IF op.aborted
           THEN UNCHANGED <<issue, pending>> /\ CleanUp("unwinding")
           ELSE QueueEvidenceCapture(op.snap) /\ Leave
    [] OTHER ->
         UNCHANGED <<issue, pending>> /\ Revalidated("failed") /\ asleep' = asleep

TurnFailed(code) ==
  /\ op.pc \in Turning
  /\ FailTurn(code)
  /\ UNCHANGED binding /\ OperationFrame

(* requeueInterrupted: only a stopping Runtime queues the operation again. *)
TurnInterrupted ==
  /\ op.pc \in Turning
  /\ op.interrupt # None
  /\ IF op.interrupt = "RUNTIME_STOPPING" /\ ~Rethrows
       THEN /\ Complete(op.snap, [op.snap EXCEPT !.revision = @ + 1], op.kind)
            /\ Leave
       ELSE FailTurn("AGENT_FAILURE")
  /\ UNCHANGED binding /\ OperationFrame

(* captureWithHost throws the signal's reason, or another error when its   *)
(* own clean-up fails.                                                     *)
HostCaptureAborted ==
  /\ At("capturing", {"CAPTURE_EVIDENCE"})
  /\ op.aborted
  /\ \/ CleanUp("cleanup")
     \/ "cleanup" \in Faults /\ CleanUp("unwinding")
  /\ UNCHANGED <<issue, pending, binding>> /\ OperationFrame

HostCaptureFailed ==
  /\ At("capturing", {"CAPTURE_EVIDENCE"})
  /\ ~op.aborted
  /\ QueueEvidenceCapture(op.snap)
  /\ CleanUp("cleanup")
  /\ UNCHANGED binding /\ OperationFrame

-----------------------------------------------------------------------------
(* The rest of repair: validation by the workspace, then the delivery.     *)

RepairInvalid ==
  /\ At("validating", {"REPAIR"})
  /\ Complete(op.snap, RecordRepairFailure(op.snap, "AGENT_FAILURE"), None)
  /\ CleanUp("cleanup")
  /\ UNCHANGED binding /\ OperationFrame

BusinessDecisionRequired ==
  /\ At("validating", {"REPAIR"})
  /\ op.result = "business"
  /\ Complete(op.snap, RequestReview(op.snap, "business-merge-conflict"), None)
  /\ CleanUp("cleanup")
  /\ UNCHANGED binding /\ OperationFrame

ImplementationReady ==
  LET drafted == RecordImplementationDraft(op.snap)
  IN  /\ At("validating", {"REPAIR"})
      /\ op.result \in {"evidence", "noEvidence"}
      /\ IF op.result = "evidence" /\ Current(op.snap)
           THEN /\ Store(drafted, None)
                /\ op' = [op EXCEPT !.pc = "importing", !.snap = drafted, !.result = None]
                /\ asleep' = asleep
           ELSE Complete(op.snap, drafted, "CAPTURE_EVIDENCE") /\ CleanUp("cleanup")
      /\ UNCHANGED binding /\ OperationFrame

DeliveryImported ==
  /\ At("importing", {"REPAIR", "CAPTURE_EVIDENCE"})
  /\ Complete(op.snap, RecordDelivery(op.snap), "EVIDENCE")
  /\ CleanUp("cleanup")
  /\ UNCHANGED binding /\ OperationFrame

DeliveryNotImported ==
  /\ At("importing", {"REPAIR", "CAPTURE_EVIDENCE"})
  /\ QueueEvidenceCapture(op.snap)
  /\ CleanUp("cleanup")
  /\ UNCHANGED binding /\ OperationFrame

(* intake.cleanup *)
IntakeRemoved ==
  /\ op.pc \in {"cleanup", "unwinding"}
  /\ IF op.pc = "cleanup" THEN Settle ELSE Reject
  /\ UNCHANGED <<issue, pending, binding>> /\ OperationFrame

IntakeNotRemoved ==
  /\ op.pc \in {"cleanup", "unwinding"}
  /\ "cleanup" \in Faults
  /\ Reject
  /\ UNCHANGED <<issue, pending, binding>> /\ OperationFrame

-----------------------------------------------------------------------------
(* inspectEvidence *)

InspectEvidence ==
  /\ Dispatched("EVIDENCE")
  /\ IF issue.status = "EVIDENCE_CHECK" /\ issue.delivery > 0
       THEN Store(issue, None) /\ Started("inspecting", "EVIDENCE", issue)
       ELSE UNCHANGED <<issue, pending, op>>
  /\ UNCHANGED <<binding, asleep>> /\ OperationFrame

EvidenceReviewable ==
  /\ At("inspecting", {"EVIDENCE"})
  /\ Complete(op.snap, RequestReview(RecordEvidenceAcceptance(op.snap), "delivery"), None)
  /\ Settle
  /\ UNCHANGED binding /\ OperationFrame

EvidenceNotReviewable ==
  /\ At("inspecting", {"EVIDENCE"})
  /\ QueueEvidenceCapture(op.snap)
  /\ Settle
  /\ UNCHANGED binding /\ OperationFrame

-----------------------------------------------------------------------------
(* recoverFinalization, up to its turn.  Without the context of an attempt *)
(* it is settled as unsafe, its operation still pending.                   *)
RecoverFinalization ==
  /\ Dispatched("RECOVER_FINALIZATION")
  /\ IF issue.status # "FINALIZATION_RECOVERY" THEN UNCHANGED <<issue, pending, op>>
     ELSE IF issue.session /\ issue.recovery = "STARTED"
       THEN Store(issue, None) /\ Started("turn", "RECOVER_FINALIZATION", issue)
       ELSE /\ op' = [NoOp EXCEPT !.pc = "validating", !.kind = "RECOVER_FINALIZATION",
                                  !.snap = issue, !.result = "failed"]
            /\ UNCHANGED <<issue, pending>>
  /\ UNCHANGED <<binding, asleep>> /\ OperationFrame

-----------------------------------------------------------------------------
(* forSession or forProject throws: the Agent's plugin is not installed.   *)
AgentUnavailable ==
  /\ pending # None /\ Dispatched(pending)
  /\ \/ /\ pending = "ASSESS" /\ issue.path
        /\ FailPendingAssessment(issue)
        /\ op' = op
     \/ /\ pending = "REPAIR" /\ RepairContext(issue)
        /\ CanTransition(issue, "REPAIR_ERRORED")
        /\ Store(RecordRepairFailure(issue, "AGENT_FAILURE"), None)
        /\ op' = op
     \/ /\ pending = "RECOVER_FINALIZATION" /\ issue.status = "FINALIZATION_RECOVERY"
        /\ op' = [NoOp EXCEPT !.pc = "validating", !.kind = "RECOVER_FINALIZATION",
                              !.snap = issue, !.result = "failed"]
        /\ UNCHANGED <<issue, pending>>
  /\ UNCHANGED <<binding, asleep>> /\ OperationFrame

WorkerNext ==
  \/ Assess \/ SessionCreated \/ SessionNotCreated
  \/ Repair \/ RepairObserved \/ RepairNotObserved
  \/ CaptureEvidence \/ IntakePrepared \/ IntakeFailed
  \/ TurnCorrected \/ TurnInterrupted
  \/ \E assessment \in AgentAssessments : AssessmentReturned(assessment)
  \/ \E result \in {"business", "evidence", "noEvidence"} : RepairReturned(result)
  \/ EvidenceReturned
  \/ \E result \in {"resolved", "unsafe"} : RecoveryReturned(result)
  \/ \E capabilities \in SUBSET Capabilities : CapabilityRequired(capabilities)
  \/ \E code \in {"AGENT_FAILURE", "AGENT_SESSION_UNAVAILABLE"} : TurnFailed(code)
  \/ HostCaptureAborted \/ HostCaptureFailed
  \/ RepairInvalid \/ BusinessDecisionRequired \/ ImplementationReady
  \/ DeliveryImported \/ DeliveryNotImported \/ IntakeRemoved \/ IntakeNotRemoved
  \/ InspectEvidence \/ EvidenceReviewable \/ EvidenceNotReviewable
  \/ RecoverFinalization \/ AgentUnavailable
=============================================================================
