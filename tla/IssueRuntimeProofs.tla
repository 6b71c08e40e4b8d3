------------------------- MODULE IssueRuntimeProofs -------------------------
(***************************************************************************)
(* What holds of IssueRuntime for every value of its constants: what the   *)
(* transitions and recorders of IssueWorkflow make of an issue, an         *)
(* inductive invariant, and the safety properties that follow from it.     *)
(***************************************************************************)
EXTENDS IssueRuntime, TLAPS

-----------------------------------------------------------------------------
(* The transitions and recorders, for every set of capabilities and        *)
(* assessments.                                                            *)


(* A later version of issue i. *)
Advances(i, next) == next \in Issue /\ next.revision > i.revision

(* Where each action leads, from whatever status it is legal in. *)
Target ==
  [ START_ASSESSMENT |-> "ASSESSING", ASSESSMENT_READY |-> "ASSESSING",
    ASSESSMENT_ERRORED |-> "ASSESSMENT_FAILED", RETRY_ASSESSMENT |-> "ASSESSING",
    IMPLEMENTATION_READY |-> "EVIDENCE_CAPTURE", REPAIR_ERRORED |-> "REPAIR_FAILED",
    RETRY_REPAIR |-> "REPAIRING", DELIVERY_READY |-> "EVIDENCE_CHECK",
    EVIDENCE_REJECTED |-> "EVIDENCE_CAPTURE", EVIDENCE_ACCEPTED |-> "EVIDENCE_CHECK",
    EVIDENCE_ERRORED |-> "EVIDENCE_FAILED", RETRY_EVIDENCE |-> "EVIDENCE_CAPTURE",
    BEGIN_FINALIZATION_RECOVERY |-> "FINALIZATION_RECOVERY",
    FINALIZATION_ERRORED |-> "FINALIZATION_FAILED",
    BASE_INTEGRATION_STALE |-> "REPAIRING", COMPLETE_DELIVERY |-> "COMPLETED",
    RETRY_FINALIZATION |-> "FINALIZING",
    FINALIZATION_RECOVERY_ERRORED |-> "FINALIZATION_FAILED",
    FINALIZATION_RECOVERY_CHANGED_DELIVERY |-> "EVIDENCE_CAPTURE",
    RETRY_FINALIZATION_REPAIR |-> "REPAIRING",
    PAUSE |-> "PAUSED", CANCEL |-> "CANCELED" ]

(* An action leads to one status, whatever status it is legal in. *)
LEMMA TransitionTargets ==
  ASSUME NEW s \in Statuses, NEW a \in DOMAIN Transitions[s]
  PROVE  Transitions[s][a] = Target[a] /\ Transitions[s][a] \in Statuses
BY DEF Statuses, Transitions, Target

(* A status change counts as a new version. *)
LEMMA MovedAdvances ==
  ASSUME NEW i \in Issue, NEW s \in Statuses
  PROVE  Advances(i, Moved(i, s)) /\ Moved(i, s).status = s
<1>1. i.revision + 1 \in Nat /\ i.revision + 1 > i.revision
  BY DEF Issue
<1>2. Moved(i, s) \in Issue
  BY <1>1 DEF Moved, Issue
<1>3. Moved(i, s).revision = i.revision + 1 /\ Moved(i, s).status = s
  BY DEF Moved, Issue
<1> QED
  BY <1>1, <1>2, <1>3 DEF Advances

(* So does every legal transition. *)
LEMMA TransitionAdvances ==
  ASSUME NEW i \in Issue, NEW a, CanTransition(i, a)
  PROVE  /\ Advances(i, Transition(i, a))
         /\ Transition(i, a).status = Target[a]
<1>1. i.status \in Statuses
  BY DEF Issue
<1> QED
  BY <1>1, TransitionTargets, MovedAdvances DEF CanTransition, Transition

(* The values a recorder clears a field to. *)
LEMMA Cleared ==
  /\ None \in Recoveries
  /\ NoFailure \in Failure
  /\ NoRequest \in CapabilityRequest
  /\ NoPause \in PauseContext
BY DEF Recoveries, Failure, NoFailure, CapabilityRequest, NoRequest, PauseContext, NoPause

-----------------------------------------------------------------------------
(* applyTransition and its commands.                                       *)

(* What a terminal status forgets does not take the version back. *)
LEMMA EndedAdvances ==
  ASSUME NEW i, NEW j, Advances(i, j)
  PROVE  Advances(i, Ended(j)) /\ Ended(j).status = j.status
BY Cleared DEF Advances, Ended, Issue

(* START_ASSESSMENT: a later version, being assessed. *)
LEMMA StartAssessmentAdvances ==
  ASSUME NEW i \in Issue, CanTransition(i, "START_ASSESSMENT")
  PROVE  Advances(i, StartAssessment(i)) /\ StartAssessment(i).status = "ASSESSING"
BY TransitionAdvances DEF Target, Advances, StartAssessment, Issue

(* RETRY_ASSESSMENT: the same, of a failed assessment. *)
LEMMA RetryAssessmentAdvances ==
  ASSUME NEW i \in Issue, CanTransition(i, "RETRY_ASSESSMENT")
  PROVE  Advances(i, RetryAssessment(i)) /\ RetryAssessment(i).status = "ASSESSING"
BY TransitionAdvances, Cleared DEF Target, Advances, RetryAssessment, Issue

(* RETRY_REPAIR: a later version, under repair. *)
LEMMA RetryRepairAdvances ==
  ASSUME NEW i \in Issue, CanTransition(i, "RETRY_REPAIR")
  PROVE  Advances(i, RetryRepair(i)) /\ RetryRepair(i).status = "REPAIRING"
<1> DEFINE t == Transition(i, "RETRY_REPAIR")
<1>1. Advances(i, t) /\ t.status = "REPAIRING"
  BY TransitionAdvances DEF Target
<1>2. t.iteration + 1 \in Nat
  BY <1>1 DEF Advances, Issue
<1> QED
  BY <1>1, <1>2, Cleared DEF Advances, RetryRepair, Issue

(* COMPLETE_DELIVERY: a later, completed version. *)
LEMMA CompleteDeliveryAdvances ==
  ASSUME NEW i \in Issue, CanTransition(i, "COMPLETE_DELIVERY")
  PROVE  Advances(i, CompleteDelivery(i)) /\ CompleteDelivery(i).status = "COMPLETED"
<1> DEFINE t == Transition(i, "COMPLETE_DELIVERY")
<1>1. Advances(i, t) /\ t.status = "COMPLETED"
  BY TransitionAdvances DEF Target
<1> QED
  BY <1>1, EndedAdvances DEF CompleteDelivery

(* CANCEL: a later, canceled version. *)
LEMMA CancelAdvances ==
  ASSUME NEW i \in Issue, CanTransition(i, "CANCEL")
  PROVE  Advances(i, Cancel(i)) /\ Cancel(i).status = "CANCELED"
<1> DEFINE t == Transition(i, "CANCEL")
           c == [t EXCEPT !.resolution = "CANCELED"]
<1>1. Advances(i, t) /\ t.status = "CANCELED"
  BY TransitionAdvances DEF Target
<1>2. Advances(i, c) /\ c.status = "CANCELED"
  BY <1>1 DEF Advances, Issue, Resolutions
<1> QED
  BY <1>2, EndedAdvances DEF Cancel

(* PAUSE: a later version that knows what to resume and is not ready. *)
LEMMA PauseAdvances ==
  ASSUME NEW i \in Issue, CanTransition(i, "PAUSE")
  PROVE  /\ Advances(i, Pause(i))
         /\ Pause(i).status = "PAUSED"
         /\ Pause(i).pause.operation \in AgentOperations
         /\ ~Pause(i).pause.ready
<1> DEFINE t == Transition(i, "PAUSE")
           p == [operation |-> PauseByStatus[i.status], ready |-> FALSE,
                 at |-> i.revision + 1]
<1>1. Advances(i, t) /\ t.status = "PAUSED"
  BY TransitionAdvances DEF Target
<1>2. i.status \in DOMAIN PauseByStatus
  BY DEF CanTransition, Issue, Statuses, Transitions, PauseByStatus
<1>3. PauseByStatus[i.status] \in AgentOperations
  BY <1>2 DEF PauseByStatus, AgentOperations, ResumeStatus
<1>4. i.revision + 1 \in Nat
  BY DEF Issue
<1>5. p \in PauseContext
  BY <1>3, <1>4 DEF PauseContext
<1>6. Pause(i) = [t EXCEPT !.pause = p]
  BY DEF Pause
<1>7. Pause(i) \in Issue /\ Pause(i).revision = t.revision
      /\ Pause(i).status = t.status /\ Pause(i).pause = p
  BY <1>1, <1>5, <1>6 DEF Advances, Issue
<1> QED
  BY <1>1, <1>3, <1>7 DEF Advances

(* What is resumed is a status an Agent works in. *)
LEMMA ResumeTargets ==
  ASSUME NEW o \in AgentOperations
  PROVE  /\ ResumeStatus[o] \in Statuses
         /\ ResumeStatus[o] \in
              {"ASSESSING", "REPAIRING", "EVIDENCE_CAPTURE", "FINALIZATION_RECOVERY"}
BY DEF AgentOperations, ResumeStatus, Statuses, Transitions

(* RESUME: a later version in the status of the paused operation. *)
LEMMA ResumeAdvances ==
  ASSUME NEW i \in Issue, i.pause.operation \in AgentOperations
  PROVE  Advances(i, Resume(i)) /\ Resume(i).status = ResumeStatus[i.pause.operation]
BY ResumeTargets, MovedAdvances, Cleared DEF Advances, Resume, Issue

(* completeIssuePause: a later version of the same pause. *)
LEMMA CompleteIssuePauseAdvances ==
  ASSUME NEW i \in Issue
  PROVE  /\ Advances(i, CompleteIssuePause(i))
         /\ CompleteIssuePause(i).status = i.status
         /\ CompleteIssuePause(i).pause.operation = i.pause.operation
<1> DEFINE p == [i.pause EXCEPT !.ready = TRUE]
<1>1. i.pause \in PauseContext /\ i.revision + 1 \in Nat /\ i.revision + 1 > i.revision
  BY DEF Issue
<1>2. p \in PauseContext /\ p.operation = i.pause.operation
  BY <1>1 DEF PauseContext
<1>3. CompleteIssuePause(i) = [i EXCEPT !.pause = p, !.revision = i.revision + 1]
  BY DEF CompleteIssuePause
<1> QED
  BY <1>1, <1>2, <1>3 DEF Advances, Issue

-----------------------------------------------------------------------------
(* results.ts                                                              *)

(* requestReview: a later version that waits for a human. *)
LEMMA RequestReviewAdvances ==
  ASSUME NEW i \in Issue, NEW kind \in Reviews
  PROVE  /\ Advances(i, RequestReview(i, kind))
         /\ RequestReview(i, kind).status = "REVIEW_REQUIRED"
<1>1. "REVIEW_REQUIRED" \in Statuses
  BY DEF Statuses, Transitions
<1> QED
  BY <1>1, MovedAdvances, Cleared DEF Advances, RequestReview, Issue

(* recordCapabilityRequest: a later version that waits for a grant. *)
LEMMA RecordCapabilityRequestAdvances ==
  ASSUME NEW i \in Issue, NEW o \in AgentOperations, NEW c \in SUBSET Capabilities
  PROVE  /\ Advances(i, RecordCapabilityRequest(i, o, c))
         /\ RecordCapabilityRequest(i, o, c).status = "PERMISSION_REQUIRED"
<1> DEFINE r == [operation |-> o, capabilities |-> c \ i.grants]
<1>1. "PERMISSION_REQUIRED" \in Statuses
  BY DEF Statuses, Transitions
<1>2. r \in CapabilityRequest
  BY DEF CapabilityRequest
<1> DEFINE m == Moved(i, "PERMISSION_REQUIRED")
<1>3. Advances(i, m) /\ m.status = "PERMISSION_REQUIRED"
  BY <1>1, MovedAdvances
<1>4. RecordCapabilityRequest(i, o, c) = [m EXCEPT !.request = r, !.failure = NoFailure]
  BY DEF RecordCapabilityRequest
<1> HIDE DEF m, r
<1> QED
  BY <1>2, <1>3, <1>4, Cleared DEF Advances, Issue

(* grantCapabilityRequest: a later version in the status that asked. *)
LEMMA GrantCapabilityRequestAdvances ==
  ASSUME NEW i \in Issue, i.request.operation # None
  PROVE  /\ Advances(i, GrantCapabilityRequest(i))
         /\ i.request.operation \in AgentOperations
         /\ GrantCapabilityRequest(i).status = ResumeStatus[i.request.operation]
<1> DEFINE m == Moved(i, ResumeStatus[i.request.operation])
<1>1. i.request \in CapabilityRequest /\ i.grants \in SUBSET Capabilities
  BY DEF Issue
<1>2. i.request.operation \in AgentOperations /\ i.request.capabilities \in SUBSET Capabilities
  BY <1>1 DEF CapabilityRequest
<1>3. Advances(i, m) /\ m.status = ResumeStatus[i.request.operation]
  BY <1>2, ResumeTargets, MovedAdvances
<1>4. m.grants = i.grants
  BY DEF Moved, Issue
<1> QED
  BY <1>1, <1>2, <1>3, <1>4, Cleared DEF Advances, GrantCapabilityRequest, Issue

(* recordAgentSession: a later version in the same status. *)
LEMMA RecordAgentSessionAdvances ==
  ASSUME NEW i \in Issue
  PROVE  Advances(i, RecordAgentSession(i)) /\ RecordAgentSession(i).status = i.status
<1>1. i.revision + 1 \in Nat /\ i.revision + 1 > i.revision
  BY DEF Issue
<1> QED
  BY <1>1 DEF Advances, RecordAgentSession, Issue

(* replaceAgentSession: a later version, assessed or repaired again. *)
LEMMA ReplaceAgentSessionAdvances ==
  ASSUME NEW i \in Issue, CanReplaceAgentSession(i)
  PROVE  /\ Advances(i, ReplaceAgentSession(i))
         /\ ReplaceAgentSession(i).status \in {"ASSESSING", "REPAIRING"}
<1>1. CASE i.status = "ASSESSMENT_FAILED"
  <2>1. CanTransition(i, "RETRY_ASSESSMENT")
    BY <1>1 DEF CanTransition, Transitions
  <2> QED
    BY <1>1, <2>1, RetryAssessmentAdvances DEF ReplaceAgentSession, Advances, Issue
<1>2. CASE i.status = "REPAIR_FAILED"
  <2>1. CanTransition(i, "RETRY_REPAIR")
    BY <1>2 DEF CanTransition, Transitions
  <2> QED
    BY <1>2, <2>1, RetryRepairAdvances DEF ReplaceAgentSession, Advances, Issue
<1> QED
  BY <1>1, <1>2 DEF CanReplaceAgentSession

(* recordAssessment: a later version. *)
LEMMA RecordAssessmentAdvances ==
  ASSUME NEW i \in Issue, i.status = "ASSESSING", NEW a \in Assessment
  PROVE  Advances(i, RecordAssessment(i, a))
<1>1. CanTransition(i, "ASSESSMENT_READY")
  BY DEF CanTransition, Transitions
<1> QED
  BY <1>1, TransitionAdvances, Cleared DEF RecordAssessment, Advances, Issue

(* The failure of a stage is a legal transition with a known code. *)
LEMMA FailedAdvances ==
  ASSUME NEW i \in Issue, NEW a, CanTransition(i, a),
         NEW stage \in Stages, NEW code \in FailureCodes
  PROVE  /\ Advances(i, Failed(i, a, stage, code))
         /\ Failed(i, a, stage, code).status = Target[a]
<1>1. [stage |-> stage, code |-> code] \in Failure
  BY DEF Failure
<1> QED
  BY <1>1, TransitionAdvances DEF Failed, Advances, Issue

(* recordAssessmentFailure: a later version, ASSESSMENT_FAILED. *)
LEMMA RecordAssessmentFailureAdvances ==
  ASSUME NEW i \in Issue, i.status = "ASSESSING", NEW code \in FailureCodes
  PROVE  /\ Advances(i, RecordAssessmentFailure(i, code))
         /\ RecordAssessmentFailure(i, code).status = "ASSESSMENT_FAILED"
BY FailedAdvances DEF RecordAssessmentFailure, CanTransition, Transitions, Stages, Target

(* recordRepairFailure: a later version, REPAIR_FAILED. *)
LEMMA RecordRepairFailureAdvances ==
  ASSUME NEW i \in Issue, i.status = "REPAIRING", NEW code \in FailureCodes
  PROVE  /\ Advances(i, RecordRepairFailure(i, code))
         /\ RecordRepairFailure(i, code).status = "REPAIR_FAILED"
BY FailedAdvances DEF RecordRepairFailure, CanTransition, Transitions, Stages, Target

(* recordEvidenceFailure: a later version, EVIDENCE_FAILED. *)
LEMMA RecordEvidenceFailureAdvances ==
  ASSUME NEW i \in Issue, i.status \in {"EVIDENCE_CAPTURE", "EVIDENCE_CHECK"},
         NEW code \in FailureCodes
  PROVE  /\ Advances(i, RecordEvidenceFailure(i, code))
         /\ RecordEvidenceFailure(i, code).status = "EVIDENCE_FAILED"
BY FailedAdvances DEF RecordEvidenceFailure, CanTransition, Transitions, Stages, Target

(* An unsafe recovery: a later version, FINALIZATION_FAILED. *)
LEMMA RecordRecoveryUnsafeAdvances ==
  ASSUME NEW i \in Issue, i.status = "FINALIZATION_RECOVERY"
  PROVE  /\ Advances(i, RecordRecoveryUnsafe(i))
         /\ RecordRecoveryUnsafe(i).status = "FINALIZATION_FAILED"
BY FailedAdvances
DEF RecordRecoveryUnsafe, CanTransition, Transitions, Stages, FailureCodes, Target

(* recordImplementationDraft: a later version, capturing evidence. *)
LEMMA RecordImplementationDraftAdvances ==
  ASSUME NEW i \in Issue, i.status = "REPAIRING"
  PROVE  /\ Advances(i, RecordImplementationDraft(i))
         /\ RecordImplementationDraft(i).status = "EVIDENCE_CAPTURE"
<1> DEFINE t == Transition(i, "IMPLEMENTATION_READY")
<1>1. CanTransition(i, "IMPLEMENTATION_READY")
  BY DEF CanTransition, Transitions
<1>2. Advances(i, t) /\ t.status = "EVIDENCE_CAPTURE"
  BY <1>1, TransitionAdvances DEF Target
<1>3. i.iteration \in Nat
  BY DEF Issue
<1> QED
  BY <1>2, <1>3, Cleared DEF RecordImplementationDraft, Advances, Issue

(* recordDelivery: a later version whose evidence is to be checked. *)
LEMMA RecordDeliveryAdvances ==
  ASSUME NEW i \in Issue, i.status = "EVIDENCE_CAPTURE"
  PROVE  Advances(i, RecordDelivery(i)) /\ RecordDelivery(i).status = "EVIDENCE_CHECK"
<1>1. CanTransition(i, "DELIVERY_READY")
  BY DEF CanTransition, Transitions
<1>2. i.iteration \in Nat
  BY DEF Issue
<1> DEFINE n == Transition(i, "DELIVERY_READY")
<1>3. n \in Issue /\ n.revision > i.revision /\ n.status = "EVIDENCE_CHECK"
  BY <1>1, TransitionAdvances DEF Advances, Target
<1>4. RecordDelivery(i) = [n EXCEPT !.delivery = i.iteration, !.failure = NoFailure]
  BY DEF RecordDelivery
<1> HIDE DEF n
<1> QED
  BY <1>2, <1>3, <1>4, Cleared DEF Advances, Issue

(* recordEvidenceRejection: a later version, capturing evidence again. *)
LEMMA RecordEvidenceRejectionAdvances ==
  ASSUME NEW i \in Issue, i.status = "EVIDENCE_CHECK"
  PROVE  /\ Advances(i, RecordEvidenceRejection(i))
         /\ RecordEvidenceRejection(i).status = "EVIDENCE_CAPTURE"
<1>1. CanTransition(i, "EVIDENCE_REJECTED")
  BY DEF CanTransition, Transitions
<1> QED
  BY <1>1, TransitionAdvances DEF RecordEvidenceRejection, Target, Advances, Issue

(* recordEvidenceAcceptance: a later version. *)
LEMMA RecordEvidenceAcceptanceAdvances ==
  ASSUME NEW i \in Issue, i.status = "EVIDENCE_CHECK"
  PROVE  Advances(i, RecordEvidenceAcceptance(i))
BY TransitionAdvances DEF RecordEvidenceAcceptance, CanTransition, Transitions

(* retryEvidence: a later version, capturing evidence again. *)
LEMMA RetryEvidenceAdvances ==
  ASSUME NEW i \in Issue, i.status = "EVIDENCE_FAILED"
  PROVE  Advances(i, RetryEvidence(i)) /\ RetryEvidence(i).status = "EVIDENCE_CAPTURE"
<1>1. CanTransition(i, "RETRY_EVIDENCE")
  BY DEF CanTransition, Transitions
<1> QED
  BY <1>1, TransitionAdvances, Cleared DEF RetryEvidence, Target, Advances, Issue

(* A recovery that changed nothing: a later version, FINALIZING. *)
LEMMA RecordRecoveryUnchangedAdvances ==
  ASSUME NEW i \in Issue, i.status = "FINALIZATION_RECOVERY"
  PROVE  /\ Advances(i, RecordRecoveryUnchanged(i))
         /\ RecordRecoveryUnchanged(i).status = "FINALIZING"
<1>1. CanTransition(i, "RETRY_FINALIZATION")
  BY DEF CanTransition, Transitions
<1> QED
  BY <1>1, TransitionAdvances, Cleared DEF RecordRecoveryUnchanged, Target, Advances, Issue

(* A recovery that changed the delivery: a later version, to be proved anew. *)
LEMMA RecordRecoveryChangedAdvances ==
  ASSUME NEW i \in Issue, i.status = "FINALIZATION_RECOVERY"
  PROVE  /\ Advances(i, RecordRecoveryChanged(i))
         /\ RecordRecoveryChanged(i).status = "EVIDENCE_CAPTURE"
<1> DEFINE t == Transition(i, "FINALIZATION_RECOVERY_CHANGED_DELIVERY")
<1>1. CanTransition(i, "FINALIZATION_RECOVERY_CHANGED_DELIVERY")
  BY DEF CanTransition, Transitions
<1>2. Advances(i, t) /\ t.status = "EVIDENCE_CAPTURE"
  BY <1>1, TransitionAdvances DEF Target
<1>3. t.iteration + 1 \in Nat /\ i.iteration + 1 \in Nat
  BY <1>2 DEF Advances, Issue
<1> QED
  BY <1>2, <1>3, Cleared DEF RecordRecoveryChanged, Advances, Issue

(* A reopened issue: a later version, under repair. *)
LEMMA ReopenedForRepairAdvances ==
  ASSUME NEW i \in Issue, NEW a, CanTransition(i, a), Target[a] = "REPAIRING"
  PROVE  /\ Advances(i, ReopenedForRepair(i, a))
         /\ ReopenedForRepair(i, a).status = "REPAIRING"
<1> DEFINE t == Transition(i, a)
<1>1. Advances(i, t) /\ t.status = "REPAIRING"
  BY TransitionAdvances
<1>2. t.iteration + 1 \in Nat
  BY <1>1 DEF Advances, Issue
<1> QED
  BY <1>1, <1>2, Cleared DEF ReopenedForRepair, Advances, Issue

(* recordBaseIntegrationStale: a later version, under repair. *)
LEMMA RecordBaseIntegrationStaleAdvances ==
  ASSUME NEW i \in Issue, i.status = "FINALIZING"
  PROVE  /\ Advances(i, RecordBaseIntegrationStale(i))
         /\ RecordBaseIntegrationStale(i).status = "REPAIRING"
BY ReopenedForRepairAdvances DEF RecordBaseIntegrationStale, CanTransition, Transitions, Target

(* retryFinalizationAsRepair: a later version, under repair. *)
LEMMA RetryFinalizationAsRepairAdvances ==
  ASSUME NEW i \in Issue, i.status = "FINALIZATION_FAILED"
  PROVE  /\ Advances(i, RetryFinalizationAsRepair(i))
         /\ RetryFinalizationAsRepair(i).status = "REPAIRING"
BY ReopenedForRepairAdvances DEF RetryFinalizationAsRepair, CanTransition, Transitions, Target

-----------------------------------------------------------------------------
(* reviews.ts                                                              *)

(* A choice either ends the issue or queues an operation of its status. *)
LEMMA ReviewChoicesFit ==
  ASSUME NEW i \in Issue, NEW choice \in ReviewChoices(i)
  PROVE  /\ choice.resume \in {"ASSESSING", "REPAIRING", "FINALIZING", "CLOSED"}
         /\ choice.resume \in Statuses
         /\ choice.operation \in Operations \cup {None}
         /\ choice.resume = "CLOSED" => choice.operation = None
         /\ choice.resolution \in Resolutions \cup {None}
<1>1. CASE i.review = "assessment"
  <2>1. choice \in AssessmentChoices(i)
    BY <1>1 DEF ReviewChoices
  <2>2. \/ choice = Choice("implement", "REPAIRING", "REPAIR", None)
        \/ choice = Choice("not-a-bug", "CLOSED", None, "NOT_A_BUG")
        \/ choice = Choice("duplicate", "CLOSED", None, "DUPLICATE")
        \/ choice = Choice("reassess", "ASSESSING", "ASSESS", None)
    BY <2>1 DEF AssessmentChoices
  <2> QED
    BY <2>2 DEF Choice, Operations, AgentOperations, ResumeStatus, Resolutions, Statuses,
                Transitions
<1>2. CASE i.review = "delivery"
  <2>1. choice \in DeliveryChoices(i)
    BY <1>2 DEF ReviewChoices
  <2> QED
    BY <2>1 DEF DeliveryChoices, Choice, Operations, AgentOperations, ResumeStatus,
                Resolutions, Statuses, Transitions
<1>3. CASE i.review = "business-merge-conflict"
  <2>1. choice \in BusinessChoices
    BY <1>3 DEF ReviewChoices
  <2> QED
    BY <2>1 DEF BusinessChoices, Choice, Operations, AgentOperations, ResumeStatus,
                Resolutions, Statuses, Transitions
<1> QED
  BY <1>1, <1>2, <1>3 DEF ReviewChoices

(* submitReview: a later version in the status of the choice. *)
LEMMA SubmitReviewAdvances ==
  ASSUME NEW i \in Issue, NEW choice \in ReviewChoices(i)
  PROVE  /\ Advances(i, SubmitReview(i, choice))
         /\ SubmitReview(i, choice).status = choice.resume
<1> DEFINE m == Moved(i, choice.resume)
           selected == [m EXCEPT
             !.resolution = IF choice.resolution = None THEN @ ELSE choice.resolution,
             !.review = None, !.failure = NoFailure]
<1>1. Advances(i, m) /\ m.status = choice.resume
  BY ReviewChoicesFit, MovedAdvances
<1>2. Advances(i, selected) /\ selected.status = choice.resume
  BY <1>1, ReviewChoicesFit, Cleared DEF Advances, Issue
<1> HIDE DEF selected
<1>3. selected.iteration + 1 \in Nat
  BY <1>2 DEF Advances, Issue
<1>4. Advances(i, [selected EXCEPT !.iteration = @ + 1, !.retries = 0, !.draft = 0,
                                   !.delivery = 0])
  BY <1>2, <1>3 DEF Advances, Issue
<1>5. Advances(i, [selected EXCEPT !.assessment = NoAssessment])
  BY <1>2 DEF Advances, Issue
<1>6. Advances(i, [selected EXCEPT !.iteration = @ + 1])
  BY <1>2, <1>3 DEF Advances, Issue
<1>7. Advances(i, [selected EXCEPT !.recovery = "ARMED"])
  BY <1>2 DEF Advances, Issue, Recoveries
<1>8. Advances(i, [selected EXCEPT !.grants = {}, !.request = NoRequest, !.recovery = None])
  BY <1>2, Cleared DEF Advances, Issue
<1>9. /\ SubmitReview(i, choice) \in
           { selected,
             [selected EXCEPT !.iteration = @ + 1, !.retries = 0, !.draft = 0, !.delivery = 0],
             [selected EXCEPT !.assessment = NoAssessment],
             [selected EXCEPT !.iteration = @ + 1],
             [selected EXCEPT !.recovery = "ARMED"],
             [selected EXCEPT !.grants = {}, !.request = NoRequest, !.recovery = None] }
  BY DEF SubmitReview, selected
<1>10. SubmitReview(i, choice).status = selected.status
  BY <1>2, <1>9 DEF Advances, Issue
<1> QED
  BY <1>2, <1>4, <1>5, <1>6, <1>7, <1>8, <1>9, <1>10

-----------------------------------------------------------------------------
(* The inductive invariant.                                                *)

(* A stopped issue: only a human command takes it further, if anything.    *)
Halted == Terminal \cup {"PAUSED"}

(* The status an operation has claimed.  PREPARE takes the issue as it is  *)
(* and a Repair that imports its evidence has already left REPAIRING.      *)
ClaimedStatus(o) ==
  CASE o.kind = "ASSESS" /\ o.pc \in Turning                -> {"ASSESSING"}
    [] o.kind = "REPAIR" /\ o.pc # "importing"              -> {"REPAIRING"}
    [] o.kind = "REPAIR" /\ o.pc = "importing"              -> {"EVIDENCE_CAPTURE"}
    [] o.kind = "CAPTURE_EVIDENCE"                          -> {"EVIDENCE_CAPTURE"}
    [] o.kind = "EVIDENCE"                                  -> {"EVIDENCE_CHECK"}
    [] o.kind = "FINALIZE"                                  -> {"FINALIZING"}
    [] o.kind = "RECOVER_FINALIZATION"                      -> {"FINALIZATION_RECOVERY"}
    [] OTHER                                                -> Statuses \ Halted

OperationFits ==
  /\ op.pc \in Turning => op.kind \in AgentOperations
  /\ op.pc \in {"publishing", "releasing"} => op.kind = "FINALIZE"
  /\ Claimed => op.snap.status \in ClaimedStatus(op)

(* Nothing runs before the Runtime is ready.                               *)
DownIsIdle == mode \in {"down", "recovered"} => op = NoOp

(* A stopped issue has nothing queued; a paused one knows how to go on.    *)
RowFits(i, operation) ==
  /\ i.status \in Halted => operation = None
  /\ i.status = "PAUSED" => i.pause.operation \in AgentOperations

IInv ==
  /\ TypeOK
  /\ OperationFits
  /\ SnapshotCurrent
  /\ DownIsIdle
  /\ RowFits(issue, pending)
  /\ ReadyMeansQuiet

-----------------------------------------------------------------------------
(* How a step may change the row, and the operation.                       *)

RowStep ==
  /\ issue' \in Issue
  /\ pending' \in Operations \cup {None}
  /\ RowFits(issue', pending')
  /\ issue' = issue \/ issue'.revision > issue.revision

(* A worker neither pauses an issue nor touches a stopped one. *)
Worked ==
  /\ RowStep
  /\ issue' = issue \/ (issue.status \notin Halted /\ issue'.status # "PAUSED")

(* A snapshot is carried on, or is the row as the step leaves it. *)
OpStep ==
  /\ op' \in Op
  /\ OperationFits'
  /\ Claimed' => op'.snap = issue' \/ (Claimed /\ op'.snap = op.snap)

(* The absent operation is none of the operations. *)
LEMMA NoneIsNoOperation ==
  None \notin Operations /\ AgentOperations \subseteq Operations
BY DEF None, Operations, AgentOperations, ResumeStatus

(* The first row and the absent operation are well-typed. *)
LEMMA NoOpType == NewIssue \in Issue /\ NoOp \in Op
<1>1. NewIssue \in Issue
  <2>1. NoFailure \in Failure /\ NoRequest \in CapabilityRequest /\ NoPause \in PauseContext
        /\ None \in Recoveries
    BY Cleared
  <2>2. "RECEIVED" \in Statuses
    BY DEF Statuses, Transitions
  <2> QED
    BY <2>1, <2>2 DEF NewIssue, Issue
<1>2. NoOp \in Op
  BY <1>1 DEF NoOp, Op, Phases
<1> QED
  BY <1>1, <1>2

(* The row is left alone. *)
LEMMA RowKept ==
  ASSUME TypeOK, RowFits(issue, pending), UNCHANGED <<issue, pending>>
  PROVE  Worked
BY DEF TypeOK, Worked, RowStep, RowFits

(* The row is given its next version, or its operation alone is changed. *)
LEMMA RowStored ==
  ASSUME TypeOK, NEW next, Advances(issue, next) \/ next = issue,
         NEW operation \in Operations \cup {None}, RowFits(next, operation),
         Store(next, operation)
  PROVE  RowStep
BY DEF TypeOK, Store, RowStep, Advances

(* complete(): from a claimed snapshot that is not stopped. *)
LEMMA RowCompleted ==
  ASSUME TypeOK, SnapshotCurrent, RowFits(issue, pending), Claimed,
         op.snap.status \notin Halted,
         NEW next, Advances(op.snap, next), next.status # "PAUSED",
         NEW operation \in Operations \cup {None},
         next.status \in Terminal => operation = None,
         Complete(op.snap, next, operation)
  PROVE  Worked
<1>1. CASE Current(op.snap)
  <2>1. op.snap = issue
    BY <1>1 DEF SnapshotCurrent
  <2>2. issue' = next /\ pending' = operation
    BY <1>1 DEF Complete, Store
  <2>3. RowFits(next, operation)
    BY DEF RowFits, Halted
  <2> QED
    BY <2>1, <2>2, <2>3 DEF Worked, RowStep, Advances
<1>2. CASE ~Current(op.snap)
  BY <1>2, RowKept DEF Complete
<1> QED
  BY <1>1, <1>2

(* The operation is over, or all but its clean-up is. *)
LEMMA OperationLeft ==
  ASSUME TypeOK, \/ Settle \/ Reject \/ CleanUp("cleanup") \/ CleanUp("unwinding")
  PROVE  OpStep /\ asleep' \in BOOLEAN
<1>1. /\ op' \in {NoOp, [NoOp EXCEPT !.pc = "cleanup"], [NoOp EXCEPT !.pc = "unwinding"]}
      /\ asleep' \in BOOLEAN
  BY DEF Settle, Reject, CleanUp, TypeOK
<1>2. NoOp \in Op /\ NoOp.pc = "idle"
  BY NoOpType DEF NoOp
<1>3. op' \in Op /\ op'.pc \in {"idle", "cleanup", "unwinding"}
  BY <1>1, <1>2 DEF Op, Phases
<1> QED
  BY <1>1, <1>3 DEF OpStep, OperationFits, Claimed, Turning

(* What every step of an operation does to the invariant. *)
WorkerStep ==
  /\ Active \/ (mode = "up" /\ pending # None)
  /\ Worked
  /\ OpStep
  /\ binding' \in Bindings
  /\ asleep' \in BOOLEAN
  /\ published' \in Nat
  /\ UNCHANGED <<reviewed, mode, pauser, accepted>>

(* The invariant from its parts. *)
LEMMA Preserved ==
  ASSUME IInv, RowStep, OpStep, reviewed' \in Nat, binding' \in Bindings,
         mode' \in Modes, pauser' \in Pauser, asleep' \in BOOLEAN,
         accepted' \in Nat, published' \in Nat, DownIsIdle', ReadyMeansQuiet'
  PROVE  IInv'
<1>1. TypeOK'
  BY DEF TypeOK, RowStep, OpStep
<1>2. SnapshotCurrent'
  <2> SUFFICES ASSUME Claimed' PROVE /\ op'.snap.revision <= issue'.revision
                                     /\ Current(op.snap)' => op'.snap = issue'
    BY DEF SnapshotCurrent
  <2>1. issue.revision \in Nat /\ issue'.revision \in Nat
    BY DEF IInv, TypeOK, RowStep, Issue
  <2>2. CASE op'.snap = issue'
    BY <2>1, <2>2
  <2>3. CASE Claimed /\ op'.snap = op.snap
    <3>1. op.snap.revision \in Nat
      BY DEF IInv, TypeOK, Op, Issue
    <3>2. op.snap.revision <= issue.revision /\ (Current(op.snap) => op.snap = issue)
      BY <2>3 DEF IInv, SnapshotCurrent
    <3> QED
      BY <2>1, <2>3, <3>1, <3>2 DEF RowStep, Current
  <2> QED
    BY <2>2, <2>3 DEF OpStep
<1> QED
  BY <1>1, <1>2 DEF IInv, OpStep, RowStep

(* A step of an operation preserves the invariant and leaves the human the word. *)
LEMMA WorkerPreserves ==
  ASSUME IInv, WorkerStep
  PROVE  IInv' /\ Respectful
<1>1. mode \in {"down", "recovered"} => ~Active /\ mode # "up"
  BY DEF IInv, DownIsIdle, Active, NoOp
<1>2. mode \notin {"down", "recovered"}
  BY <1>1 DEF WorkerStep
<1>3. pending # None => issue.status \notin Halted
  BY DEF IInv, RowFits
<1>4. ReadyMeansQuiet'
  BY <1>3 DEF IInv, ReadyMeansQuiet, WorkerStep, Worked, Halted
<1>5. IInv'
  BY <1>2, <1>4, Preserved DEF IInv, TypeOK, WorkerStep, Worked, DownIsIdle
<1>6. Respectful
  BY <1>3 DEF Respectful, WorkerStep, Worked, Halted
<1> QED
  BY <1>5, <1>6

-----------------------------------------------------------------------------
(* RuntimeWorker, step by step.                                            *)

(* A dispatched operation. *)
LEMMA DispatchedFacts ==
  ASSUME IInv, NEW operation \in Operations, Dispatched(operation)
  PROVE  /\ mode = "up" /\ pending # None /\ ~Active /\ ~Claimed
         /\ issue \in Issue /\ issue.status \in Statuses \ Halted
BY NoneIsNoOperation
DEF IInv, TypeOK, Dispatched, RowFits, Active, Claimed, Issue

(* An operation starts from the row it has just claimed or read. *)
LEMMA OperationStarted ==
  ASSUME IInv, NEW pc \in Phases, NEW operation \in Operations, issue' \in Issue,
         Started(pc, operation, issue'),
         pc \in Turning => operation \in AgentOperations,
         pc \notin {"publishing", "releasing"} \/ operation = "FINALIZE",
         issue'.status \in
           ClaimedStatus([NoOp EXCEPT !.pc = pc, !.kind = operation, !.snap = issue'])
  PROVE  OpStep
<1> DEFINE o == [NoOp EXCEPT !.pc = pc, !.kind = operation, !.snap = issue']
<1>1. op' = o
  BY DEF Started
<1>2. NoOp \in Op
  BY NoOpType
<1>3. o \in Op /\ o.pc = pc /\ o.kind = operation /\ o.snap = issue'
  BY <1>2 DEF Op
<1> HIDE DEF o
<1>4. OperationFits'
  BY <1>1, <1>3 DEF OperationFits, o
<1> QED
  BY <1>1, <1>3, <1>4 DEF OpStep

(* An operation goes on with its snapshot, in another phase. *)
LEMMA OperationContinues ==
  ASSUME IInv, Claimed, op' \in Op, op'.snap = op.snap, op'.kind = op.kind,
         op'.pc \in Turning => op.kind \in AgentOperations,
         op'.pc \in {"publishing", "releasing"} => op.kind = "FINALIZE",
         ClaimedStatus(op) \subseteq ClaimedStatus(op')
  PROVE  OpStep
<1>1. op.snap.status \in ClaimedStatus(op)
  BY DEF IInv, OperationFits
<1> QED
  BY <1>1 DEF OpStep, OperationFits, ClaimedStatus

(* A claimed snapshot is an issue, in the status its operation works on. *)
LEMMA SnapshotFacts ==
  ASSUME IInv, Claimed
  PROVE  /\ op.snap \in Issue
         /\ op.snap.status \in ClaimedStatus(op)
         /\ TypeOK /\ SnapshotCurrent /\ RowFits(issue, pending) /\ Active
BY DEF IInv, TypeOK, Op, OperationFits, Claimed, Active

(* The operation writes its result, if that still counts, and is over. *)
LEMMA Completes ==
  ASSUME IInv, Claimed, NEW next, Advances(op.snap, next),
         op.snap.status \notin Halted,
         next.status \in Statuses \ Halted,
         NEW operation \in Operations \cup {None},
         Complete(op.snap, next, operation),
         Settle \/ CleanUp("cleanup"),
         UNCHANGED binding, OperationFrame
  PROVE  WorkerStep
<1>1. Worked
  BY SnapshotFacts, RowCompleted DEF Halted
<1>2. OpStep /\ asleep' \in BOOLEAN
  BY SnapshotFacts, OperationLeft
<1> QED
  BY <1>1, <1>2, SnapshotFacts DEF WorkerStep, OperationFrame, history, TypeOK

(* The row is left alone while the operation goes on, or is over. *)
LEMMA Idles ==
  ASSUME IInv, Active, OpStep, asleep' \in BOOLEAN,
         UNCHANGED <<issue, pending, binding>>, OperationFrame
  PROVE  WorkerStep
<1>1. Worked
  BY RowKept DEF IInv
<1> QED
  BY <1>1 DEF WorkerStep, OperationFrame, history, IInv, TypeOK

(* A row whose evidence is asked for again is well-typed. *)
LEMMA RequeuedType ==
  ASSUME NEW i \in Issue, NEW n \in Nat, NEW m \in Nat
  PROVE  [i EXCEPT !.retries = n, !.delivery = 0, !.failure = NoFailure, !.revision = m]
           \in Issue
BY Cleared DEF Issue

(* ... and a later version, capturing evidence. *)
LEMMA RequeuedCaptureAdvances ==
  ASSUME NEW i \in Issue, i.status \in {"EVIDENCE_CAPTURE", "EVIDENCE_CHECK"}
  PROVE  /\ Advances(i, RequeuedCapture(i))
         /\ RequeuedCapture(i).status = "EVIDENCE_CAPTURE"
<1> DEFINE base == IF i.status = "EVIDENCE_CHECK" THEN RecordEvidenceRejection(i) ELSE i
           n == i.retries + 1
           m == i.revision + 1
<1>1. base \in Issue /\ base.status = "EVIDENCE_CAPTURE"
  BY RecordEvidenceRejectionAdvances DEF Advances
<1>2. n \in Nat /\ m \in Nat /\ m > i.revision
  BY DEF Issue
<1>3. RequeuedCapture(i) =
        [base EXCEPT !.retries = n, !.delivery = 0, !.failure = NoFailure, !.revision = m]
  BY DEF RequeuedCapture
<1> HIDE DEF base, n, m
<1>4. [base EXCEPT !.retries = n, !.delivery = 0, !.failure = NoFailure, !.revision = m]
        \in Issue
  BY <1>1, <1>2, RequeuedType
<1>5. RequeuedCapture(i) \in Issue
  BY <1>3, <1>4
<1>6. RequeuedCapture(i).revision = m /\ RequeuedCapture(i).status = base.status
  BY <1>1, <1>3 DEF Issue
<1> QED
  BY <1>1, <1>2, <1>5, <1>6 DEF Advances

(* queueEvidenceCapture, with and without retries left. *)
LEMMA QueueEvidenceCaptureWorked ==
  ASSUME IInv, Claimed, op.snap.status \in {"EVIDENCE_CAPTURE", "EVIDENCE_CHECK"},
         QueueEvidenceCapture(op.snap)
  PROVE  Worked
<1> DEFINE i == op.snap
<1>1. i \in Issue /\ i.status \notin Halted
  BY SnapshotFacts DEF Halted, Terminal
<1>2. CASE i.retries >= MAX_AUTOMATIC_EVIDENCE_RETRIES
  <2> DEFINE next == RecordEvidenceFailure(i, "EVIDENCE_RETRY_LIMIT_REACHED")
  <2>1. Advances(i, next) /\ next.status = "EVIDENCE_FAILED"
    BY <1>1, RecordEvidenceFailureAdvances DEF FailureCodes
  <2>2. Complete(i, next, None)
    BY <1>2 DEF QueueEvidenceCapture
  <2> QED
    BY <1>1, <2>1, <2>2, SnapshotFacts, RowCompleted
<1>3. CASE ~(i.retries >= MAX_AUTOMATIC_EVIDENCE_RETRIES)
  <2>4. Advances(i, RequeuedCapture(i)) /\ RequeuedCapture(i).status = "EVIDENCE_CAPTURE"
    BY <1>1, RequeuedCaptureAdvances
  <2>5. Complete(i, RequeuedCapture(i), "CAPTURE_EVIDENCE")
    BY <1>3 DEF QueueEvidenceCapture
  <2>6. "CAPTURE_EVIDENCE" \in Operations
    BY DEF Operations, AgentOperations, ResumeStatus
  <2> QED
    BY <1>1, <2>4, <2>5, <2>6, SnapshotFacts, RowCompleted DEF Terminal
<1> QED
  BY <1>2, <1>3

(* The evidence operations end by queueing another capture, or giving up. *)
LEMMA CaptureQueued ==
  ASSUME IInv, Claimed, op.snap.status \in {"EVIDENCE_CAPTURE", "EVIDENCE_CHECK"},
         QueueEvidenceCapture(op.snap), Settle \/ CleanUp("cleanup"),
         UNCHANGED binding, OperationFrame
  PROVE  WorkerStep
<1>1. OpStep /\ asleep' \in BOOLEAN
  BY SnapshotFacts, OperationLeft
<1> QED
  BY <1>1, SnapshotFacts, QueueEvidenceCaptureWorked
  DEF WorkerStep, OperationFrame, history, TypeOK

-----------------------------------------------------------------------------
(* assess                                                                  *)

(* The claim of an assessment is a later version, ASSESSING. *)
LEMMA ClaimedAssessmentAdvances ==
  ASSUME NEW i \in Issue, i.status \in {"RECEIVED", "ASSESSING"}
  PROVE  /\ ClaimedAssessment(i) = i \/ Advances(i, ClaimedAssessment(i))
         /\ ClaimedAssessment(i) \in Issue
         /\ ClaimedAssessment(i).status = "ASSESSING"
<1> DEFINE w == IF i.session THEN i ELSE RecordAgentSession(i)
<1>1. w \in Issue /\ w.status = i.status /\ (w = i \/ w.revision > i.revision)
  BY RecordAgentSessionAdvances DEF Advances
<1> HIDE DEF w
<1>2. CASE i.status = "RECEIVED"
  <2>1. CanTransition(w, "START_ASSESSMENT")
    BY <1>1, <1>2 DEF CanTransition, Transitions
  <2>2. ClaimedAssessment(i) = StartAssessment(w)
    BY <1>2 DEF ClaimedAssessment, w
  <2>3. i.revision \in Nat /\ w.revision \in Nat /\ StartAssessment(w).revision \in Nat
    BY <1>1, <2>1, StartAssessmentAdvances DEF Advances, Issue
  <2> QED
    BY <1>1, <2>1, <2>2, <2>3, StartAssessmentAdvances DEF Advances
<1>3. CASE i.status = "ASSESSING"
  BY <1>1, <1>3 DEF ClaimedAssessment, Advances, w
<1> QED
  BY <1>2, <1>3

(* The claim of an assessment that has a session. *)
LEMMA BeginAssessmentStep ==
  ASSUME IInv, NEW snapshot, BeginAssessment(snapshot),
         Active \/ (mode = "up" /\ pending # None),
         UNCHANGED <<binding, asleep>>, OperationFrame
  PROVE  WorkerStep
<1>1. issue \in Issue /\ TypeOK /\ RowFits(issue, pending)
  BY DEF IInv, TypeOK
<1>2. CASE issue.status \in {"RECEIVED", "ASSESSING"}
  <2> DEFINE next == ClaimedAssessment(issue)
  <2>1. /\ next = issue \/ Advances(issue, next)
        /\ next \in Issue /\ next.status = "ASSESSING"
    BY <1>1, <1>2, ClaimedAssessmentAdvances
  <2>2. Store(next, None) /\ Started("turn", "ASSESS", next) /\ issue' = next
    BY <1>2 DEF BeginAssessment, Store
  <2>3. RowFits(next, None)
    BY <2>1 DEF RowFits
  <2>4. RowStep
    BY <1>1, <2>1, <2>2, <2>3, RowStored
  <2>5. Worked
    BY <1>2, <2>1, <2>2, <2>4 DEF Worked, Halted, Terminal
  <2>6. OpStep
    <3>1. "turn" \in Phases /\ "ASSESS" \in AgentOperations /\ "ASSESS" \in Operations
      BY DEF Phases, Turning, Operations, AgentOperations, ResumeStatus
    <3>2. [NoOp EXCEPT !.pc = "turn", !.kind = "ASSESS", !.snap = next].pc = "turn"
          /\ [NoOp EXCEPT !.pc = "turn", !.kind = "ASSESS", !.snap = next].kind = "ASSESS"
      BY DEF NoOp
    <3> QED
      BY <2>1, <2>2, <3>1, <3>2, OperationStarted DEF ClaimedStatus, Turning
  <2> QED
    BY <1>1, <2>5, <2>6 DEF WorkerStep, OperationFrame, history, TypeOK
<1>3. CASE issue.status \notin {"RECEIVED", "ASSESSING"}
  <2>1. Worked
    BY <1>1, <1>3, RowKept DEF BeginAssessment
  <2>2. OpStep
    BY <1>1, <1>3, OperationLeft DEF BeginAssessment, Settle
  <2> QED
    BY <1>1, <2>1, <2>2 DEF WorkerStep, OperationFrame, history, TypeOK
<1> QED
  BY <1>2, <1>3

(* failPendingAssessment: the claim and its failure in one transaction. *)
LEMMA FailPendingAssessmentWorked ==
  ASSUME IInv, NEW snapshot, FailPendingAssessment(snapshot)
  PROVE  Worked
<1>1. issue \in Issue /\ TypeOK /\ RowFits(issue, pending)
  BY DEF IInv, TypeOK
<1>2. CASE Current(snapshot) /\ issue.status \in {"RECEIVED", "ASSESSING"}
  <2> DEFINE a == IF issue.status = "RECEIVED" THEN StartAssessment(issue) ELSE issue
             next == RecordAssessmentFailure(a, "AGENT_FAILURE")
  <2>1. issue.status = "RECEIVED" => CanTransition(issue, "START_ASSESSMENT")
    BY DEF CanTransition, Transitions
  <2>2. a \in Issue /\ a.status = "ASSESSING" /\ a.revision >= issue.revision
    BY <1>1, <1>2, <2>1, StartAssessmentAdvances DEF Advances, Issue
  <2> HIDE DEF a
  <2>3. Advances(a, next) /\ next.status = "ASSESSMENT_FAILED"
    BY <2>2, RecordAssessmentFailureAdvances DEF FailureCodes
  <2>4. Advances(issue, next)
    BY <1>1, <2>2, <2>3 DEF Advances, Issue
  <2>5. Store(next, None)
    BY <1>2 DEF FailPendingAssessment, a
  <2>6. RowStep
    BY <1>1, <2>3, <2>4, <2>5, RowStored DEF RowFits
  <2> QED
    BY <1>2, <2>3, <2>5, <2>6 DEF Worked, Halted, Terminal, Store
<1>3. CASE ~(Current(snapshot) /\ issue.status \in {"RECEIVED", "ASSESSING"})
  BY <1>1, <1>3, RowKept DEF FailPendingAssessment
<1> QED
  BY <1>2, <1>3

(* assess, up to its first await *)
LEMMA AssessStep == ASSUME IInv, Assess PROVE WorkerStep
<1>1. Dispatched("ASSESS") /\ "ASSESS" \in Operations
  BY DEF Assess, Operations, AgentOperations, ResumeStatus
<1>2. /\ mode = "up" /\ pending # None /\ TypeOK /\ RowFits(issue, pending)
      /\ issue \in Issue /\ issue.status \in Statuses \ Halted
  BY <1>1, DispatchedFacts DEF IInv
<1>3. CASE ~issue.path
  <2>1. Worked /\ OpStep /\ asleep' \in BOOLEAN
    BY <1>2, <1>3, RowKept, OperationLeft DEF Assess
  <2> QED
    BY <1>2, <2>1 DEF Assess, WorkerStep, OperationFrame, history, TypeOK
<1>4. CASE issue.path /\ issue.session
  BY <1>2, <1>4, BeginAssessmentStep DEF Assess
<1>5. CASE issue.path /\ ~issue.session
  <2>1. /\ Started("creating", "ASSESS", issue) /\ UNCHANGED <<issue, pending>>
        /\ asleep' = asleep
    BY <1>5 DEF Assess
  <2>2. Worked
    BY <1>2, <2>1, RowKept
  <2> DEFINE o == [NoOp EXCEPT !.pc = "creating", !.kind = "ASSESS", !.snap = issue']
  <2>3. o.pc = "creating" /\ o.kind = "ASSESS" /\ "creating" \in Phases
    BY DEF NoOp, Phases
  <2>4. ClaimedStatus(o) = Statuses \ Halted
    BY <2>3 DEF ClaimedStatus, Turning
  <2>5. OpStep
    BY <1>1, <1>2, <2>1, <2>3, <2>4, OperationStarted DEF Turning
  <2> QED
    BY <1>2, <2>1, <2>2, <2>5 DEF Assess, WorkerStep, OperationFrame, history, TypeOK
<1> QED
  BY <1>3, <1>4, <1>5

(* assess, with the session that was created *)
LEMMA SessionCreatedStep == ASSUME IInv, SessionCreated PROVE WorkerStep
<1>1. Active
  BY DEF SessionCreated, At, Active
<1> QED
  BY <1>1, BeginAssessmentStep DEF SessionCreated

(* assess, when no session could be created *)
LEMMA SessionNotCreatedStep == ASSUME IInv, SessionNotCreated PROVE WorkerStep
<1>1. Active /\ Worked
  BY FailPendingAssessmentWorked DEF SessionNotCreated, At, Active
<1>2. OpStep /\ asleep' \in BOOLEAN
  BY OperationLeft DEF SessionNotCreated, IInv
<1> QED
  BY <1>1, <1>2 DEF SessionNotCreated, WorkerStep, OperationFrame, history, IInv, TypeOK

-----------------------------------------------------------------------------
(* The start of the other operations                                       *)

(* An operation whose claim keeps the row but for what it has pending. *)
LEMMA ClaimedAsIs ==
  ASSUME IInv, NEW operation \in Operations, Dispatched(operation),
         NEW pc \in Phases,
         pc \in Turning => operation \in AgentOperations,
         pc \notin {"publishing", "releasing"} \/ operation = "FINALIZE",
         issue.status \in
           ClaimedStatus([NoOp EXCEPT !.pc = pc, !.kind = operation, !.snap = issue]),
         Store(issue, None) \/ UNCHANGED <<issue, pending>>,
         Started(pc, operation, issue), asleep' = asleep,
         binding' \in Bindings, OperationFrame
  PROVE  WorkerStep
<1>1. /\ mode = "up" /\ pending # None /\ TypeOK /\ RowFits(issue, pending)
      /\ issue \in Issue /\ issue.status \in Statuses \ Halted
  BY DispatchedFacts DEF IInv
<1>2. issue' = issue /\ RowStep
  BY <1>1, RowKept, RowStored DEF Store, RowFits, Halted, Worked
<1>3. Worked
  BY <1>2 DEF Worked
<1>4. OpStep
  BY <1>1, <1>2, OperationStarted
<1> QED
  BY <1>1, <1>3, <1>4 DEF WorkerStep, OperationFrame, history, TypeOK

(* An operation that is refused leaves everything as it is. *)
LEMMA RefusedStep ==
  ASSUME IInv, NEW operation \in Operations, Dispatched(operation),
         Reject \/ (UNCHANGED <<op, asleep>>),
         UNCHANGED <<issue, pending, binding>>, OperationFrame
  PROVE  WorkerStep
<1>1. mode = "up" /\ pending # None /\ TypeOK /\ RowFits(issue, pending) /\ ~Claimed
  BY DispatchedFacts DEF IInv
<1>2. Worked
  BY <1>1, RowKept
<1>3. OpStep /\ asleep' \in BOOLEAN
  <2>1. CASE Reject
    BY <1>1, <2>1, OperationLeft
  <2>2. CASE UNCHANGED <<op, asleep>>
    <3>1. OperationFits' /\ op' \in Op /\ ~Claimed' /\ asleep' \in BOOLEAN
      BY <1>1, <2>2 DEF IInv, TypeOK, OperationFits, ClaimedStatus, Claimed
    <3> QED
      BY <3>1 DEF OpStep
  <2> QED
    BY <2>1, <2>2
<1> QED
  BY <1>1, <1>2, <1>3 DEF WorkerStep, OperationFrame, history, TypeOK

(* repair, up to its first await *)
LEMMA RepairStep == ASSUME IInv, Repair PROVE WorkerStep
<1>1. Dispatched("REPAIR") /\ "REPAIR" \in Operations
  BY DEF Repair, Operations, AgentOperations, ResumeStatus
<1> DEFINE o == [NoOp EXCEPT !.pc = "observing", !.kind = "REPAIR", !.snap = issue]
<1>2. o.pc = "observing" /\ o.kind = "REPAIR" /\ "observing" \in Phases \ Turning
  BY DEF NoOp, Phases, Turning
<1>3. ClaimedStatus(o) = {"REPAIRING"}
  BY <1>2 DEF ClaimedStatus
<1>4. CASE RepairContext(issue) /\ issue.status = "REPAIRING" /\ issue.path
  BY <1>1, <1>2, <1>3, <1>4, ClaimedAsIs DEF Repair, IInv, TypeOK
<1>5. CASE ~(RepairContext(issue) /\ issue.status = "REPAIRING" /\ issue.path)
  BY <1>1, <1>5, RefusedStep DEF Repair
<1> QED
  BY <1>4, <1>5

(* captureEvidence, up to its first await *)
LEMMA CaptureEvidenceStep == ASSUME IInv, CaptureEvidence PROVE WorkerStep
<1>1. Dispatched("CAPTURE_EVIDENCE") /\ "CAPTURE_EVIDENCE" \in Operations
  BY DEF CaptureEvidence, Operations, AgentOperations, ResumeStatus
<1> DEFINE o == [NoOp EXCEPT !.pc = "intake", !.kind = "CAPTURE_EVIDENCE", !.snap = issue]
<1>2. o.pc = "intake" /\ o.kind = "CAPTURE_EVIDENCE" /\ "intake" \in Phases \ Turning
  BY DEF NoOp, Phases, Turning
<1>3. ClaimedStatus(o) = {"EVIDENCE_CAPTURE"}
  BY <1>2 DEF ClaimedStatus
<1>4. CASE CaptureContext(issue) /\ issue.path
  BY <1>1, <1>2, <1>3, <1>4, ClaimedAsIs DEF CaptureEvidence, CaptureContext, IInv, TypeOK
<1>5. CASE ~(CaptureContext(issue) /\ issue.path)
  BY <1>1, <1>5, RefusedStep DEF CaptureEvidence
<1> QED
  BY <1>4, <1>5

(* inspectEvidence, up to its first await *)
LEMMA InspectEvidenceStep == ASSUME IInv, InspectEvidence PROVE WorkerStep
<1>1. Dispatched("EVIDENCE") /\ "EVIDENCE" \in Operations
  BY DEF InspectEvidence, Operations
<1> DEFINE o == [NoOp EXCEPT !.pc = "inspecting", !.kind = "EVIDENCE", !.snap = issue]
<1>2. o.pc = "inspecting" /\ o.kind = "EVIDENCE" /\ "inspecting" \in Phases \ Turning
  BY DEF NoOp, Phases, Turning
<1>3. ClaimedStatus(o) = {"EVIDENCE_CHECK"}
  BY <1>2 DEF ClaimedStatus
<1>4. CASE issue.status = "EVIDENCE_CHECK" /\ issue.delivery > 0
  BY <1>1, <1>2, <1>3, <1>4, ClaimedAsIs DEF InspectEvidence, IInv, TypeOK
<1>5. CASE ~(issue.status = "EVIDENCE_CHECK" /\ issue.delivery > 0)
  BY <1>1, <1>5, RefusedStep DEF InspectEvidence
<1> QED
  BY <1>4, <1>5

(* A recovery without context starts by being judged as failed. *)
LEMMA RecoveryWithoutContext ==
  ASSUME IInv, Dispatched("RECOVER_FINALIZATION"), issue.status = "FINALIZATION_RECOVERY",
         op' = [NoOp EXCEPT !.pc = "validating", !.kind = "RECOVER_FINALIZATION",
                            !.snap = issue, !.result = "failed"],
         UNCHANGED <<issue, pending, binding, asleep>>, OperationFrame
  PROVE  WorkerStep
<1>1. "RECOVER_FINALIZATION" \in Operations
  BY DEF Operations, AgentOperations, ResumeStatus
<1>2. /\ mode = "up" /\ pending # None /\ TypeOK /\ RowFits(issue, pending)
      /\ issue \in Issue
  BY <1>1, DispatchedFacts DEF IInv
<1>3. Worked
  BY <1>2, RowKept
<1>4. NoOp \in Op /\ "validating" \in Phases \ Turning /\ "failed" \in Results
  BY NoOpType DEF Phases, Turning, Results
<1>5. /\ op' \in Op /\ op'.pc = "validating" /\ op'.kind = "RECOVER_FINALIZATION"
      /\ op'.snap = issue
  BY <1>1, <1>2, <1>4 DEF Op
<1>6. OpStep
  BY <1>2, <1>4, <1>5 DEF OpStep, OperationFits, ClaimedStatus
<1> QED
  BY <1>2, <1>3, <1>6 DEF WorkerStep, OperationFrame, history, TypeOK

(* recoverFinalization, up to its first await *)
LEMMA RecoverFinalizationStep == ASSUME IInv, RecoverFinalization PROVE WorkerStep
<1>1. Dispatched("RECOVER_FINALIZATION") /\ "RECOVER_FINALIZATION" \in AgentOperations
      /\ "RECOVER_FINALIZATION" \in Operations
  BY DEF RecoverFinalization, Operations, AgentOperations, ResumeStatus
<1> DEFINE o == [NoOp EXCEPT !.pc = "turn", !.kind = "RECOVER_FINALIZATION", !.snap = issue]
<1>2. o.pc = "turn" /\ o.kind = "RECOVER_FINALIZATION" /\ "turn" \in Phases
  BY DEF NoOp, Phases, Turning
<1>3. ClaimedStatus(o) = {"FINALIZATION_RECOVERY"}
  BY <1>2 DEF ClaimedStatus
<1>4. CASE issue.status # "FINALIZATION_RECOVERY"
  BY <1>1, <1>4, RefusedStep DEF RecoverFinalization
<1>5. CASE issue.status = "FINALIZATION_RECOVERY" /\ issue.session /\ issue.recovery = "STARTED"
  BY <1>1, <1>2, <1>3, <1>5, ClaimedAsIs DEF RecoverFinalization, IInv, TypeOK
<1>6. CASE /\ issue.status = "FINALIZATION_RECOVERY"
           /\ ~(issue.session /\ issue.recovery = "STARTED")
  BY <1>1, <1>6, RecoveryWithoutContext DEF RecoverFinalization
<1> QED
  BY <1>4, <1>5, <1>6

-----------------------------------------------------------------------------
(* An operation on its way                                                 *)

(* The next phase of an operation, its snapshot and kind being kept. *)
LEMMA PhaseStep ==
  ASSUME IInv, Claimed, op' \in Op, op'.snap = op.snap, op'.kind = op.kind,
         op'.pc \in Turning => op.kind \in AgentOperations,
         op'.pc \in {"publishing", "releasing"} => op.kind = "FINALIZE",
         ClaimedStatus(op) \subseteq ClaimedStatus(op'),
         asleep' \in BOOLEAN, UNCHANGED <<issue, pending, binding>>, OperationFrame
  PROVE  WorkerStep
BY OperationContinues, Idles, SnapshotFacts

(* The operation ends, having written nothing. *)
LEMMA LeftStep ==
  ASSUME IInv, Active,
         \/ Settle \/ Reject \/ CleanUp("cleanup") \/ CleanUp("unwinding"),
         UNCHANGED <<issue, pending, binding>>, OperationFrame
  PROVE  WorkerStep
BY OperationLeft, Idles DEF IInv

(* repair, after observeRepair *)
LEMMA RepairObservedStep == ASSUME IInv, RepairObserved PROVE WorkerStep
<1>1. Claimed /\ op.kind = "REPAIR" /\ op.pc = "observing"
  BY DEF RepairObserved, At, Claimed
<1>2. /\ op' \in Op /\ op'.snap = op.snap /\ op'.kind = op.kind /\ op'.pc = "intake"
      /\ asleep' \in BOOLEAN
  BY DEF RepairObserved, Goto, IInv, TypeOK, Op, Phases
<1> QED
  BY <1>1, <1>2, PhaseStep DEF RepairObserved, ClaimedStatus, Turning

(* A Repair that ends in REPAIR_FAILED. *)
LEMMA RepairFailed ==
  ASSUME IInv, Claimed, op.kind = "REPAIR", op.pc # "importing",
         NEW code \in FailureCodes,
         Complete(op.snap, RecordRepairFailure(op.snap, code), None),
         Settle \/ CleanUp("cleanup"), UNCHANGED binding, OperationFrame
  PROVE  WorkerStep
<1> DEFINE next == RecordRepairFailure(op.snap, code)
<1>1. op.snap \in Issue /\ op.snap.status = "REPAIRING"
  BY SnapshotFacts DEF ClaimedStatus
<1>2. Advances(op.snap, next) /\ next.status = "REPAIR_FAILED"
  BY <1>1, RecordRepairFailureAdvances
<1>3. next.status \in Statuses \ Halted /\ op.snap.status \notin Halted
  BY <1>1, <1>2 DEF Halted, Terminal, Statuses, Transitions
<1> HIDE DEF next
<1> QED
  BY <1>2, <1>3, Completes DEF next

(* repair, when observeRepair fails *)
LEMMA RepairNotObservedStep == ASSUME IInv, RepairNotObserved PROVE WorkerStep
BY RepairFailed DEF RepairNotObserved, At, Claimed, FailureCodes

(* The evidence intake is there: the turn or the host capture begins. *)
LEMMA IntakePreparedStep == ASSUME IInv, IntakePrepared PROVE WorkerStep
<1>1. Claimed /\ op.kind \in {"REPAIR", "CAPTURE_EVIDENCE"} /\ op.pc = "intake"
  BY DEF IntakePrepared, At, Claimed
<1>2. /\ op' \in Op /\ op'.snap = op.snap /\ op'.kind = op.kind
      /\ op'.pc \in {"turn", "capturing"}
      /\ asleep' \in BOOLEAN
  BY DEF IntakePrepared, Goto, IInv, TypeOK, Op, Phases, Turning
<1>3. op.kind \in AgentOperations
  BY <1>1 DEF AgentOperations, ResumeStatus
<1>4. ClaimedStatus(op) \subseteq ClaimedStatus(op')
  BY <1>1, <1>2 DEF ClaimedStatus
<1> QED
  BY <1>1, <1>2, <1>3, <1>4, PhaseStep DEF IntakePrepared

(* The evidence intake could not be prepared. *)
LEMMA IntakeFailedStep == ASSUME IInv, IntakeFailed PROVE WorkerStep
<1>1. Claimed /\ op.kind \in {"REPAIR", "CAPTURE_EVIDENCE"} /\ op.pc = "intake"
  BY DEF IntakeFailed, At, Claimed
<1>2. CASE op.kind = "REPAIR"
  BY <1>1, <1>2, RepairFailed DEF IntakeFailed, FailureCodes
<1>3. CASE op.kind = "CAPTURE_EVIDENCE"
  <2>1. op.snap.status = "EVIDENCE_CAPTURE"
    BY <1>1, <1>3, SnapshotFacts DEF ClaimedStatus
  <2> QED
    BY <1>1, <1>3, <2>1, CaptureQueued DEF IntakeFailed
<1> QED
  BY <1>1, <1>2, <1>3

(* A turn belongs to one of the Agent's operations, on that one's status. *)
LEMMA TurnFacts ==
  ASSUME IInv, op.pc \in Turning
  PROVE  /\ Claimed /\ op.kind \in AgentOperations
         /\ op.snap \in Issue /\ op.snap.status = ResumeStatus[op.kind]
         /\ op.snap.status \in Statuses \ Halted
<1>1. Claimed /\ op.kind \in AgentOperations
  BY DEF IInv, OperationFits, Claimed, Turning
<1>2. op.snap \in Issue /\ op.snap.status \in ClaimedStatus(op)
  BY <1>1, SnapshotFacts
<1>3. op.pc # "importing"
  BY DEF Turning
<1>4. op.snap.status = ResumeStatus[op.kind]
  BY <1>1, <1>2, <1>3 DEF ClaimedStatus, AgentOperations, ResumeStatus
<1>5. op.snap.status \in
        {"ASSESSING", "REPAIRING", "EVIDENCE_CAPTURE", "FINALIZATION_RECOVERY"}
  BY <1>1, <1>4, ResumeTargets
<1> QED
  BY <1>1, <1>2, <1>4, <1>5 DEF Halted, Terminal, Issue

(* The Agent's answer was invalid: its second turn begins. *)
LEMMA TurnCorrectedStep == ASSUME IInv, TurnCorrected PROVE WorkerStep
<1>1. Claimed /\ op.kind \in AgentOperations /\ op.pc = "turn"
  BY TurnFacts DEF TurnCorrected, Turning
<1>2. /\ op' \in Op /\ op'.snap = op.snap /\ op'.kind = op.kind
      /\ op'.pc = "correcting" /\ asleep' \in BOOLEAN
  BY DEF TurnCorrected, IInv, TypeOK, Op, Phases, Turning
<1>3. ClaimedStatus(op) \subseteq ClaimedStatus(op')
  BY <1>1, <1>2 DEF ClaimedStatus, Turning
<1> QED
  BY <1>1, <1>2, <1>3, PhaseStep DEF TurnCorrected

(* A turn is left for the end of the operation or its clean-up. *)
LEMMA LeaveEnds == ASSUME Leave PROVE Settle \/ CleanUp("cleanup")
BY DEF Leave

(* The turn returned an assessment. *)
LEMMA AssessmentReturnedStep ==
  ASSUME IInv, NEW a \in AgentAssessments, AssessmentReturned(a) PROVE WorkerStep
<1> DEFINE done == RecordAssessment(op.snap, a)
           next == RequestReview(done, "assessment")
<1>1. op.pc \in Turning /\ op.kind = "ASSESS"
  BY DEF AssessmentReturned, InTurn
<1>2. op.snap \in Issue /\ op.snap.status = "ASSESSING" /\ Claimed
  BY <1>1, TurnFacts DEF ResumeStatus
<1>3. a \in Assessment
  BY AssessmentAssumption
<1>4. Advances(op.snap, done)
  BY <1>2, <1>3, RecordAssessmentAdvances
<1>5. Advances(done, next) /\ next.status = "REVIEW_REQUIRED"
  BY <1>4, RequestReviewAdvances DEF Advances, Reviews
<1>6. Advances(op.snap, next)
  BY <1>2, <1>4, <1>5 DEF Advances, Issue
<1>7. Complete(op.snap, next, None) /\ (Settle \/ CleanUp("cleanup"))
  BY LeaveEnds DEF AssessmentReturned
<1>8. op.snap.status \notin Halted /\ next.status \in Statuses \ Halted
  BY <1>2, <1>5 DEF Halted, Terminal, Statuses, Transitions
<1> HIDE DEF next
<1> QED
  BY <1>2, <1>6, <1>7, <1>8, Completes DEF AssessmentReturned

(* The turn returned an implementation, or a business decision. *)
LEMMA RepairReturnedStep ==
  ASSUME IInv, NEW result \in {"business", "evidence", "noEvidence"}, RepairReturned(result)
  PROVE  WorkerStep
<1>1. op.pc \in Turning /\ op.kind = "REPAIR" /\ Claimed
  BY TurnFacts DEF RepairReturned, InTurn
<1>2. /\ op' \in Op /\ op'.snap = op.snap /\ op'.kind = op.kind
      /\ op'.pc = "validating" /\ asleep' \in BOOLEAN
  BY DEF RepairReturned, IInv, TypeOK, Op, Phases, Results
<1> QED
  BY <1>1, <1>2, PhaseStep DEF RepairReturned, ClaimedStatus, Turning

(* The turn or the host returned evidence. *)
LEMMA EvidenceReturnedStep == ASSUME IInv, EvidenceReturned PROVE WorkerStep
<1>1. op.kind = "CAPTURE_EVIDENCE" /\ Claimed /\ Active
  BY DEF EvidenceReturned, InTurn, At, Claimed, Active, Turning
<1>2. CASE op.aborted
  BY <1>1, <1>2, LeftStep DEF EvidenceReturned
<1>3. CASE ~op.aborted
  <2>1. /\ op' \in Op /\ op'.snap = op.snap /\ op'.kind = op.kind
        /\ op'.pc = "importing" /\ asleep' \in BOOLEAN
    BY <1>3 DEF EvidenceReturned, IInv, TypeOK, Op, Phases
  <2> QED
    BY <1>1, <2>1, PhaseStep DEF EvidenceReturned, ClaimedStatus, Turning
<1> QED
  BY <1>2, <1>3

(* A result moves on to its validation. *)
LEMMA RevalidatedStep ==
  ASSUME IInv, op.pc \in Turning, op.kind = "RECOVER_FINALIZATION",
         NEW result \in Results, Revalidated(result), asleep' = asleep,
         UNCHANGED <<issue, pending, binding>>, OperationFrame
  PROVE  WorkerStep
<1>1. Claimed /\ Active /\ asleep \in BOOLEAN
  BY TurnFacts, SnapshotFacts DEF IInv, TypeOK
<1>2. CASE Current(op.snap)
  <2>1. /\ op' \in Op /\ op'.snap = op.snap /\ op'.kind = op.kind /\ op'.pc = "validating"
    BY <1>2 DEF Revalidated, IInv, TypeOK, Op, Phases
  <2> QED
    BY <1>1, <2>1, PhaseStep DEF ClaimedStatus, Turning
<1>3. CASE ~Current(op.snap)
  BY <1>1, <1>3, LeftStep DEF Revalidated, Settle
<1> QED
  BY <1>2, <1>3

(* The turn returned a judgement of the recovery. *)
LEMMA RecoveryReturnedStep ==
  ASSUME IInv, NEW result \in {"resolved", "unsafe"}, RecoveryReturned(result)
  PROVE  WorkerStep
BY RevalidatedStep DEF RecoveryReturned, InTurn, Results

(* The turn asked for a capability. *)
LEMMA CapabilityRequiredStep ==
  ASSUME IInv, NEW c \in SUBSET Capabilities, CapabilityRequired(c)
  PROVE  WorkerStep
<1> DEFINE next == RecordCapabilityRequest(op.snap, op.kind, c)
<1>1. /\ Claimed /\ Active /\ op.kind \in AgentOperations
      /\ op.snap \in Issue /\ op.snap.status \in Statuses \ Halted
  BY TurnFacts, SnapshotFacts DEF CapabilityRequired
<1>2. CASE Rethrows
  BY <1>1, <1>2, LeftStep DEF CapabilityRequired
<1>3. CASE ~Rethrows
  <2>1. Advances(op.snap, next) /\ next.status = "PERMISSION_REQUIRED"
    BY <1>1, RecordCapabilityRequestAdvances
  <2>2. next.status \in Statuses \ Halted
    BY <2>1 DEF Halted, Terminal, Statuses, Transitions
  <2>3. Complete(op.snap, next, None) /\ (Settle \/ CleanUp("cleanup"))
    BY <1>3, LeaveEnds DEF CapabilityRequired
  <2> HIDE DEF next
  <2> QED
    BY <1>1, <2>1, <2>2, <2>3, Completes DEF CapabilityRequired
<1> QED
  BY <1>2, <1>3

(* failTurn: how each kind of operation records a failed turn. *)
LEMMA FailTurnStep ==
  ASSUME IInv, op.pc \in Turning, NEW code \in FailureCodes, FailTurn(code),
         UNCHANGED binding, OperationFrame
  PROVE  WorkerStep
<1>1. /\ Claimed /\ Active /\ op.kind \in AgentOperations /\ op.pc # "importing"
      /\ op.snap \in Issue /\ op.snap.status = ResumeStatus[op.kind]
  BY TurnFacts, SnapshotFacts DEF Turning
<1>2. CASE op.kind = "ASSESS"
  <2> DEFINE next == RecordAssessmentFailure(op.snap, code)
  <2>1. op.snap.status = "ASSESSING"
    BY <1>1, <1>2 DEF ResumeStatus
  <2>2. Advances(op.snap, next) /\ next.status = "ASSESSMENT_FAILED"
    BY <1>1, <2>1, RecordAssessmentFailureAdvances
  <2>3. next.status \in Statuses \ Halted /\ op.snap.status \notin Halted
    BY <2>1, <2>2 DEF Halted, Terminal, Statuses, Transitions
  <2>4. Complete(op.snap, next, None) /\ (Settle \/ CleanUp("cleanup"))
    BY <1>2, LeaveEnds DEF FailTurn
  <2> HIDE DEF next
  <2> QED
    BY <1>1, <2>2, <2>3, <2>4, Completes
<1>3. CASE op.kind = "REPAIR"
  <2>1. /\ Complete(op.snap, RecordRepairFailure(op.snap, code), None)
        /\ Settle \/ CleanUp("cleanup")
    BY <1>3, LeaveEnds DEF FailTurn
  <2> QED
    BY <1>1, <1>3, <2>1, RepairFailed
<1>4. CASE op.kind = "CAPTURE_EVIDENCE"
  <2>1. op.snap.status = "EVIDENCE_CAPTURE"
    BY <1>1, <1>4 DEF ResumeStatus
  <2>2. CASE op.aborted
    BY <1>1, <1>4, <2>2, LeftStep DEF FailTurn
  <2>3. CASE ~op.aborted
    <3>1. QueueEvidenceCapture(op.snap) /\ (Settle \/ CleanUp("cleanup"))
      BY <1>4, <2>3, LeaveEnds DEF FailTurn
    <3> QED
      BY <1>1, <2>1, <3>1, CaptureQueued
  <2> QED
    BY <2>2, <2>3
<1>5. CASE op.kind = "RECOVER_FINALIZATION"
  <2>1. /\ UNCHANGED <<issue, pending>> /\ Revalidated("failed") /\ asleep' = asleep
    BY <1>5 DEF FailTurn
  <2> QED
    BY <1>5, <2>1, RevalidatedStep DEF Results
<1> QED
  BY <1>1, <1>2, <1>3, <1>4, <1>5 DEF AgentOperations, ResumeStatus

(* The turn failed. *)
LEMMA TurnFailedStep ==
  ASSUME IInv, NEW code \in FailureCodes, TurnFailed(code)
  PROVE  WorkerStep
BY FailTurnStep DEF TurnFailed

(* The turn was aborted. *)
LEMMA TurnInterruptedStep == ASSUME IInv, TurnInterrupted PROVE WorkerStep
<1> DEFINE next == [op.snap EXCEPT !.revision = @ + 1]
<1>1. /\ Claimed /\ op.kind \in AgentOperations /\ op.snap \in Issue
      /\ op.snap.status \in Statuses \ Halted
  BY TurnFacts DEF TurnInterrupted
<1>2. CASE op.interrupt = "RUNTIME_STOPPING" /\ ~Rethrows
  <2>1. op.snap.revision + 1 \in Nat /\ op.snap.revision + 1 > op.snap.revision
    BY <1>1 DEF Issue
  <2>2. Advances(op.snap, next) /\ next.status = op.snap.status
    BY <1>1, <2>1 DEF Advances, Issue
  <2>3. Complete(op.snap, next, op.kind) /\ (Settle \/ CleanUp("cleanup"))
    BY <1>2, LeaveEnds DEF TurnInterrupted
  <2>4. op.kind \in Operations
    BY <1>1, NoneIsNoOperation
  <2> HIDE DEF next
  <2> QED
    BY <1>1, <2>2, <2>3, <2>4, Completes DEF TurnInterrupted
<1>3. CASE ~(op.interrupt = "RUNTIME_STOPPING" /\ ~Rethrows)
  BY <1>3, FailTurnStep DEF TurnInterrupted, FailureCodes
<1> QED
  BY <1>2, <1>3

(* The host capture saw the aborted signal. *)
LEMMA HostCaptureAbortedStep == ASSUME IInv, HostCaptureAborted PROVE WorkerStep
BY LeftStep DEF HostCaptureAborted, At, Active

(* The host capture failed. *)
LEMMA HostCaptureFailedStep == ASSUME IInv, HostCaptureFailed PROVE WorkerStep
<1>1. Claimed /\ op.kind = "CAPTURE_EVIDENCE"
  BY DEF HostCaptureFailed, At, Claimed
<1>2. op.snap.status = "EVIDENCE_CAPTURE"
  BY <1>1, SnapshotFacts DEF ClaimedStatus
<1> QED
  BY <1>1, <1>2, CaptureQueued DEF HostCaptureFailed

(* validateRepair rejected the implementation. *)
LEMMA RepairInvalidStep == ASSUME IInv, RepairInvalid PROVE WorkerStep
BY RepairFailed DEF RepairInvalid, At, Claimed, FailureCodes

(* validateRepair accepted the business conflict. *)
LEMMA BusinessDecisionRequiredStep ==
  ASSUME IInv, BusinessDecisionRequired PROVE WorkerStep
<1> DEFINE next == RequestReview(op.snap, "business-merge-conflict")
<1>1. Claimed /\ op.kind = "REPAIR" /\ op.pc # "importing"
  BY DEF BusinessDecisionRequired, At, Claimed
<1>2. op.snap \in Issue /\ op.snap.status = "REPAIRING"
  BY <1>1, SnapshotFacts DEF ClaimedStatus
<1>3. Advances(op.snap, next) /\ next.status = "REVIEW_REQUIRED"
  BY <1>2, RequestReviewAdvances DEF Reviews
<1>4. next.status \in Statuses \ Halted /\ op.snap.status \notin Halted
  BY <1>2, <1>3 DEF Halted, Terminal, Statuses, Transitions
<1>5. Complete(op.snap, next, None)
  BY DEF BusinessDecisionRequired
<1> HIDE DEF next
<1> QED
  BY <1>1, <1>3, <1>4, <1>5, Completes DEF BusinessDecisionRequired

(* validateRepair accepted the implementation. *)
LEMMA ImplementationReadyStep == ASSUME IInv, ImplementationReady PROVE WorkerStep
<1> DEFINE drafted == RecordImplementationDraft(op.snap)
<1>1. Claimed /\ op.kind = "REPAIR" /\ op.pc = "validating"
  BY DEF ImplementationReady, At, Claimed
<1>2. op.snap \in Issue /\ op.snap.status = "REPAIRING"
  BY <1>1, SnapshotFacts DEF ClaimedStatus
<1>3. Advances(op.snap, drafted) /\ drafted.status = "EVIDENCE_CAPTURE"
  BY <1>2, RecordImplementationDraftAdvances
<1>4. drafted.status \in Statuses \ Halted /\ op.snap.status \notin Halted
  BY <1>2, <1>3 DEF Halted, Terminal, Statuses, Transitions
<1>5. CASE op.result = "evidence" /\ Current(op.snap)
  <2>1. /\ Store(drafted, None) /\ asleep' = asleep
        /\ op' = [op EXCEPT !.pc = "importing", !.snap = drafted, !.result = None]
    BY <1>5 DEF ImplementationReady
  <2> HIDE DEF drafted
  <2>2. Complete(op.snap, drafted, None)
    BY <1>5, <2>1 DEF Complete
  <2>3. Worked
    BY <1>1, <1>3, <1>4, <2>2, SnapshotFacts, RowCompleted DEF Halted
  <2>4. drafted \in Issue /\ issue' = drafted
    BY <1>3, <2>1 DEF Advances, Store
  <2>5. /\ op' \in Op /\ op'.pc = "importing" /\ op'.kind = "REPAIR" /\ op'.snap = issue'
    BY <1>1, <2>1, <2>4 DEF IInv, TypeOK, Op, Phases
  <2>6. OpStep
    BY <1>3, <2>4, <2>5 DEF OpStep, OperationFits, ClaimedStatus, Turning
  <2> QED
    BY <1>1, <2>1, <2>3, <2>6, SnapshotFacts
    DEF ImplementationReady, WorkerStep, OperationFrame, history, TypeOK
<1>6. CASE ~(op.result = "evidence" /\ Current(op.snap))
  <2>1. Complete(op.snap, drafted, "CAPTURE_EVIDENCE") /\ CleanUp("cleanup")
    BY <1>6 DEF ImplementationReady
  <2>2. "CAPTURE_EVIDENCE" \in Operations
    BY DEF Operations, AgentOperations, ResumeStatus
  <2> HIDE DEF drafted
  <2> QED
    BY <1>1, <1>3, <1>4, <2>1, <2>2, Completes DEF ImplementationReady
<1> QED
  BY <1>5, <1>6

(* A capture, or a Repair with evidence, is past EVIDENCE_CAPTURE's claim. *)
LEMMA ImportingFacts ==
  ASSUME IInv, At("importing", {"REPAIR", "CAPTURE_EVIDENCE"})
  PROVE  Claimed /\ op.snap \in Issue /\ op.snap.status = "EVIDENCE_CAPTURE"
<1>1. Claimed /\ op.pc = "importing" /\ op.kind \in {"REPAIR", "CAPTURE_EVIDENCE"}
  BY DEF At, Claimed
<1> QED
  BY <1>1, SnapshotFacts DEF ClaimedStatus

(* The evidence was imported. *)
LEMMA DeliveryImportedStep == ASSUME IInv, DeliveryImported PROVE WorkerStep
<1> DEFINE next == RecordDelivery(op.snap)
<1>1. Claimed /\ op.snap \in Issue /\ op.snap.status = "EVIDENCE_CAPTURE"
  BY ImportingFacts DEF DeliveryImported
<1>2. Advances(op.snap, next) /\ next.status = "EVIDENCE_CHECK"
  BY <1>1, RecordDeliveryAdvances
<1>3. /\ next.status \in Statuses \ Halted /\ op.snap.status \notin Halted
      /\ "EVIDENCE" \in Operations
  BY <1>1, <1>2 DEF Halted, Terminal, Statuses, Transitions, Operations
<1>4. Complete(op.snap, next, "EVIDENCE")
  BY DEF DeliveryImported
<1> HIDE DEF next
<1> QED
  BY <1>1, <1>2, <1>3, <1>4, Completes DEF DeliveryImported

(* The evidence could not be imported. *)
LEMMA DeliveryNotImportedStep == ASSUME IInv, DeliveryNotImported PROVE WorkerStep
BY ImportingFacts, CaptureQueued DEF DeliveryNotImported

(* The evidence intake was removed: the operation is over. *)
LEMMA IntakeRemovedStep == ASSUME IInv, IntakeRemoved PROVE WorkerStep
BY LeftStep DEF IntakeRemoved, Active

(* The evidence intake could not be removed: the operation rejects. *)
LEMMA IntakeNotRemovedStep == ASSUME IInv, IntakeNotRemoved PROVE WorkerStep
BY LeftStep DEF IntakeNotRemoved, Active

(* The evidence is reviewable: a human is asked. *)
LEMMA EvidenceReviewableStep == ASSUME IInv, EvidenceReviewable PROVE WorkerStep
<1> DEFINE done == RecordEvidenceAcceptance(op.snap)
           next == RequestReview(done, "delivery")
<1>1. Claimed /\ op.kind = "EVIDENCE"
  BY DEF EvidenceReviewable, At, Claimed
<1>2. op.snap \in Issue /\ op.snap.status = "EVIDENCE_CHECK"
  BY <1>1, SnapshotFacts DEF ClaimedStatus, Turning
<1>3. Advances(op.snap, done)
  BY <1>2, RecordEvidenceAcceptanceAdvances
<1>4. Advances(done, next) /\ next.status = "REVIEW_REQUIRED"
  BY <1>3, RequestReviewAdvances DEF Advances, Reviews
<1>5. Advances(op.snap, next)
  BY <1>2, <1>3, <1>4 DEF Advances, Issue
<1>6. next.status \in Statuses \ Halted /\ op.snap.status \notin Halted
  BY <1>2, <1>4 DEF Halted, Terminal, Statuses, Transitions
<1>7. Complete(op.snap, next, None)
  BY DEF EvidenceReviewable
<1> HIDE DEF next
<1> QED
  BY <1>1, <1>5, <1>6, <1>7, Completes DEF EvidenceReviewable

(* The evidence is not reviewable: it is captured again. *)
LEMMA EvidenceNotReviewableStep == ASSUME IInv, EvidenceNotReviewable PROVE WorkerStep
<1>1. Claimed /\ op.kind = "EVIDENCE"
  BY DEF EvidenceNotReviewable, At, Claimed
<1>2. op.snap.status = "EVIDENCE_CHECK"
  BY <1>1, SnapshotFacts DEF ClaimedStatus
<1> QED
  BY <1>1, <1>2, CaptureQueued DEF EvidenceNotReviewable

(* The Agent of the issue is not installed. *)
LEMMA AgentUnavailableStep == ASSUME IInv, AgentUnavailable PROVE WorkerStep
<1>1. pending \in Operations /\ Dispatched(pending)
  BY DEF AgentUnavailable, IInv, TypeOK
<1>2. /\ mode = "up" /\ pending # None /\ TypeOK /\ RowFits(issue, pending) /\ ~Claimed
      /\ issue \in Issue /\ issue.status \in Statuses \ Halted
  BY <1>1, DispatchedFacts DEF IInv
<1>3. op' = op => OpStep
  BY <1>2 DEF OpStep, IInv, TypeOK, OperationFits, ClaimedStatus, Claimed
<1>4. CASE pending = "ASSESS"
  <2>1. Worked /\ op' = op
    BY <1>4, FailPendingAssessmentWorked DEF AgentUnavailable
  <2> QED
    BY <1>2, <1>3, <2>1 DEF AgentUnavailable, WorkerStep, OperationFrame, history, TypeOK
<1>5. CASE pending = "REPAIR" /\ op' = op
  <2> DEFINE next == RecordRepairFailure(issue, "AGENT_FAILURE")
  <2>1. Store(next, None)
    BY <1>5 DEF AgentUnavailable
  <2>2. issue.status = "REPAIRING"
    <3>1. CanTransition(issue, "REPAIR_ERRORED")
      BY <1>5 DEF AgentUnavailable
    <3> QED
      BY <1>2, <3>1 DEF CanTransition, Statuses, Transitions
  <2>3. Advances(issue, next) /\ next.status = "REPAIR_FAILED"
    BY <1>2, <2>2, RecordRepairFailureAdvances DEF FailureCodes
  <2>4. RowStep
    BY <1>2, <2>1, <2>3, RowStored DEF RowFits
  <2>5. Worked
    BY <1>2, <2>1, <2>3, <2>4 DEF Worked, Store
  <2> QED
    BY <1>2, <1>3, <1>5, <2>5 DEF AgentUnavailable, WorkerStep, OperationFrame, history, TypeOK
<1>6. CASE pending = "RECOVER_FINALIZATION"
  BY <1>1, <1>6, RecoveryWithoutContext DEF AgentUnavailable
<1> QED
  BY <1>4, <1>5, <1>6 DEF AgentUnavailable

(* Every step of the worker is a step of an operation. *)
LEMMA WorkerNextStep ==
  ASSUME IInv, WorkerNext
  PROVE  WorkerStep
BY AssessStep, SessionCreatedStep, SessionNotCreatedStep, RepairStep, RepairObservedStep,
   RepairNotObservedStep, CaptureEvidenceStep, IntakePreparedStep, IntakeFailedStep,
   TurnCorrectedStep, TurnInterruptedStep, AssessmentReturnedStep, RepairReturnedStep,
   EvidenceReturnedStep, RecoveryReturnedStep, CapabilityRequiredStep, TurnFailedStep,
   HostCaptureAbortedStep, HostCaptureFailedStep, RepairInvalidStep,
   BusinessDecisionRequiredStep, ImplementationReadyStep, DeliveryImportedStep,
   DeliveryNotImportedStep, IntakeRemovedStep, IntakeNotRemovedStep, InspectEvidenceStep,
   EvidenceReviewableStep, EvidenceNotReviewableStep, RecoverFinalizationStep,
   AgentUnavailableStep
DEF WorkerNext, FailureCodes

-----------------------------------------------------------------------------
(* WorkspaceCoordinator                                                    *)

(* prepare, up to its first await *)
LEMMA PrepareStep == ASSUME IInv, Prepare PROVE WorkerStep
<1>1. Dispatched("PREPARE") /\ "PREPARE" \in Operations /\ binding' \in Bindings
  BY DEF Prepare, Operations, Bindings
<1> DEFINE o == [NoOp EXCEPT !.pc = "acquiring", !.kind = "PREPARE", !.snap = issue]
<1>2. o.pc = "acquiring" /\ o.kind = "PREPARE" /\ "acquiring" \in Phases \ Turning
  BY DEF NoOp, Phases, Turning
<1>3. ClaimedStatus(o) = Statuses \ Halted
  BY <1>2 DEF ClaimedStatus
<1>4. issue.status \in Statuses \ Halted
  BY <1>1, DispatchedFacts
<1> QED
  BY <1>1, <1>2, <1>3, <1>4, ClaimedAsIs DEF Prepare

(* A workspace is being acquired for an issue that was not stopped. *)
LEMMA AcquiringFacts ==
  ASSUME IInv, At("acquiring", {"PREPARE"})
  PROVE  /\ Claimed /\ Active /\ TypeOK /\ RowFits(issue, pending) /\ op.snap \in Issue
         /\ op.snap.status \in Statuses \ Halted
<1>1. Claimed /\ op.kind = "PREPARE"
  BY DEF At, Claimed
<1> QED
  BY <1>1, SnapshotFacts DEF ClaimedStatus

(* prepare, with the workspace *)
LEMMA WorkspaceAcquiredStep == ASSUME IInv, WorkspaceAcquired PROVE WorkerStep
<1>1. /\ Claimed /\ Active /\ TypeOK /\ op.snap \in Issue
      /\ op.snap.status \in Statuses \ Halted
  BY AcquiringFacts DEF WorkspaceAcquired
<1> DEFINE next == [op.snap EXCEPT !.path = TRUE, !.revision = @ + 1]
<1>2. op.snap.revision + 1 \in Nat /\ op.snap.revision + 1 > op.snap.revision
  BY <1>1 DEF Issue
<1>3. Advances(op.snap, next) /\ next.status = op.snap.status
  BY <1>1, <1>2 DEF Advances, Issue
<1>4. Complete(op.snap, next, "ASSESS") /\ binding' \in Bindings
  BY <1>1 DEF WorkspaceAcquired, Complete, TypeOK, Bindings
<1>5. "ASSESS" \in Operations
  BY DEF Operations, AgentOperations, ResumeStatus
<1> HIDE DEF next
<1>6. Worked
  BY <1>1, <1>3, <1>4, <1>5, SnapshotFacts, RowCompleted DEF Halted
<1>7. OpStep /\ asleep' \in BOOLEAN
  BY <1>1, OperationLeft DEF WorkspaceAcquired
<1> QED
  BY <1>1, <1>4, <1>6, <1>7 DEF WorkspaceAcquired, WorkerStep, OperationFrame, history, TypeOK

(* prepare, without one *)
LEMMA WorkspaceNotAcquiredStep == ASSUME IInv, WorkspaceNotAcquired PROVE WorkerStep
<1>1. Active /\ TypeOK /\ RowFits(issue, pending) /\ issue \in Issue
  BY AcquiringFacts DEF WorkspaceNotAcquired, IInv, TypeOK
<1>2. Store(issue, None) \/ UNCHANGED <<issue, pending>>
  BY DEF WorkspaceNotAcquired
<1>3. issue' = issue /\ RowStep
  BY <1>1, <1>2, RowKept, RowStored DEF Store, RowFits, Halted, Worked
<1>4. OpStep /\ asleep' \in BOOLEAN /\ binding' \in Bindings
  BY <1>1, OperationLeft DEF WorkspaceNotAcquired, Bindings, TypeOK
<1> QED
  BY <1>1, <1>3, <1>4
  DEF WorkspaceNotAcquired, Worked, WorkerStep, OperationFrame, history, TypeOK

(* finalize, up to its first await *)
LEMMA FinalizeStep == ASSUME IInv, Finalize PROVE WorkerStep
<1>1. Dispatched("FINALIZE") /\ "FINALIZE" \in Operations
  BY DEF Finalize, Operations
<1> DEFINE o == [NoOp EXCEPT !.pc = "publishing", !.kind = "FINALIZE", !.snap = issue]
<1>2. o.pc = "publishing" /\ o.kind = "FINALIZE" /\ "publishing" \in Phases \ Turning
  BY DEF NoOp, Phases, Turning
<1>3. ClaimedStatus(o) = {"FINALIZING"}
  BY <1>2 DEF ClaimedStatus
<1>4. CASE issue.status = "FINALIZING"
  BY <1>1, <1>2, <1>3, <1>4, ClaimedAsIs DEF Finalize, IInv, TypeOK
<1>5. CASE issue.status # "FINALIZING"
  BY <1>1, <1>5, RefusedStep DEF Finalize
<1> QED
  BY <1>4, <1>5

(* A delivery is being published from the snapshot of a FINALIZING issue. *)
LEMMA PublishingFacts ==
  ASSUME IInv, op.pc \in {"publishing", "releasing"}
  PROVE  /\ Claimed /\ Active /\ TypeOK /\ SnapshotCurrent /\ RowFits(issue, pending)
         /\ op.kind = "FINALIZE" /\ op.snap \in Issue
         /\ op.snap.status = "FINALIZING" /\ op.snap.status \notin Halted
<1>1. Claimed /\ op.kind = "FINALIZE"
  BY DEF IInv, OperationFits, Claimed
<1> QED
  BY <1>1, SnapshotFacts DEF ClaimedStatus, Turning, Halted, Terminal

(* finalize, on a base that has moved *)
LEMMA BaseStaleStep == ASSUME IInv, BaseStale PROVE WorkerStep
<1> DEFINE next == RecordBaseIntegrationStale(op.snap)
<1>1. /\ Claimed /\ op.snap \in Issue /\ op.snap.status = "FINALIZING"
      /\ op.snap.status \notin Halted
  BY PublishingFacts DEF BaseStale, At
<1>2. Advances(op.snap, next) /\ next.status = "REPAIRING"
  BY <1>1, RecordBaseIntegrationStaleAdvances
<1>3. next.status \in Statuses \ Halted /\ "REPAIR" \in Operations
  BY <1>2 DEF Halted, Terminal, Statuses, Transitions, Operations, AgentOperations, ResumeStatus
<1>4. Complete(op.snap, next, "REPAIR")
  BY DEF BaseStale
<1> HIDE DEF next
<1> QED
  BY <1>1, <1>2, <1>3, <1>4, Completes DEF BaseStale

(* finalize, after the publication *)
LEMMA PublishedStep == ASSUME IInv, Published PROVE WorkerStep
<1>1. /\ Claimed /\ Active /\ TypeOK /\ RowFits(issue, pending) /\ op.kind = "FINALIZE"
      /\ op.snap \in Issue
  BY PublishingFacts DEF Published, At
<1>2. /\ op' \in Op /\ op'.snap = op.snap /\ op'.kind = op.kind /\ op'.pc = "releasing"
      /\ asleep' \in BOOLEAN /\ published' \in Nat
  BY <1>1 DEF Published, Goto, TypeOK, Op, Phases, Issue
<1>3. OpStep
  BY <1>1, <1>2, OperationContinues DEF ClaimedStatus, Turning
<1>4. Worked
  BY <1>1, RowKept DEF Published
<1> QED
  BY <1>1, <1>2, <1>3, <1>4 DEF Published, WorkerStep, TypeOK

(* finalize, when the publication failed *)
LEMMA NotPublishedStep == ASSUME IInv, NotPublished PROVE WorkerStep
<1> DEFINE failed == Failed(op.snap, "FINALIZATION_ERRORED", "FINALIZATION_RECOVERY",
                            "PUBLISH_FAILED")
           next == PublicationFailed(op.snap)
<1>1. /\ Claimed /\ op.snap \in Issue /\ op.snap.status = "FINALIZING"
      /\ op.snap.status \notin Halted
  BY PublishingFacts DEF NotPublished
<1>2. CanTransition(op.snap, "FINALIZATION_ERRORED")
  BY <1>1 DEF CanTransition, Transitions
<1>3. Advances(op.snap, failed) /\ failed.status = "FINALIZATION_FAILED"
  BY <1>1, <1>2, FailedAdvances DEF Stages, FailureCodes, Target
<1>4. next = [failed EXCEPT !.recovery = None]
  BY DEF PublicationFailed
<1>5. Complete(op.snap, next, None)
  BY DEF NotPublished
<1> HIDE DEF failed, next
<1>6. Advances(op.snap, next) /\ next.status = "FINALIZATION_FAILED"
  BY <1>3, <1>4, Cleared DEF Advances, Issue
<1>7. next.status \in Statuses \ Halted
  BY <1>6 DEF Halted, Terminal, Statuses, Transitions
<1> QED
  BY <1>1, <1>5, <1>6, <1>7, Completes DEF NotPublished

(* finalize, after the release of the workspace *)
LEMMA ReleasedStep == ASSUME IInv, Released PROVE WorkerStep
<1> DEFINE next == CompleteDelivery(op.snap)
<1>1. /\ Claimed /\ Active /\ TypeOK /\ SnapshotCurrent /\ RowFits(issue, pending)
      /\ op.snap \in Issue /\ op.snap.status = "FINALIZING" /\ op.snap.status \notin Halted
  BY PublishingFacts DEF Released, At
<1>2. CanTransition(op.snap, "COMPLETE_DELIVERY")
  BY <1>1 DEF CanTransition, Transitions
<1>3. Advances(op.snap, next) /\ next.status = "COMPLETED"
  BY <1>1, <1>2, CompleteDeliveryAdvances
<1>4. Complete(op.snap, next, None)
  BY DEF Released
<1> HIDE DEF next
<1>5. Worked
  BY <1>1, <1>3, <1>4, RowCompleted
<1>6. OpStep /\ asleep' \in BOOLEAN /\ binding' \in Bindings
  BY <1>1, OperationLeft DEF Released, Bindings, TypeOK
<1> QED
  BY <1>1, <1>5, <1>6 DEF Released, WorkerStep, OperationFrame, history, TypeOK

(* A recovery is being judged from the snapshot of a recovering issue. *)
LEMMA JudgingFacts ==
  ASSUME IInv, op.pc \in {"validating", "binding"}, op.kind = "RECOVER_FINALIZATION"
  PROVE  /\ Claimed /\ Active /\ TypeOK /\ SnapshotCurrent /\ RowFits(issue, pending)
         /\ op.snap \in Issue /\ op.snap.status = "FINALIZATION_RECOVERY"
         /\ op.snap.status \notin Halted
<1>1. Claimed
  BY DEF Claimed
<1> QED
  BY <1>1, SnapshotFacts DEF ClaimedStatus, Halted, Terminal

(* A judgement of a recovery is recorded. *)
LEMMA JudgedStep ==
  ASSUME IInv, op.pc \in {"validating", "binding"}, op.kind = "RECOVER_FINALIZATION",
         NEW next, Advances(op.snap, next), next.status \in Statuses \ Halted,
         NEW operation \in Operations \cup {None}, Judged(next, operation)
  PROVE  WorkerStep
<1>1. Worked
  BY JudgingFacts, RowCompleted DEF Judged, Halted
<1>2. OpStep /\ asleep' \in BOOLEAN
  BY JudgingFacts, OperationLeft DEF Judged
<1> QED
  BY <1>1, <1>2, JudgingFacts DEF Judged, WorkerStep, OperationFrame, history, TypeOK

(* validateFinalizationRecovery: nothing changed *)
LEMMA RecoveryUnchangedStep == ASSUME IInv, RecoveryUnchanged PROVE WorkerStep
<1> DEFINE next == RecordRecoveryUnchanged(op.snap)
<1>1. op.pc = "validating" /\ op.kind = "RECOVER_FINALIZATION"
  BY DEF RecoveryUnchanged, At
<1>2. Advances(op.snap, next) /\ next.status = "FINALIZING"
  BY <1>1, JudgingFacts, RecordRecoveryUnchangedAdvances
<1>3. next.status \in Statuses \ Halted /\ "FINALIZE" \in Operations
  BY <1>2 DEF Halted, Terminal, Statuses, Transitions, Operations
<1>4. Judged(next, "FINALIZE")
  BY DEF RecoveryUnchanged
<1> HIDE DEF next
<1> QED
  BY <1>1, <1>2, <1>3, <1>4, JudgedStep

(* An unsafe recovery is recorded. *)
LEMMA UnsafeStep ==
  ASSUME IInv, op.pc \in {"validating", "binding"}, op.kind = "RECOVER_FINALIZATION",
         Judged(RecordRecoveryUnsafe(op.snap), None)
  PROVE  WorkerStep
<1> DEFINE next == RecordRecoveryUnsafe(op.snap)
<1>1. Advances(op.snap, next) /\ next.status = "FINALIZATION_FAILED"
  BY JudgingFacts, RecordRecoveryUnsafeAdvances
<1>2. next.status \in Statuses \ Halted
  BY <1>1 DEF Halted, Terminal, Statuses, Transitions
<1> HIDE DEF next
<1> QED
  BY <1>1, <1>2, JudgedStep DEF next

(* validateFinalizationRecovery: the recovery is unsafe *)
LEMMA RecoveryUnsafeStep == ASSUME IInv, RecoveryUnsafe PROVE WorkerStep
BY UnsafeStep DEF RecoveryUnsafe, At

(* validateFinalizationRecovery: the changed delivery could not be bound *)
LEMMA RecoveryDeliveryNotBoundStep == ASSUME IInv, RecoveryDeliveryNotBound PROVE WorkerStep
BY UnsafeStep DEF RecoveryDeliveryNotBound, At

(* validateFinalizationRecovery: the delivery changed *)
LEMMA RecoveryChangedStep == ASSUME IInv, RecoveryChanged PROVE WorkerStep
<1>1. Claimed /\ op.pc = "validating" /\ op.kind = "RECOVER_FINALIZATION"
  BY DEF RecoveryChanged, At, Claimed
<1>2. /\ op' \in Op /\ op'.snap = op.snap /\ op'.kind = op.kind /\ op'.pc = "binding"
      /\ asleep' \in BOOLEAN
  BY DEF RecoveryChanged, Goto, IInv, TypeOK, Op, Phases
<1> QED
  BY <1>1, <1>2, PhaseStep DEF RecoveryChanged, ClaimedStatus, Turning

(* validateFinalizationRecovery: the changed delivery is bound *)
LEMMA RecoveryDeliveryBoundStep == ASSUME IInv, RecoveryDeliveryBound PROVE WorkerStep
<1> DEFINE next == RecordRecoveryChanged(op.snap)
<1>1. op.pc = "binding" /\ op.kind = "RECOVER_FINALIZATION"
  BY DEF RecoveryDeliveryBound, At
<1>2. Advances(op.snap, next) /\ next.status = "EVIDENCE_CAPTURE"
  BY <1>1, JudgingFacts, RecordRecoveryChangedAdvances
<1>3. next.status \in Statuses \ Halted /\ "CAPTURE_EVIDENCE" \in Operations
  BY <1>2 DEF Halted, Terminal, Statuses, Transitions, Operations, AgentOperations, ResumeStatus
<1>4. Judged(next, "CAPTURE_EVIDENCE")
  BY DEF RecoveryDeliveryBound
<1> HIDE DEF next
<1> QED
  BY <1>1, <1>2, <1>3, <1>4, JudgedStep

(* So is every step of the workspace coordinator. *)
LEMMA WorkspaceNextStep ==
  ASSUME IInv, WorkspaceNext
  PROVE  WorkerStep
BY PrepareStep, WorkspaceAcquiredStep, WorkspaceNotAcquiredStep, FinalizeStep,
   BaseStaleStep, PublishedStep, NotPublishedStep, ReleasedStep, RecoveryUnchangedStep,
   RecoveryUnsafeStep, RecoveryChangedStep, RecoveryDeliveryBoundStep,
   RecoveryDeliveryNotBoundStep
DEF WorkspaceNext

(* Both keep the invariant, and the human's word. *)
LEMMA OperationNextPreserves ==
  ASSUME IInv, WorkerNext \/ WorkspaceNext
  PROVE  IInv' /\ Respectful
BY WorkerNextStep, WorkspaceNextStep, WorkerPreserves

-----------------------------------------------------------------------------
(* RuntimeCommands.                                                        *)

(* A command leaves the operation that runs its claim, and makes no pause  *)
(* ready while it runs.                                                    *)
CommandStep ==
  /\ RowStep
  /\ op' \in Op /\ op'.pc = op.pc /\ op'.kind = op.kind /\ op'.snap = op.snap
  /\ mode = "up" \/ op' = op
  /\ \/ ~Active
     \/ ~(issue'.status = "PAUSED" /\ issue'.pause.ready)
     \/ issue'.status = issue.status /\ issue'.pause = issue.pause
  /\ reviewed' \in Nat /\ pauser' \in Pauser /\ asleep' \in BOOLEAN
  /\ accepted' \in Nat /\ published' \in Nat
  /\ UNCHANGED <<binding, mode>>

(* Whatever such a step is, it preserves the invariant. *)
LEMMA CommandPreserves ==
  ASSUME IInv, CommandStep
  PROVE  IInv'
<1>1. OpStep /\ (Active' <=> Active)
  BY DEF IInv, CommandStep, OpStep, OperationFits, Claimed, ClaimedStatus, Active
<1>2. ReadyMeansQuiet'
  BY <1>1 DEF IInv, CommandStep, ReadyMeansQuiet
<1>3. DownIsIdle'
  BY DEF IInv, CommandStep, DownIsIdle
<1>4. binding' \in Bindings /\ mode' \in Modes
  BY DEF IInv, TypeOK, CommandStep
<1> QED
  BY <1>1, <1>2, <1>3, <1>4, Preserved DEF CommandStep

(* An aborted signal changes neither the phase nor the claim of an operation. *)
LEMMA InterruptedKeeps ==
  ASSUME NEW o \in Op, NEW reason \in Interruptions
  PROVE  /\ Interrupted(o, reason) \in Op
         /\ Interrupted(o, reason).pc = o.pc
         /\ Interrupted(o, reason).kind = o.kind
         /\ Interrupted(o, reason).snap = o.snap
BY DEF Interrupted, Op

(* A command that queues an operation for an issue that is not stopped. *)
LEMMA QueueStep ==
  ASSUME IInv, Commanded, issue.status \notin Halted,
         NEW next, Advances(issue, next), next.status \in Statuses \ Halted,
         NEW operation \in Operations, Queue(next, operation)
  PROVE  IInv' /\ Respectful
<1>1. RowFits(next, operation) /\ Store(next, operation)
  BY DEF RowFits, Halted, Queue
<1>2. RowStep
  BY <1>1, RowStored DEF IInv
<1>3. issue' = next /\ next.status # "PAUSED"
  BY <1>1 DEF Store, Halted
<1>4. CommandStep
  BY <1>2, <1>3 DEF CommandStep, Queue, Commanded, Wake, IInv, TypeOK, history
<1>5. Respectful
  BY DEF Respectful, Halted
<1> QED
  BY <1>4, <1>5, CommandPreserves

(* retryIssue *)
LEMMA RetryStep == ASSUME IInv, Retry PROVE IInv' /\ Respectful
<1>1. issue \in Issue /\ Commanded
  BY DEF IInv, TypeOK, Retry
<1>2. {"ASSESS", "REPAIR", "CAPTURE_EVIDENCE"} \subseteq Operations
  BY DEF Operations, AgentOperations, ResumeStatus
<1>3. {"ASSESSING", "REPAIRING", "EVIDENCE_CAPTURE"} \subseteq Statuses \ Halted
  BY DEF Statuses, Transitions, Halted, Terminal
<1>4. CASE issue.status = "ASSESSMENT_FAILED" /\ Queue(RetryAssessment(issue), "ASSESS")
  <2>1. CanTransition(issue, "RETRY_ASSESSMENT")
    BY <1>4 DEF CanTransition, Transitions
  <2>2. Advances(issue, RetryAssessment(issue)) /\ RetryAssessment(issue).status = "ASSESSING"
    BY <1>1, <2>1, RetryAssessmentAdvances
  <2> QED
    BY <1>1, <1>2, <1>3, <1>4, <2>2, QueueStep DEF Halted, Terminal
<1>5. CASE issue.status = "REPAIR_FAILED" /\ Queue(RetryRepair(issue), "REPAIR")
  <2>1. CanTransition(issue, "RETRY_REPAIR")
    BY <1>5 DEF CanTransition, Transitions
  <2>2. Advances(issue, RetryRepair(issue)) /\ RetryRepair(issue).status = "REPAIRING"
    BY <1>1, <2>1, RetryRepairAdvances
  <2> QED
    BY <1>1, <1>2, <1>3, <1>5, <2>2, QueueStep DEF Halted, Terminal
<1>6. CASE issue.status = "EVIDENCE_FAILED" /\ Queue(RetryEvidence(issue), "CAPTURE_EVIDENCE")
  <2>1. Advances(issue, RetryEvidence(issue)) /\ RetryEvidence(issue).status = "EVIDENCE_CAPTURE"
    BY <1>1, <1>6, RetryEvidenceAdvances
  <2> QED
    BY <1>1, <1>2, <1>3, <1>6, <2>1, QueueStep DEF Halted, Terminal
<1> QED
  BY <1>4, <1>5, <1>6 DEF Retry

(* approveDelivery of an issue whose finalization failed *)
LEMMA RepairFinalizationStep == ASSUME IInv, RepairFinalization PROVE IInv' /\ Respectful
<1>1. issue \in Issue /\ Commanded /\ issue.status = "FINALIZATION_FAILED"
      /\ Queue(RetryFinalizationAsRepair(issue), "REPAIR")
  BY DEF IInv, TypeOK, RepairFinalization, CanRepairFinalization
<1>2. /\ Advances(issue, RetryFinalizationAsRepair(issue))
      /\ RetryFinalizationAsRepair(issue).status = "REPAIRING"
  BY <1>1, RetryFinalizationAsRepairAdvances
<1>3. "REPAIR" \in Operations /\ "REPAIRING" \in Statuses \ Halted
  BY DEF Operations, AgentOperations, ResumeStatus, Statuses, Transitions, Halted, Terminal
<1> QED
  BY <1>1, <1>2, <1>3, QueueStep DEF Halted, Terminal

(* rebuildAgentSession *)
LEMMA RebuildAgentSessionStep == ASSUME IInv, RebuildAgentSession PROVE IInv' /\ Respectful
<1> DEFINE operation == IF issue.status = "ASSESSMENT_FAILED" THEN "ASSESS" ELSE "REPAIR"
<1>1. issue \in Issue /\ Commanded /\ CanReplaceAgentSession(issue)
      /\ Queue(ReplaceAgentSession(issue), operation)
  BY DEF IInv, TypeOK, RebuildAgentSession, CanRebuild
<1>2. issue.status \in {"ASSESSMENT_FAILED", "REPAIR_FAILED"}
  BY <1>1 DEF CanReplaceAgentSession
<1>3. /\ Advances(issue, ReplaceAgentSession(issue))
      /\ ReplaceAgentSession(issue).status \in {"ASSESSING", "REPAIRING"}
  BY <1>1, ReplaceAgentSessionAdvances
<1>4. operation \in Operations /\ {"ASSESSING", "REPAIRING"} \subseteq Statuses \ Halted
  BY DEF Operations, AgentOperations, ResumeStatus, Statuses, Transitions, Halted, Terminal
<1> HIDE DEF operation
<1> QED
  BY <1>1, <1>2, <1>3, <1>4, QueueStep DEF Halted, Terminal

(* grantIssueCapabilities *)
LEMMA GrantCapabilitiesStep == ASSUME IInv, GrantCapabilities PROVE IInv' /\ Respectful
<1>1. issue \in Issue /\ Commanded /\ issue.status = "PERMISSION_REQUIRED"
      /\ issue.request.operation # None
      /\ Queue(GrantCapabilityRequest(issue), issue.request.operation)
  BY DEF IInv, TypeOK, GrantCapabilities, CanGrant
<1>2. /\ Advances(issue, GrantCapabilityRequest(issue))
      /\ issue.request.operation \in AgentOperations
      /\ GrantCapabilityRequest(issue).status = ResumeStatus[issue.request.operation]
  BY <1>1, GrantCapabilityRequestAdvances
<1>3. ResumeStatus[issue.request.operation] \in Statuses \ Halted
  BY <1>2, ResumeTargets DEF Halted, Terminal
<1>4. issue.request.operation \in Operations
  BY <1>2, NoneIsNoOperation
<1> QED
  BY <1>1, <1>2, <1>3, <1>4, QueueStep DEF Halted, Terminal

(* submitReview *)
LEMMA SubmitReviewedStep ==
  ASSUME IInv, NEW choice \in ReviewChoices(issue), SubmitReviewed(choice)
  PROVE  IInv' /\ Respectful
<1> DEFINE next == SubmitReview(issue, choice)
<1>1. issue \in Issue /\ mode = "up" /\ issue.status = "REVIEW_REQUIRED"
      /\ Store(next, choice.operation)
  BY DEF IInv, TypeOK, SubmitReviewed, CanReview, Commanded
<1>2. Advances(issue, next) /\ next.status = choice.resume
  BY <1>1, SubmitReviewAdvances
<1>3. /\ choice.operation \in Operations \cup {None}
      /\ choice.resume \in {"ASSESSING", "REPAIRING", "FINALIZING", "CLOSED"}
      /\ choice.resume = "CLOSED" => choice.operation = None
  BY <1>1, ReviewChoicesFit
<1>4. RowFits(next, choice.operation) /\ next.status # "PAUSED"
  BY <1>2, <1>3 DEF RowFits, Halted, Terminal
<1>5. next.revision \in Nat /\ issue.iteration \in Nat
  BY <1>1, <1>2 DEF Advances, Issue
<1>6. /\ reviewed' \in Nat /\ accepted' \in Nat /\ asleep' \in BOOLEAN
      /\ UNCHANGED <<binding, mode, op, pauser, published>>
  BY <1>5 DEF SubmitReviewed, IInv, TypeOK
<1> HIDE DEF next
<1>7. RowStep
  BY <1>1, <1>2, <1>3, <1>4, RowStored DEF IInv
<1>8. issue' = next
  BY <1>1 DEF Store
<1>9. CommandStep
  BY <1>1, <1>4, <1>6, <1>7, <1>8 DEF CommandStep, IInv, TypeOK
<1>10. Respectful
  BY <1>1 DEF Respectful, Terminal
<1> QED
  BY <1>9, <1>10, CommandPreserves

(* An input that joins the issue of its group. *)
LEMMA AppendInputStep == ASSUME IInv, AppendInput PROVE IInv' /\ Respectful
<1> DEFINE next == [issue EXCEPT !.revision = @ + 1]
<1>1. issue \in Issue /\ mode = "up" /\ issue.status \notin Terminal /\ issue' = next
  BY DEF IInv, TypeOK, AppendInput, Commanded
<1>2. issue.revision + 1 \in Nat /\ issue.revision + 1 > issue.revision
  BY <1>1 DEF Issue
<1>3. next \in Issue /\ next.revision = issue.revision + 1
      /\ next.status = issue.status /\ next.pause = issue.pause
  BY <1>1, <1>2 DEF Issue
<1> HIDE DEF next
<1>4. Advances(issue, next)
  BY <1>2, <1>3 DEF Advances
<1>5. RowFits(next, pending) /\ Store(next, pending) /\ pending \in Operations \cup {None}
  BY <1>1, <1>3 DEF IInv, TypeOK, RowFits, Store, AppendInput
<1>6. RowStep
  BY <1>4, <1>5, RowStored DEF IInv
<1>7. CommandStep
  BY <1>1, <1>3, <1>6 DEF CommandStep, AppendInput, IInv, TypeOK, history
<1>8. Respectful
  BY <1>1, <1>3 DEF Respectful
<1> QED
  BY <1>7, <1>8, CommandPreserves

(* cancelIssue: the operation is over as far as the row is concerned. *)
LEMMA CancelIssueStep == ASSUME IInv, CancelIssue PROVE IInv' /\ Respectful
<1> DEFINE next == Cancel(issue)
<1>1. issue \in Issue /\ op \in Op /\ mode = "up" /\ CanTransition(issue, "CANCEL")
      /\ Store(next, None)
  BY DEF IInv, TypeOK, CancelIssue, Commanded
<1>2. Advances(issue, next) /\ next.status = "CANCELED"
  BY <1>1, CancelAdvances
<1>3. issue.status \notin Terminal
  BY <1>1 DEF CanTransition, Transitions, Terminal
<1>4. op' \in Op /\ op'.pc = op.pc /\ op'.kind = op.kind /\ op'.snap = op.snap
  <2>1. "USER_CANCELED" \in Interruptions
    BY DEF Interruptions
  <2> QED
    BY <1>1, <2>1, InterruptedKeeps DEF CancelIssue
<1> HIDE DEF next
<1>5. RowFits(next, None) /\ issue' = next /\ None \in Operations \cup {None}
  BY <1>1, <1>2 DEF RowFits, Store
<1>6. RowStep
  BY <1>1, <1>2, <1>5, RowStored DEF IInv
<1>7. CommandStep
  BY <1>1, <1>2, <1>4, <1>5, <1>6 DEF CommandStep, CancelIssue, IInv, TypeOK, history
<1>8. Respectful
  BY <1>2, <1>3, <1>5 DEF Respectful
<1> QED
  BY <1>7, <1>8, CommandPreserves

(* pauseIssue up to its first await: the pause is not ready yet. *)
LEMMA PauseIssueStep == ASSUME IInv, PauseIssue PROVE IInv' /\ Respectful
<1> DEFINE next == Pause(issue)
           aborted == IF issue.session THEN Interrupted(op, "USER_PAUSED") ELSE op
<1>1. issue \in Issue /\ op \in Op /\ mode = "up" /\ CanTransition(issue, "PAUSE")
      /\ Store(next, None)
  BY DEF IInv, TypeOK, PauseIssue, Commanded
<1>2. /\ Advances(issue, next) /\ next.status = "PAUSED"
      /\ next.pause.operation \in AgentOperations /\ ~next.pause.ready
  BY <1>1, PauseAdvances
<1>3. issue.status \notin Halted
  BY <1>1 DEF CanTransition, Transitions, Halted, Terminal
<1>4. op' \in Op /\ op'.pc = op.pc /\ op'.kind = op.kind /\ op'.snap = op.snap
  <2>1. "USER_PAUSED" \in Interruptions
    BY DEF Interruptions
  <2>2. /\ aborted \in Op /\ aborted.pc = op.pc /\ aborted.kind = op.kind
        /\ aborted.snap = op.snap
    BY <1>1, <2>1, InterruptedKeeps
  <2>3. op' = [aborted EXCEPT !.aborted = TRUE] \/ op' = op
    BY DEF PauseIssue
  <2> HIDE DEF aborted
  <2> QED
    BY <1>1, <2>2, <2>3 DEF Op
<1> HIDE DEF next
<1>5. RowFits(next, None) /\ issue' = next /\ None \in Operations \cup {None}
  BY <1>1, <1>2 DEF RowFits, Store
<1>6. RowStep
  BY <1>1, <1>2, <1>5, RowStored DEF IInv
<1>7. pauser' \in Pauser
  <2>1. issue.revision + 1 \in Nat /\ Active \in BOOLEAN
    BY <1>1 DEF Issue, Active
  <2> QED
    BY <2>1 DEF PauseIssue, Pauser
<1>8. CommandStep
  BY <1>1, <1>2, <1>4, <1>5, <1>6, <1>7
  DEF CommandStep, PauseIssue, IInv, TypeOK, history
<1>9. Respectful
  BY <1>3 DEF Respectful, Halted
<1> QED
  BY <1>8, <1>9, CommandPreserves

(* resumeIssue: of a ready pause, to the status of its operation. *)
LEMMA ResumeIssueStep == ASSUME IInv, ResumeIssue PROVE IInv' /\ Respectful
<1> DEFINE next == Resume(issue)
           operation == issue.pause.operation
<1>1. /\ issue \in Issue /\ mode = "up" /\ issue.status = "PAUSED" /\ issue.pause.ready
      /\ ~Pausing /\ Store(next, operation)
  BY DEF IInv, TypeOK, ResumeIssue, Commanded, CanResume, Queue
<1>2. operation \in AgentOperations
  BY <1>1 DEF IInv, RowFits
<1>3. Advances(issue, next) /\ next.status = ResumeStatus[operation]
  BY <1>1, <1>2, ResumeAdvances
<1>4. next.status \notin Halted /\ operation \in Operations
  BY <1>2, <1>3, ResumeTargets, NoneIsNoOperation DEF Halted, Terminal
<1> HIDE DEF next, operation
<1>5. RowFits(next, operation) /\ issue' = next /\ pending' = operation
      /\ next.status # "PAUSED"
  BY <1>1, <1>4 DEF RowFits, Halted, Store
<1>6. RowStep
  BY <1>1, <1>3, <1>4, <1>5, RowStored DEF IInv
<1>7. CommandStep
  BY <1>1, <1>5, <1>6 DEF CommandStep, ResumeIssue, Queue, Wake, IInv, TypeOK, history
<1>8. Respectful
  BY <1>1, <1>3, <1>5 DEF Respectful, Terminal, operation
<1> QED
  BY <1>7, <1>8, CommandPreserves

(* Every command preserves the invariant and leaves the human the word. *)
LEMMA CommandNextPreserves ==
  ASSUME IInv, CommandNext
  PROVE  IInv' /\ Respectful
BY SubmitReviewedStep, RetryStep, RepairFinalizationStep, RebuildAgentSessionStep,
   GrantCapabilitiesStep, AppendInputStep, CancelIssueStep, PauseIssueStep, ResumeIssueStep
DEF CommandNext

-----------------------------------------------------------------------------
(* The pauseIssue call in progress.                                        *)

(* The call goes on while the row stays. *)
LEMMA PauseAwaited ==
  ASSUME IInv, pauser' \in Pauser, UNCHANGED <<issue, pending>>, PauserFrame
  PROVE  IInv' /\ Respectful
<1>1. RowStep
  BY RowKept DEF IInv, Worked
<1>2. CommandStep
  BY <1>1 DEF CommandStep, PauserFrame, IInv, TypeOK, history
<1>3. Respectful
  BY DEF Respectful
<1> QED
  BY <1>2, <1>3, CommandPreserves

(* A pause becomes ready only when the operation is over. *)
LEMMA PauseSettledStep == ASSUME IInv, PauseSettled PROVE IInv' /\ Respectful
<1> DEFINE next == CompleteIssuePause(issue)
<1>1. issue \in Issue /\ ~Active /\ pauser' \in Pauser
  BY DEF IInv, TypeOK, PauseSettled, NoPauser, Pauser
<1>2. CASE MarksReady
  <2>1. issue.status = "PAUSED" /\ Store(next, None) /\ pending = None
    BY <1>2 DEF MarksReady, PauseSettled, IInv, RowFits, Halted
  <2>2. /\ Advances(issue, next) /\ next.status = "PAUSED"
        /\ next.pause.operation = issue.pause.operation
    BY <1>1, <2>1, CompleteIssuePauseAdvances
  <2> HIDE DEF next
  <2>3. RowFits(next, None) /\ None \in Operations \cup {None} /\ issue' = next
    BY <2>1, <2>2 DEF IInv, RowFits, Halted, Store
  <2>4. RowStep
    BY <2>1, <2>2, <2>3, RowStored DEF IInv
  <2>5. CommandStep
    BY <1>1, <2>4 DEF CommandStep, PauseSettled, PauserFrame, IInv, TypeOK, history
  <2>6. Respectful
    BY <2>1, <2>2, <2>3 DEF Respectful, Terminal
  <2> QED
    BY <2>5, <2>6, CommandPreserves
<1>3. CASE ~MarksReady
  BY <1>1, <1>3, PauseAwaited DEF PauseSettled
<1> QED
  BY <1>2, <1>3

(* So does every step of a pauseIssue call. *)
LEMMA PauserNextPreserves ==
  ASSUME IInv, PauserNext
  PROVE  IInv' /\ Respectful
<1>1. pauser \in Pauser
  BY DEF IInv, TypeOK
<1>2. CASE PauseCanceled
  BY <1>1, <1>2, PauseAwaited DEF PauseCanceled, Pauser
<1>3. CASE PauseNotCanceled
  BY <1>1, <1>3, PauseAwaited DEF PauseNotCanceled, Pauser
<1>4. CASE PauseSettled
  BY <1>4, PauseSettledStep
<1> QED
  BY <1>2, <1>3, <1>4 DEF PauserNext

-----------------------------------------------------------------------------
(* RuntimeLifecycle and the workspaces found at start.                     *)

(* A step after which nothing runs. *)
LEMMA IdleStep ==
  ASSUME IInv, RowStep, op' = NoOp, binding' \in Bindings, mode' \in Modes,
         pauser' \in Pauser, asleep' \in BOOLEAN, UNCHANGED <<reviewed, history>>
  PROVE  IInv'
<1>1. NoOp \in Op /\ NoOp.pc = "idle"
  BY NoOpType DEF NoOp
<1>2. OpStep
  BY <1>1 DEF OpStep, OperationFits, Claimed, Turning
<1>3. DownIsIdle' /\ ReadyMeansQuiet'
  BY <1>1 DEF DownIsIdle, ReadyMeansQuiet, Active
<1> QED
  BY <1>2, <1>3, Preserved DEF IInv, TypeOK, history

(* A step of stop() touches no row. *)
LEMMA StopStep ==
  ASSUME IInv, op' \in Op, op'.pc = op.pc, op'.kind = op.kind, op'.snap = op.snap,
         mode' \in {"stopping", "draining"}, UNCHANGED <<durable, pauser, asleep, history>>
  PROVE  IInv' /\ Respectful
<1>1. RowStep
  BY RowKept DEF IInv, Worked, durable
<1>2. OpStep /\ (Active' <=> Active)
  BY DEF IInv, OpStep, OperationFits, Claimed, ClaimedStatus, Active, durable
<1>3. ReadyMeansQuiet' /\ DownIsIdle' /\ mode' \in Modes
  BY <1>2 DEF IInv, ReadyMeansQuiet, DownIsIdle, Modes, durable
<1>4. IInv'
  BY <1>1, <1>2, <1>3, Preserved DEF IInv, TypeOK, durable, history
<1>5. Respectful
  BY DEF Respectful, durable
<1> QED
  BY <1>4, <1>5

(* recoveryOperation queues nothing for a stopped issue. *)
LEMMA RecoveryOperationFits ==
  ASSUME IInv, issue.status \notin Terminal,
         NEW i \in Issue, i.status = issue.status, i.pause = issue.pause
  PROVE  /\ RecoveryOperation(i) \in Operations \cup {None}
         /\ RowFits(i, RecoveryOperation(i))
<1>1. i.status = "PAUSED" => pending = None /\ issue.pause.operation \in AgentOperations
  BY DEF IInv, RowFits, Halted
<1>2. RecoveryOperation(i) \in Operations \cup {None}
  BY DEF RecoveryOperation, Operations, AgentOperations, ResumeStatus
<1>3. i.status = "PAUSED" => RecoveryOperation(i) = None
  BY <1>1 DEF RecoveryOperation, None
<1> QED
  BY <1>1, <1>2, <1>3 DEF RowFits, Halted

(* reconcileWorkspaceIssues *)
LEMMA RecoverWorkspacesStep == ASSUME IInv, RecoverWorkspaces PROVE IInv' /\ Respectful
<1> DEFINE pathed == [issue EXCEPT !.path = TRUE, !.revision = @ + 1]
           restored == IF issue.path THEN issue ELSE pathed
<1>1. /\ issue \in Issue /\ TypeOK /\ RowFits(issue, pending) /\ op' = NoOp
      /\ mode' \in Modes /\ pauser' \in Pauser /\ asleep' \in BOOLEAN
      /\ UNCHANGED <<reviewed, history>>
  BY DEF IInv, TypeOK, DownIsIdle, RecoverWorkspaces, Modes
<1>2. RowStep /\ issue'.status = issue.status /\ binding' \in Bindings
      /\ (issue.status \in Terminal => issue' = issue)
  <2>1. CASE issue.status \in Terminal
    BY <1>1, <2>1, RowKept DEF RecoverWorkspaces, Worked, TypeOK
  <2>2. CASE issue.status \notin Terminal /\ NeverPrepared
    <3>1. Store(issue, "PREPARE") /\ UNCHANGED binding
      BY <2>2 DEF RecoverWorkspaces
    <3>2. "PREPARE" \in Operations /\ RowFits(issue, "PREPARE")
      BY <2>2 DEF Operations, RowFits, NeverPrepared, Halted, Terminal
    <3> QED
      BY <1>1, <2>2, <3>1, <3>2, RowStored DEF Store, TypeOK
  <2>3. CASE issue.status \notin Terminal /\ FailedRecovery
    <3>1. None \in Operations \cup {None} /\ RowFits(issue, None)
      BY <1>1 DEF RowFits
    <3> QED
      BY <1>1, <2>3, <3>1, RowStored DEF FailedRecovery, Store, TypeOK
  <2>4. CASE /\ issue.status \notin Terminal
             /\ Store(issue, RecoveryOperation(issue)) /\ UNCHANGED binding
    BY <1>1, <2>4, RecoveryOperationFits, RowStored DEF Store, TypeOK
  <2>5. CASE issue.status \notin Terminal /\ RestoredBinding
    <3>1. issue.revision + 1 \in Nat /\ issue.revision + 1 > issue.revision
      BY <1>1 DEF Issue
    <3>2. /\ pathed \in Issue /\ pathed.status = issue.status /\ pathed.pause = issue.pause
          /\ pathed.revision > issue.revision
      BY <1>1, <3>1 DEF Issue
    <3>3. Store(restored, RecoveryOperation(restored)) /\ binding' = "READY"
      BY <2>5 DEF RestoredBinding
    <3> HIDE DEF pathed
    <3>4. /\ restored \in Issue /\ restored.status = issue.status
          /\ restored.pause = issue.pause
          /\ Advances(issue, restored) \/ restored = issue
      BY <1>1, <3>2 DEF Advances
    <3> HIDE DEF restored
    <3>5. RowStep
      BY <1>1, <2>5, <3>3, <3>4, RecoveryOperationFits, RowStored
    <3> QED
      BY <2>5, <3>3, <3>4, <3>5 DEF Store, Bindings
  <2> QED
    BY <2>1, <2>2, <2>3, <2>4, <2>5 DEF RecoverWorkspaces
<1>3. IInv'
  BY <1>1, <1>2, IdleStep
<1>4. Respectful
  BY <1>2 DEF Respectful
<1> QED
  BY <1>3, <1>4

(* migrateLegacyFailure *)
LEMMA MigratedFailureAdvances ==
  ASSUME NEW i \in Issue
  PROVE  /\ Advances(i, MigratedFailure(i))
         /\ MigratedFailure(i).status = "EVIDENCE_FAILED"
<1> DEFINE draft == IF i.draft = 0 THEN i.delivery ELSE i.draft
           failure == [i.failure EXCEPT !.stage = "EVIDENCE"]
<1>1. draft \in Nat /\ i.revision + 1 \in Nat /\ i.revision + 1 > i.revision
  BY DEF Issue
<1>2. i.failure \in Failure
  BY DEF Issue
<1>3. failure \in Failure
  BY <1>2 DEF Failure, Stages
<1>4. "EVIDENCE_FAILED" \in Statuses
  BY DEF Statuses, Transitions
<1>5. MigratedFailure(i) = [i EXCEPT !.status = "EVIDENCE_FAILED", !.draft = draft,
                                     !.failure = failure, !.revision = i.revision + 1]
  BY DEF MigratedFailure
<1> HIDE DEF draft, failure
<1> QED
  BY <1>1, <1>3, <1>4, <1>5 DEF Advances, Issue

(* interruptedOperation takes up what was under way, and nothing else. *)
LEMMA InterruptedOperationFits ==
  ASSUME NEW i \in Issue, InterruptedOperation(i) # None
  PROVE  InterruptedOperation(i) \in Operations /\ i.status \notin Halted
BY DEF InterruptedOperation, Operations, AgentOperations, ResumeStatus, Halted, Terminal, None

(* reconcileInterruptedIssues *)
LEMMA ReconcileInterruptedStep == ASSUME IInv, ReconcileInterrupted PROVE IInv' /\ Respectful
<1> DEFINE counted == [issue EXCEPT !.revision = @ + 1]
<1>1. /\ issue \in Issue /\ TypeOK /\ RowFits(issue, pending) /\ op' = NoOp
      /\ mode' \in Modes /\ Reconciled /\ UNCHANGED <<reviewed, binding, pauser, asleep, history>>
  BY DEF IInv, TypeOK, DownIsIdle, ReconcileInterrupted, Modes
<1>2. RowStep /\ (issue.status \in Halted => issue' = issue)
  <2>1. CASE LegacyFailure(issue)
    <3>1. Store(MigratedFailure(issue), None) /\ issue.status \notin Halted
      BY <1>1, <2>1 DEF Reconciled, LegacyFailure, Halted, Terminal
    <3>2. Advances(issue, MigratedFailure(issue)) /\ RowFits(MigratedFailure(issue), None)
      BY <1>1, MigratedFailureAdvances DEF RowFits, Halted, Terminal
    <3> QED
      BY <1>1, <3>1, <3>2, RowStored
  <2>2. CASE UNCHANGED <<issue, pending>>
    BY <1>1, <2>2, RowKept DEF Worked
  <2>3. CASE issue.status = "REPAIRING" /\ Store(issue, "REPAIR")
    <3>1. "REPAIR" \in Operations /\ RowFits(issue, "REPAIR")
      BY <2>3 DEF Operations, AgentOperations, ResumeStatus, RowFits, Halted, Terminal
    <3> QED
      BY <1>1, <2>3, <3>1, RowStored DEF Store
  <2>4. CASE InterruptedOperation(issue) # None /\ Store(counted, InterruptedOperation(issue))
    <3>1. issue.revision + 1 \in Nat /\ issue.revision + 1 > issue.revision
      BY <1>1 DEF Issue
    <3>2. Advances(issue, counted) /\ counted.status = issue.status
      BY <1>1, <3>1 DEF Advances, Issue
    <3> HIDE DEF counted
    <3>3. InterruptedOperation(issue) \in Operations /\ issue.status \notin Halted
      BY <1>1, <2>4, InterruptedOperationFits
    <3>4. RowFits(counted, InterruptedOperation(issue))
      BY <3>2, <3>3 DEF RowFits, Halted
    <3> QED
      BY <1>1, <2>4, <3>2, <3>3, <3>4, RowStored
  <2> QED
    BY <1>1, <2>1, <2>2, <2>3, <2>4 DEF Reconciled
<1>3. IInv'
  BY <1>1, <1>2, IdleStep DEF TypeOK
<1>4. Respectful
  BY <1>2 DEF Respectful, Halted
<1> QED
  BY <1>3, <1>4

(* The process ends, with or without a warning. *)
LEMMA ProcessEndsStep ==
  ASSUME IInv, ProcessEnds, UNCHANGED <<durable, history>>
  PROVE  IInv' /\ Respectful
<1>1. RowStep
  BY RowKept DEF IInv, Worked, durable
<1>2. IInv'
  BY <1>1, IdleStep
  DEF ProcessEnds, NoPauser, Pauser, Modes, IInv, TypeOK, durable
<1>3. Respectful
  BY DEF Respectful, durable
<1> QED
  BY <1>2, <1>3

(* So does every step of the process's life. *)
LEMMA StartNextPreserves ==
  ASSUME IInv, StartNext
  PROVE  IInv' /\ Respectful
<1>1. op \in Op
  BY DEF IInv, TypeOK
<1>2. CASE Stop
  BY <1>1, <1>2, StopStep DEF Stop
<1>3. CASE CancelAgents
  <2>1. "RUNTIME_STOPPING" \in Interruptions
    BY DEF Interruptions
  <2>2. op' \in Op /\ op'.pc = op.pc /\ op'.kind = op.kind /\ op'.snap = op.snap
    BY <1>1, <1>3, <2>1, InterruptedKeeps DEF CancelAgents
  <2> QED
    BY <1>3, <2>2, StopStep DEF CancelAgents
<1>4. CASE Stopped \/ Crash
  BY <1>4, ProcessEndsStep DEF Stopped, Crash
<1> QED
  BY <1>2, <1>3, <1>4, RecoverWorkspacesStep, ReconcileInterruptedStep
  DEF StartNext, LifecycleNext

-----------------------------------------------------------------------------
(* The theorems.                                                           *)

(* The rows the model starts from satisfy the invariant. *)
LEMMA InitIInv ==
  ASSUME Init
  PROVE  IInv
<1>1. op = NoOp /\ op \in Op /\ op.pc = "idle"
  BY NoOpType DEF Init, NoOp
<1>2. /\ issue \in Issue /\ issue.status \in {"RECEIVED", "FINALIZATION_RECOVERY", "REPAIRING"}
      /\ pending \in Operations \cup {None} /\ binding \in Bindings /\ mode \in Modes
      /\ accepted \in Nat
  <2>1. NewIssue \in Issue /\ NewIssue.status = "RECEIVED"
    BY NoOpType DEF NewIssue
  <2>2. [verdict |-> "BUG", duplicate |-> FALSE] \in Assessment
    BY DEF Assessment, Verdicts
  <2>3. RepairedIssue \in Issue
    BY <2>1, <2>2 DEF RepairedIssue, Issue
  <2>4. CASE CreatedRow
    BY <2>1, <2>4 DEF CreatedRow, Bindings, Modes, Operations
  <2>5. CASE RecoveringRow
    <3> DEFINE row == [RepairedIssue EXCEPT
                         !.status = "FINALIZATION_RECOVERY", !.resolution = "FIXED",
                         !.draft = 1, !.delivery = 1, !.recovery = "STARTED"]
    <3>1. "FINALIZATION_RECOVERY" \in Statuses /\ "FIXED" \in Resolutions
          /\ "STARTED" \in Recoveries
      BY DEF Statuses, Transitions, Resolutions, Recoveries
    <3>2. row \in Issue /\ row.status = "FINALIZATION_RECOVERY"
      BY <2>3, <3>1 DEF Issue
    <3>3. issue = row
      BY <2>5 DEF RecoveringRow
    <3> HIDE DEF row
    <3> QED
      BY <2>5, <3>2, <3>3
      DEF RecoveringRow, Bindings, Modes, Operations, AgentOperations, ResumeStatus
  <2>6. CASE UnboundRow
    <3>1. "REPAIRING" \in Statuses
      BY DEF Statuses, Transitions
    <3>2. issue \in Issue /\ issue.status = "REPAIRING"
      BY <2>3, <2>6, <3>1 DEF UnboundRow, Issue
    <3> QED
      BY <2>6, <3>2 DEF UnboundRow, Bindings, Modes, Operations, AgentOperations, ResumeStatus
  <2> QED
    BY <2>4, <2>5, <2>6 DEF Init
<1>3. issue.status \notin Halted
  BY <1>2 DEF Halted, Terminal
<1>4. TypeOK
  BY <1>1, <1>2 DEF Init, TypeOK, NoPauser, Pauser
<1>5. RowFits(issue, pending) /\ ReadyMeansQuiet
  BY <1>3 DEF RowFits, ReadyMeansQuiet, Halted
<1> QED
  BY <1>1, <1>4, <1>5 DEF IInv, OperationFits, SnapshotCurrent, DownIsIdle, Claimed, Turning

(* Every step, and every stutter. *)
LEMMA NextPreserves ==
  ASSUME IInv, [Next]_vars
  PROVE  IInv' /\ (Respectful \/ UNCHANGED vars)
<1>1. CASE Next
  BY <1>1, OperationNextPreserves, StartNextPreserves, CommandNextPreserves,
     PauserNextPreserves
  DEF Next, OperationNext
<1>2. CASE UNCHANGED vars
  BY <1>2 DEF vars, durable, history, IInv, TypeOK, OperationFits, ClaimedStatus, Claimed,
     SnapshotCurrent, Current, DownIsIdle, RowFits, ReadyMeansQuiet, Active
<1> QED
  BY <1>1, <1>2

(* IInv is inductive, so it holds of every reachable state. *)
THEOREM Invariance == Spec => []IInv
<1>1. Init => IInv
  BY InitIInv
<1>2. IInv /\ [Next]_vars => IInv'
  BY NextPreserves
<1> QED
  BY <1>1, <1>2, PTL DEF Spec

(* The rows, bindings and operations of the Runtime are well-typed: no      *)
(* recorder, command or reconciliation writes a row outside the schema.     *)
THEOREM TypeCorrect == Spec => []TypeOK
<1>1. IInv => TypeOK
  BY DEF IInv
<1> QED
  BY <1>1, Invariance, PTL

(* Comparing revisions is enough for complete() to know that the issue it  *)
(* overwrites is the one the operation worked from, whatever the commands, *)
(* pauses, restarts and late results in between.                           *)
THEOREM SnapshotsAreCurrent == Spec => []SnapshotCurrent
<1>1. IInv => SnapshotCurrent
  BY DEF IInv
<1> QED
  BY <1>1, Invariance, PTL

(* markPauseReady never runs while an operation of the issue does.         *)
THEOREM ReadyPausesAreQuiet == Spec => []ReadyMeansQuiet
<1>1. IInv => ReadyMeansQuiet
  BY DEF IInv
<1> QED
  BY <1>1, Invariance, PTL

(* A paused issue moves by resumeIssue and cancelIssue only, a terminal    *)
(* one not at all.                                                         *)
THEOREM HumanKeepsTheWord == Spec => HumanHasTheWord
<1>1. IInv /\ [Next]_vars => [Respectful]_vars
  BY NextPreserves
<1> QED
  BY <1>1, Invariance, PTL DEF Spec, HumanHasTheWord
=============================================================================
