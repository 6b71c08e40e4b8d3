-------------------------- MODULE IssueGateProofs --------------------------
(***************************************************************************)
(* What a human has accepted is what is published: HumanGate, for every    *)
(* value of the constants, and EvidenceOfThisIteration where no intake     *)
(* fails.  GateInv follows the acceptance and the evidence through the     *)
(* statuses that keep them: it is inductive on top of IInv, which says     *)
(* that a result that counts was computed from the row as it is.           *)
(***************************************************************************)
EXTENDS IssueRuntimeProofs

-----------------------------------------------------------------------------
(* What a row must satisfy, the histories a and p being given.             *)

(* A human has accepted the issue, and it is not published yet.            *)
Entrusted(i) ==
  \/ i.status \in {"FINALIZING", "FINALIZATION_RECOVERY"}
  \/ i.status = "PAUSED" /\ i.pause.operation = "RECOVER_FINALIZATION"
  \/ i.status = "PERMISSION_REQUIRED" /\ i.request.operation = "RECOVER_FINALIZATION"

(* Its evidence has been imported and is judged, or has been.              *)
Evidenced(i) == i.status = "EVIDENCE_CHECK" \/ i.review = "delivery" \/ Entrusted(i)

AcceptedFits(i, a, p) ==
  /\ i.review # None => i.status = "REVIEW_REQUIRED"
  /\ Evidenced(i) => i.delivery = i.iteration
  /\ Entrusted(i) \/ i.status = "COMPLETED" => a = i.iteration
  /\ i.status = "COMPLETED" => p = i.iteration

(* Evidence is being made for the implementation of the iteration.         *)
Drafted(i) ==
  \/ i.status \in {"EVIDENCE_CAPTURE", "EVIDENCE_CHECK", "EVIDENCE_FAILED"}
  \/ i.status = "PAUSED" /\ i.pause.operation = "CAPTURE_EVIDENCE"
  \/ i.status = "PERMISSION_REQUIRED" /\ i.request.operation = "CAPTURE_EVIDENCE"

(* Without the fault that makes the legacy migration apply.                *)
DraftFits(i) ==
  "intake" \notin Faults =>
    /\ Drafted(i) => i.draft = i.iteration
    /\ i.status = "REPAIR_FAILED" => i.failure.code \notin LegacyEvidenceFailureCodes

RowHolds(i, a, p) == AcceptedFits(i, a, p) /\ DraftFits(i)

-----------------------------------------------------------------------------
(* The recorders keep it.                                                  *)

(* Statuses of which nothing is demanded.                                  *)
Unbound ==
  {"RECEIVED", "ASSESSING", "ASSESSMENT_FAILED", "REPAIRING", "FINALIZATION_FAILED",
   "CLOSED", "CANCELED"}

(* An issue of which nothing is demanded holds whatever was accepted. *)
LEMMA UnboundHolds ==
  ASSUME NEW i, NEW a, NEW p, i.status \in Unbound, i.review = None
  PROVE  RowHolds(i, a, p)
BY DEF RowHolds, AcceptedFits, DraftFits, Unbound, Entrusted, Evidenced, Drafted, None

(* A later version of the same row. *)
Alike(i, j) ==
  /\ j.status = i.status /\ j.review = i.review /\ j.iteration = i.iteration
  /\ j.delivery = i.delivery /\ j.draft = i.draft /\ j.failure = i.failure
  /\ j.pause.operation = i.pause.operation /\ j.request = i.request

(* It is as good as the version before. *)
LEMMA AlikeHolds ==
  ASSUME NEW i, NEW j, NEW a, NEW p, Alike(i, j), RowHolds(i, a, p)
  PROVE  RowHolds(j, a, p)
BY DEF RowHolds, AcceptedFits, DraftFits, Entrusted, Evidenced, Drafted, Alike

(* No review is open but in REVIEW_REQUIRED. *)
LEMMA NoReview ==
  ASSUME NEW i, NEW a, NEW p, RowHolds(i, a, p), i.status # "REVIEW_REQUIRED"
  PROVE  i.review = None
BY DEF RowHolds, AcceptedFits

(* Imported evidence is that of the iteration under way. *)
LEMMA RecordDeliveryHolds ==
  ASSUME NEW i \in Issue, NEW a, NEW p, RowHolds(i, a, p), i.status = "EVIDENCE_CAPTURE"
  PROVE  RowHolds(RecordDelivery(i), a, p)
<1>1. RecordDelivery(i).status = "EVIDENCE_CHECK"
  BY RecordDeliveryAdvances
<1>2. /\ RecordDelivery(i).review = i.review /\ RecordDelivery(i).iteration = i.iteration
      /\ RecordDelivery(i).delivery = i.iteration /\ RecordDelivery(i).draft = i.draft
  BY DEF RecordDelivery, Transition, Moved, Issue
<1> QED
  BY <1>1, <1>2 DEF RowHolds, AcceptedFits, DraftFits, Entrusted, Evidenced, Drafted

(* What a terminal status forgets leaves the record of the repair. *)
LEMMA EndedFields ==
  ASSUME NEW i \in Issue
  PROVE  Ended(i).review = None /\ Ended(i).iteration = i.iteration
BY DEF Ended, Issue

(* A transition changes nothing but the status and the version. *)
LEMMA TransitionFields ==
  ASSUME NEW i \in Issue, NEW action
  PROVE  LET t == Transition(i, action)
         IN  /\ t.review = i.review /\ t.iteration = i.iteration /\ t.delivery = i.delivery
             /\ t.draft = i.draft /\ t.failure = i.failure /\ t.pause = i.pause
             /\ t.request = i.request
BY DEF Transition, Moved, Issue

(* A delivery is completed once its iteration is published. *)
LEMMA CompleteDeliveryHolds ==
  ASSUME NEW i \in Issue, NEW a, NEW p, RowHolds(i, a, p), i.status = "FINALIZING",
         p = i.iteration
  PROVE  RowHolds(CompleteDelivery(i), a, p)
<1> DEFINE t == Transition(i, "COMPLETE_DELIVERY")
<1>1. CanTransition(i, "COMPLETE_DELIVERY")
  BY DEF CanTransition, Transitions
<1>2. t \in Issue /\ CompleteDelivery(i).status = "COMPLETED"
  BY <1>1, CompleteDeliveryAdvances, TransitionAdvances DEF Advances
<1>3. CompleteDelivery(i).review = None /\ CompleteDelivery(i).iteration = i.iteration
  BY <1>2, TransitionFields, EndedFields DEF CompleteDelivery
<1> QED
  BY <1>2, <1>3
  DEF RowHolds, AcceptedFits, DraftFits, Entrusted, Evidenced, Drafted, None

(* Only a failed intake gives a Repair a code of the legacy migration. *)
LEMMA RecordRepairFailureHolds ==
  ASSUME NEW i \in Issue, NEW a, NEW p, RowHolds(i, a, p), i.status = "REPAIRING",
         NEW code \in FailureCodes,
         code \in LegacyEvidenceFailureCodes => "intake" \in Faults
  PROVE  RowHolds(RecordRepairFailure(i, code), a, p)
<1> DEFINE f == RecordRepairFailure(i, code)
<1>1. f.status = "REPAIR_FAILED"
  BY RecordRepairFailureAdvances
<1>2. f.review = None /\ f.failure.code = code
  <2>1. f.review = i.review /\ f.failure = [stage |-> "REPAIR", code |-> code]
    BY DEF RecordRepairFailure, Failed, Transition, Moved, Issue
  <2> HIDE DEF f
  <2> QED
    BY <2>1, NoReview
<1> HIDE DEF f
<1> QED
  BY <1>1, <1>2 DEF f, RowHolds, AcceptedFits, DraftFits, Entrusted, Evidenced, Drafted, None

(* A failed capture keeps the draft it was made for. *)
LEMMA RecordEvidenceFailureHolds ==
  ASSUME NEW i \in Issue, NEW a, NEW p, RowHolds(i, a, p),
         i.status \in {"EVIDENCE_CAPTURE", "EVIDENCE_CHECK"}, NEW code \in FailureCodes
  PROVE  RowHolds(RecordEvidenceFailure(i, code), a, p)
<1> DEFINE f == RecordEvidenceFailure(i, code)
<1>1. f.status = "EVIDENCE_FAILED"
  BY RecordEvidenceFailureAdvances
<1>2. f.review = None /\ f.iteration = i.iteration /\ f.draft = i.draft
  <2>1. f.review = i.review /\ f.iteration = i.iteration /\ f.draft = i.draft
    BY DEF RecordEvidenceFailure, Failed, Transition, Moved, Issue
  <2> HIDE DEF f
  <2> QED
    BY <2>1, NoReview
<1> HIDE DEF f
<1> QED
  BY <1>1, <1>2 DEF f, RowHolds, AcceptedFits, DraftFits, Entrusted, Evidenced, Drafted, None

(* A capture that is queued again keeps the implementation's draft. *)
LEMMA RequeuedCaptureHolds ==
  ASSUME NEW i \in Issue, NEW a, NEW p, RowHolds(i, a, p),
         i.status \in {"EVIDENCE_CAPTURE", "EVIDENCE_CHECK"}
  PROVE  RowHolds(RequeuedCapture(i), a, p)
<1> DEFINE base == IF i.status = "EVIDENCE_CHECK" THEN RecordEvidenceRejection(i) ELSE i
<1>1. RequeuedCapture(i).status = "EVIDENCE_CAPTURE"
  BY RequeuedCaptureAdvances
<1>2. base \in Issue
  BY RecordEvidenceRejectionAdvances DEF Advances
<1>3. base.review = i.review /\ base.iteration = i.iteration /\ base.draft = i.draft
  BY DEF RecordEvidenceRejection, Transition, Moved, Issue
<1>4. /\ RequeuedCapture(i).review = base.review
      /\ RequeuedCapture(i).iteration = base.iteration
      /\ RequeuedCapture(i).draft = base.draft
  <2> HIDE DEF base
  <2>1. RequeuedCapture(i) = [base EXCEPT !.retries = i.retries + 1, !.delivery = 0,
                                !.failure = NoFailure, !.revision = i.revision + 1]
    BY DEF RequeuedCapture, base
  <2> QED
    BY <1>2, <2>1 DEF Issue
<1> HIDE DEF base
<1>5. i.review = None
  BY NoReview
<1> QED
  BY <1>1, <1>3, <1>4, <1>5
  DEF RowHolds, AcceptedFits, DraftFits, Entrusted, Evidenced, Drafted, None

(* The draft is that of the iteration just implemented. *)
LEMMA RecordImplementationDraftHolds ==
  ASSUME NEW i \in Issue, NEW a, NEW p, RowHolds(i, a, p), i.status = "REPAIRING"
  PROVE  RowHolds(RecordImplementationDraft(i), a, p)
<1>1. RecordImplementationDraft(i).status = "EVIDENCE_CAPTURE"
  BY RecordImplementationDraftAdvances
<1>2. /\ RecordImplementationDraft(i).review = i.review
      /\ RecordImplementationDraft(i).iteration = i.iteration
      /\ RecordImplementationDraft(i).draft = i.iteration
  BY DEF RecordImplementationDraft, Transition, Moved, Issue
<1> QED
  BY <1>1, <1>2, NoReview
  DEF RowHolds, AcceptedFits, DraftFits, Entrusted, Evidenced, Drafted, None

(* A review is asked for: of a delivery only with that iteration's evidence. *)
LEMMA RequestReviewHolds ==
  ASSUME NEW i \in Issue, NEW a, NEW p, NEW kind \in Reviews,
         kind = "delivery" => i.delivery = i.iteration
  PROVE  RowHolds(RequestReview(i, kind), a, p)
<1>1. RequestReview(i, kind).status = "REVIEW_REQUIRED"
  BY RequestReviewAdvances
<1>2. /\ RequestReview(i, kind).review = kind
      /\ RequestReview(i, kind).iteration = i.iteration
      /\ RequestReview(i, kind).delivery = i.delivery
  BY DEF RequestReview, Moved, Issue
<1> QED
  BY <1>1, <1>2 DEF RowHolds, AcceptedFits, DraftFits, Entrusted, Evidenced, Drafted

(* A request for capabilities, and its grant, keep the stage's demands. *)
LEMMA RecordCapabilityRequestHolds ==
  ASSUME NEW i \in Issue, NEW a, NEW p, RowHolds(i, a, p),
         NEW o \in AgentOperations, i.status = ResumeStatus[o], NEW c \in SUBSET Capabilities
  PROVE  RowHolds(RecordCapabilityRequest(i, o, c), a, p)
<1> DEFINE next == RecordCapabilityRequest(i, o, c)
<1>1. next.status = "PERMISSION_REQUIRED"
  BY RecordCapabilityRequestAdvances
<1>2. /\ next.review = i.review /\ next.iteration = i.iteration /\ next.draft = i.draft
      /\ next.delivery = i.delivery /\ next.request.operation = o
  BY DEF RecordCapabilityRequest, Moved, Issue
<1>3. /\ o = "RECOVER_FINALIZATION" => i.status = "FINALIZATION_RECOVERY"
      /\ o = "CAPTURE_EVIDENCE" => i.status = "EVIDENCE_CAPTURE"
      /\ i.status # "REVIEW_REQUIRED"
  BY DEF AgentOperations, ResumeStatus
<1> HIDE DEF next
<1> QED
  BY <1>1, <1>2, <1>3, NoReview
  DEF next, RowHolds, AcceptedFits, DraftFits, Entrusted, Evidenced, Drafted, None

(* What is resumed, or granted, is what was paused, or asked. *)
LEMMA ResumedHolds ==
  ASSUME NEW i, NEW a, NEW p, RowHolds(i, a, p), NEW o \in AgentOperations,
         \/ i.status = "PAUSED" /\ i.pause.operation = o
         \/ i.status = "PERMISSION_REQUIRED" /\ i.request.operation = o,
         NEW j, j.status = ResumeStatus[o], j.review = i.review,
         j.iteration = i.iteration, j.draft = i.draft, j.delivery = i.delivery
  PROVE  RowHolds(j, a, p)
<1>1. CASE o \in {"ASSESS", "REPAIR"}
  <2>1. j.status \in Unbound /\ j.review = None
    BY <1>1, NoReview DEF Unbound, ResumeStatus
  <2> QED
    BY <2>1, UnboundHolds
<1>2. CASE o = "CAPTURE_EVIDENCE"
  <2>1. j.status = "EVIDENCE_CAPTURE" /\ j.review = None
    BY <1>2, NoReview DEF ResumeStatus
  <2> QED
    BY <1>2, <2>1 DEF RowHolds, AcceptedFits, DraftFits, Entrusted, Evidenced, Drafted, None
<1>3. CASE o = "RECOVER_FINALIZATION"
  <2>1. j.status = "FINALIZATION_RECOVERY" /\ j.review = None
    BY <1>3, NoReview DEF ResumeStatus
  <2> QED
    BY <1>3, <2>1 DEF RowHolds, AcceptedFits, DraftFits, Entrusted, Evidenced, Drafted, None
<1> QED
  BY <1>1, <1>2, <1>3 DEF AgentOperations, ResumeStatus

(* A pause keeps the demands of what it interrupts. *)
LEMMA PauseHolds ==
  ASSUME NEW i \in Issue, NEW a, NEW p, RowHolds(i, a, p), CanTransition(i, "PAUSE")
  PROVE  RowHolds(Pause(i), a, p)
<1>1. Pause(i).status = "PAUSED"
  BY PauseAdvances
<1>2. /\ Pause(i).review = i.review /\ Pause(i).iteration = i.iteration
      /\ Pause(i).draft = i.draft /\ Pause(i).delivery = i.delivery
      /\ Pause(i).pause.operation = PauseByStatus[i.status]
  BY DEF Pause, Transition, Moved, Issue
<1>3. i.status \in {"ASSESSING", "REPAIRING", "EVIDENCE_CAPTURE", "FINALIZATION_RECOVERY"}
  BY DEF CanTransition, Issue, Statuses, Transitions
<1>4. /\ PauseByStatus[i.status] = "RECOVER_FINALIZATION" => i.status = "FINALIZATION_RECOVERY"
      /\ PauseByStatus[i.status] = "CAPTURE_EVIDENCE" => i.status = "EVIDENCE_CAPTURE"
  BY <1>3 DEF PauseByStatus
<1> QED
  BY <1>1, <1>2, <1>3, <1>4, NoReview
  DEF RowHolds, AcceptedFits, DraftFits, Entrusted, Evidenced, Drafted, None

(* A recovery that changed nothing is finalized as it was accepted. *)
LEMMA RecordRecoveryUnchangedHolds ==
  ASSUME NEW i \in Issue, NEW a, NEW p, RowHolds(i, a, p),
         i.status = "FINALIZATION_RECOVERY"
  PROVE  RowHolds(RecordRecoveryUnchanged(i), a, p)
<1>1. RecordRecoveryUnchanged(i).status = "FINALIZING"
  BY RecordRecoveryUnchangedAdvances
<1>2. /\ RecordRecoveryUnchanged(i).review = i.review
      /\ RecordRecoveryUnchanged(i).iteration = i.iteration
      /\ RecordRecoveryUnchanged(i).delivery = i.delivery
  BY DEF RecordRecoveryUnchanged, Transition, Moved, Issue
<1> QED
  BY <1>1, <1>2, NoReview
  DEF RowHolds, AcceptedFits, DraftFits, Entrusted, Evidenced, Drafted, None

(* One that changed the delivery is an iteration of its own. *)
LEMMA RecordRecoveryChangedHolds ==
  ASSUME NEW i \in Issue, NEW a, NEW p, RowHolds(i, a, p),
         i.status = "FINALIZATION_RECOVERY"
  PROVE  RowHolds(RecordRecoveryChanged(i), a, p)
<1> DEFINE next == RecordRecoveryChanged(i)
           n == i.iteration + 1
<1>1. next.status = "EVIDENCE_CAPTURE"
  BY RecordRecoveryChangedAdvances
<1>2. next.review = i.review /\ next.iteration = n /\ next.draft = n
  <2>1. Transition(i, "FINALIZATION_RECOVERY_CHANGED_DELIVERY").iteration = i.iteration
    BY TransitionFields
  <2> QED
    BY <2>1 DEF RecordRecoveryChanged, Transition, Moved, Issue
<1> HIDE DEF next, n
<1> QED
  BY <1>1, <1>2, NoReview
  DEF next, RowHolds, AcceptedFits, DraftFits, Entrusted, Evidenced, Drafted, None

(* The legacy migration applies to failures of an intake only. *)
LEMMA MigratedFailureHolds ==
  ASSUME NEW i \in Issue, NEW a, NEW p, RowHolds(i, a, p), LegacyFailure(i)
  PROVE  RowHolds(MigratedFailure(i), a, p)
<1>1. /\ MigratedFailure(i).status = "EVIDENCE_FAILED"
      /\ MigratedFailure(i).review = i.review
  BY DEF MigratedFailure, Issue
<1>2. "intake" \in Faults
  BY DEF LegacyFailure, RowHolds, DraftFits
<1> QED
  BY <1>1, <1>2, NoReview
  DEF LegacyFailure, RowHolds, AcceptedFits, DraftFits, Entrusted, Evidenced, None
(* A failure nothing is demanded of. *)
LEMMA FailureHolds ==
  ASSUME NEW i \in Issue, NEW a, NEW p, RowHolds(i, a, p), i.status # "REVIEW_REQUIRED",
         NEW action, NEW stage, NEW code, Failed(i, action, stage, code).status \in Unbound
  PROVE  RowHolds(Failed(i, action, stage, code), a, p)
<1> DEFINE f == Failed(i, action, stage, code)
<1>1. f.review = i.review
  BY DEF Failed, Transition, Moved, Issue
<1> HIDE DEF f
<1>2. f.review = None /\ f.status \in Unbound
  BY <1>1, NoReview DEF f
<1>3. RowHolds(f, a, p)
  BY <1>2, UnboundHolds
<1> QED
  BY <1>3 DEF f

-----------------------------------------------------------------------------
(* The invariant.                                                          *)

Publication == {"publishing", "releasing"}

(* While an issue is published, nothing but its revision can change.       *)
PublishingHolds ==
  op.pc \in Publication =>
    /\ issue.status = "FINALIZING"
    /\ issue.iteration = op.snap.iteration /\ issue.delivery = op.snap.delivery
    /\ op.pc = "releasing" => published = op.snap.iteration

GateInv == RowHolds(issue, accepted, published) /\ PublishingHolds

(* The row is left alone, by an operation that does not publish. *)
LEMMA GateKept ==
  ASSUME GateInv, UNCHANGED <<issue, history>>, op'.pc \notin Publication
  PROVE  GateInv'
BY DEF GateInv, PublishingHolds, history

(* Everything the invariant speaks of is left alone. *)
LEMMA GateUnmoved ==
  ASSUME GateInv, UNCHANGED <<issue, history>>, op'.pc = op.pc, op'.snap = op.snap
  PROVE  GateInv'
BY DEF GateInv, PublishingHolds, history

(* The operation is over, or all but its clean-up is. *)
LEMMA LeftPublication ==
  ASSUME \/ Settle \/ Reject \/ CleanUp("cleanup") \/ CleanUp("unwinding")
  PROVE  op'.pc \notin Publication
BY DEF Settle, Reject, CleanUp, NoOp, Publication

(* complete(): the snapshot is the row, when its result counts. *)
LEMMA GateCompletes ==
  ASSUME IInv, GateInv, Claimed, UNCHANGED history, op'.pc \notin Publication,
         NEW next, NEW operation, Complete(op.snap, next, operation),
         RowHolds(op.snap, accepted, published) => RowHolds(next, accepted, published)
  PROVE  GateInv'
<1>1. CASE Current(op.snap)
  BY <1>1 DEF IInv, SnapshotCurrent, GateInv, PublishingHolds, Complete, Store, history
<1>2. CASE ~Current(op.snap)
  BY <1>2, GateKept DEF Complete
<1> QED
  BY <1>1, <1>2

(* An idle step gives the row its next version. *)
LEMMA GateStored ==
  ASSUME op'.pc \notin Publication, RowHolds(issue', accepted', published')
  PROVE  GateInv'
BY DEF GateInv, PublishingHolds

(* A command changes the row of an issue that is not being published. *)
LEMMA GateCommanded ==
  ASSUME GateInv, op'.pc = op.pc, issue.status # "FINALIZING",
         RowHolds(issue', accepted', published')
  PROVE  GateInv'
BY DEF GateInv, PublishingHolds

-----------------------------------------------------------------------------
(* RuntimeWorker, step by step.                                            *)

(* queueEvidenceCapture *)
LEMMA GateRequeues ==
  ASSUME IInv, GateInv, Claimed, UNCHANGED history, op'.pc \notin Publication,
         op.snap.status \in {"EVIDENCE_CAPTURE", "EVIDENCE_CHECK"},
         QueueEvidenceCapture(op.snap)
  PROVE  GateInv'
<1>1. op.snap \in Issue /\ "EVIDENCE_RETRY_LIMIT_REACHED" \in FailureCodes
  BY SnapshotFacts DEF FailureCodes
<1>2. CASE op.snap.retries >= MAX_AUTOMATIC_EVIDENCE_RETRIES
  BY <1>1, <1>2, GateCompletes, RecordEvidenceFailureHolds DEF QueueEvidenceCapture
<1>3. CASE ~(op.snap.retries >= MAX_AUTOMATIC_EVIDENCE_RETRIES)
  BY <1>1, <1>3, GateCompletes, RequeuedCaptureHolds DEF QueueEvidenceCapture
<1> QED
  BY <1>2, <1>3

(* The Repair fails, of anything but its evidence intake. *)
LEMMA GateRepairFails ==
  ASSUME IInv, GateInv, Claimed, UNCHANGED history, op'.pc \notin Publication,
         op.kind = "REPAIR", op.pc # "importing", NEW code \in FailureCodes,
         code \in LegacyEvidenceFailureCodes => "intake" \in Faults,
         Complete(op.snap, RecordRepairFailure(op.snap, code), None)
  PROVE  GateInv'
<1>1. op.snap \in Issue /\ op.snap.status = "REPAIRING"
  BY SnapshotFacts DEF ClaimedStatus
<1> QED
  BY <1>1, GateCompletes, RecordRepairFailureHolds

(* The claim of an assessment. *)
LEMMA ClaimedAssessmentHolds ==
  ASSUME NEW i \in Issue, NEW a, NEW p, RowHolds(i, a, p),
         i.status \in {"RECEIVED", "ASSESSING"}
  PROVE  RowHolds(ClaimedAssessment(i), a, p)
<1> DEFINE w == IF i.session THEN i ELSE RecordAgentSession(i)
<1>1. w \in Issue /\ w.review = i.review
  BY RecordAgentSessionAdvances DEF Advances, RecordAgentSession, Issue
<1> HIDE DEF w
<1>2. StartAssessment(w).review = w.review
  BY <1>1 DEF StartAssessment, Transition, Moved, Issue
<1>3. ClaimedAssessment(i).review = i.review
  BY <1>1, <1>2 DEF ClaimedAssessment, w
<1>4. ClaimedAssessment(i).status \in Unbound
  BY ClaimedAssessmentAdvances DEF Unbound
<1> QED
  BY <1>3, <1>4, NoReview, UnboundHolds

(* assess, once it has a session *)
LEMMA BeginAssessmentGate ==
  ASSUME IInv, GateInv, NEW snapshot, BeginAssessment(snapshot), UNCHANGED history
  PROVE  GateInv'
<1>1. issue \in Issue
  BY DEF IInv, TypeOK
<1>2. CASE issue.status \in {"RECEIVED", "ASSESSING"}
  <2>1. RowHolds(ClaimedAssessment(issue), accepted, published)
    BY <1>1, <1>2, ClaimedAssessmentHolds DEF GateInv
  <2>2. issue' = ClaimedAssessment(issue) /\ op'.pc \notin Publication
    BY <1>2 DEF BeginAssessment, Store, Started, NoOp, Publication
  <2> QED
    BY <2>1, <2>2, GateStored DEF history
<1>3. CASE issue.status \notin {"RECEIVED", "ASSESSING"}
  BY <1>3, GateKept DEF BeginAssessment, NoOp, Publication
<1> QED
  BY <1>2, <1>3

(* failPendingAssessment *)
LEMMA FailPendingAssessmentGate ==
  ASSUME IInv, GateInv, NEW snapshot, FailPendingAssessment(snapshot), UNCHANGED history,
         op'.pc \notin Publication
  PROVE  GateInv'
<1> DEFINE b == IF issue.status = "RECEIVED" THEN StartAssessment(issue) ELSE issue
           counts == Current(snapshot) /\ issue.status \in {"RECEIVED", "ASSESSING"}
<1>1. issue \in Issue
  BY DEF IInv, TypeOK
<1>2. CASE counts
  <2>1. issue.status = "RECEIVED" => CanTransition(issue, "START_ASSESSMENT")
    BY DEF CanTransition, Transitions
  <2>2. b \in Issue /\ b.status = "ASSESSING"
    BY <1>1, <1>2, <2>1, StartAssessmentAdvances DEF Advances
  <2>3. b.review = issue.review
    BY <1>1 DEF StartAssessment, Transition, Moved, Issue
  <2>4. issue' = RecordAssessmentFailure(b, "AGENT_FAILURE")
    BY <1>2 DEF FailPendingAssessment, Store
  <2> HIDE DEF b
  <2>5. /\ RecordAssessmentFailure(b, "AGENT_FAILURE").status = "ASSESSMENT_FAILED"
        /\ RecordAssessmentFailure(b, "AGENT_FAILURE").review = b.review
    <3>1. "AGENT_FAILURE" \in FailureCodes
      BY DEF FailureCodes
    <3>2. RecordAssessmentFailure(b, "AGENT_FAILURE").review = b.review
      BY <2>2 DEF RecordAssessmentFailure, Failed, Transition, Moved, Issue
    <3> QED
      BY <2>2, <3>1, <3>2, RecordAssessmentFailureAdvances
  <2>6. issue.review = None
    BY <1>2, NoReview DEF GateInv
  <2>7. RowHolds(issue', accepted, published)
    BY <2>3, <2>4, <2>5, <2>6, UnboundHolds DEF Unbound
  <2> QED
    BY <2>7, GateStored DEF history
<1>3. CASE ~counts
  BY <1>3, GateKept DEF FailPendingAssessment
<1> QED
  BY <1>2, <1>3
(* assess *)
LEMMA AssessGate == ASSUME IInv, GateInv, Assess PROVE GateInv'
<1>1. UNCHANGED history
  BY DEF Assess, OperationFrame
<1>2. CASE UNCHANGED issue /\ (Reject \/ Started("creating", "ASSESS", issue))
  <2>1. op'.pc \notin Publication
    BY <1>2, LeftPublication DEF Started, NoOp, Publication
  <2> QED
    BY <1>1, <1>2, <2>1, GateKept
<1>3. CASE BeginAssessment(issue)
  BY <1>1, <1>3, BeginAssessmentGate
<1> QED
  BY <1>2, <1>3 DEF Assess

(* An operation claims the row as it is, or is refused. *)
LEMMA ClaimGate ==
  ASSUME IInv, GateInv, \/ Repair \/ CaptureEvidence \/ InspectEvidence \/ RecoverFinalization
  PROVE  GateInv'
<1>1. UNCHANGED <<issue, history>>
  BY DEF Repair, CaptureEvidence, InspectEvidence, RecoverFinalization, Store, OperationFrame
<1> SUFFICES op'.pc \notin Publication
  BY <1>1, GateKept
<1>2. op.pc = "idle"
  BY DEF Repair, CaptureEvidence, InspectEvidence, RecoverFinalization, Dispatched, Active
<1>3. CASE op' = op \/ Reject
  BY <1>2, <1>3 DEF Reject, NoOp, Publication
<1>4. CASE \E pc \in {"observing", "intake", "inspecting", "turn"}, kind \in Operations :
             Started(pc, kind, issue)
  BY <1>4 DEF Started, NoOp, Publication
<1>5. CASE op' = [NoOp EXCEPT !.pc = "validating", !.kind = "RECOVER_FINALIZATION",
                              !.snap = issue, !.result = "failed"]
  BY <1>5 DEF NoOp, Publication
<1>6. {"REPAIR", "CAPTURE_EVIDENCE", "EVIDENCE", "RECOVER_FINALIZATION"} \subseteq Operations
  BY DEF Operations, AgentOperations, ResumeStatus
<1>7. CASE Repair
  BY <1>3, <1>4, <1>6, <1>7 DEF Repair
<1>8. CASE CaptureEvidence
  BY <1>3, <1>4, <1>6, <1>8 DEF CaptureEvidence
<1>9. CASE InspectEvidence
  BY <1>3, <1>4, <1>6, <1>9 DEF InspectEvidence
<1>10. CASE RecoverFinalization
  BY <1>3, <1>4, <1>5, <1>6, <1>10 DEF RecoverFinalization
<1> QED
  BY <1>7, <1>8, <1>9, <1>10

(* The row is left alone while the operation goes on, or is over. *)
LEMMA PhaseGate ==
  ASSUME IInv, GateInv,
         \/ RepairObserved \/ IntakePrepared \/ TurnCorrected \/ EvidenceReturned
         \/ HostCaptureAborted \/ IntakeRemoved \/ IntakeNotRemoved \/ RecoveryChanged
  PROVE  GateInv'
<1>1. UNCHANGED <<issue, history>>
  BY DEF RepairObserved, IntakePrepared, TurnCorrected, EvidenceReturned, HostCaptureAborted,
     IntakeRemoved, IntakeNotRemoved, RecoveryChanged, OperationFrame
<1> SUFFICES op'.pc \notin Publication
  BY <1>1, GateKept
<1>2. op \in Op
  BY DEF IInv, TypeOK
<1>3. CASE RepairObserved \/ IntakePrepared \/ TurnCorrected \/ RecoveryChanged
  BY <1>2, <1>3 DEF RepairObserved, IntakePrepared, TurnCorrected, RecoveryChanged, Goto,
     Publication, Op
<1>4. CASE EvidenceReturned
  <2>1. CASE op.aborted
    BY <1>4, <2>1, LeftPublication DEF EvidenceReturned
  <2>2. CASE ~op.aborted
    BY <1>2, <1>4, <2>2 DEF EvidenceReturned, Publication, Op
  <2> QED
    BY <2>1, <2>2
<1>5. CASE HostCaptureAborted \/ IntakeRemoved \/ IntakeNotRemoved
  BY <1>5, LeftPublication DEF HostCaptureAborted, IntakeRemoved, IntakeNotRemoved
<1> QED
  BY <1>3, <1>4, <1>5
(* The turn has ended, and its operation with it. *)
LEMMA LeaveLeaves == ASSUME Leave PROVE op'.pc \notin Publication
BY LeaveEnds, LeftPublication

(* validateFinalizationRecovery, up to its first await *)
LEMMA RevalidatedGate ==
  ASSUME IInv, GateInv, NEW result, Revalidated(result), UNCHANGED <<issue, history>>
  PROVE  GateInv'
<1>1. op \in Op
  BY DEF IInv, TypeOK
<1>2. CASE Current(op.snap)
  <2>1. op' = [op EXCEPT !.pc = "validating", !.result = result, !.interrupt = None]
    BY <1>2 DEF Revalidated
  <2>2. op'.pc = "validating"
    BY <1>1, <2>1 DEF Op
  <2> QED
    BY <2>2, GateKept DEF Publication
<1>3. CASE ~Current(op.snap)
  <2>1. op'.pc \notin Publication
    BY <1>3 DEF Revalidated, NoOp, Publication
  <2> QED
    BY <2>1, GateKept
<1> QED
  BY <1>2, <1>3

(* The turn of a recovery returned. *)
LEMMA RecoveryReturnedGate ==
  ASSUME IInv, GateInv, NEW result, RecoveryReturned(result)
  PROVE  GateInv'
BY RevalidatedGate DEF RecoveryReturned, OperationFrame

(* The turn of a Repair returned. *)
LEMMA RepairReturnedGate ==
  ASSUME IInv, GateInv, NEW result, RepairReturned(result)
  PROVE  GateInv'
<1>1. op \in Op
  BY DEF IInv, TypeOK
<1>2. op'.pc \notin Publication
  BY <1>1 DEF RepairReturned, Publication, Op
<1> QED
  BY <1>2, GateKept DEF RepairReturned, OperationFrame

(* The assessment is reviewed; there is no delivery to accept. *)
LEMMA AssessmentReturnedGate ==
  ASSUME IInv, GateInv, NEW a \in AgentAssessments, AssessmentReturned(a)
  PROVE  GateInv'
<1> DEFINE done == RecordAssessment(op.snap, a)
<1>1. op.pc \in Turning /\ op.kind = "ASSESS"
  BY DEF AssessmentReturned, InTurn
<1>2. op.snap \in Issue /\ op.snap.status = "ASSESSING" /\ Claimed
  BY <1>1, TurnFacts DEF ResumeStatus
<1>3. a \in Assessment
  BY AssessmentAssumption
<1>4. done \in Issue
  BY <1>2, <1>3, RecordAssessmentAdvances DEF Advances
<1>5. /\ Complete(op.snap, RequestReview(done, "assessment"), None)
      /\ op'.pc \notin Publication /\ UNCHANGED history
  BY LeaveLeaves DEF AssessmentReturned, OperationFrame
<1> HIDE DEF done
<1>6. RowHolds(RequestReview(done, "assessment"), accepted, published)
  BY <1>4, RequestReviewHolds DEF Reviews
<1> QED
  BY <1>2, <1>5, <1>6, GateCompletes

(* The turn asked for a capability. *)
LEMMA CapabilityRequiredGate ==
  ASSUME IInv, GateInv, NEW c \in SUBSET Capabilities, CapabilityRequired(c)
  PROVE  GateInv'
<1>1. UNCHANGED history /\ op.pc \in Turning
  BY DEF CapabilityRequired, OperationFrame
<1>2. CASE Rethrows
  BY <1>1, <1>2, LeftPublication, GateKept DEF CapabilityRequired
<1>3. CASE ~Rethrows
  <2>1. /\ Claimed /\ op.kind \in AgentOperations /\ op.snap \in Issue
        /\ op.snap.status = ResumeStatus[op.kind]
    BY <1>1, TurnFacts
  <2>2. Complete(op.snap, RecordCapabilityRequest(op.snap, op.kind, c), None)
        /\ op'.pc \notin Publication
    BY <1>3, LeaveLeaves DEF CapabilityRequired
  <2> QED
    BY <1>1, <2>1, <2>2, RecordCapabilityRequestHolds, GateCompletes
<1> QED
  BY <1>2, <1>3

(* Every other error of a turn. The Agent has no code of the intake's. *)
LEMMA FailTurnGate ==
  ASSUME IInv, GateInv, op.pc \in Turning,
         NEW code \in {"AGENT_FAILURE", "AGENT_SESSION_UNAVAILABLE"}, FailTurn(code),
         UNCHANGED history
  PROVE  GateInv'
<1>1. /\ Claimed /\ op.kind \in AgentOperations /\ op.snap \in Issue
      /\ op.snap.status = ResumeStatus[op.kind] /\ op.pc # "importing"
  BY TurnFacts DEF Turning
<1>2. code \in FailureCodes \ LegacyEvidenceFailureCodes
  BY DEF FailureCodes, LegacyEvidenceFailureCodes
<1>3. CASE op.kind = "ASSESS"
  <2>1. op.snap.status = "ASSESSING"
    BY <1>1, <1>3 DEF ResumeStatus
  <2>2. RecordAssessmentFailure(op.snap, code).status \in Unbound
    BY <1>1, <1>2, <2>1, RecordAssessmentFailureAdvances DEF Unbound
  <2>3. RowHolds(op.snap, accepted, published) =>
          RowHolds(RecordAssessmentFailure(op.snap, code), accepted, published)
    BY <1>1, <2>1, <2>2, FailureHolds DEF RecordAssessmentFailure
  <2>4. Complete(op.snap, RecordAssessmentFailure(op.snap, code), None)
        /\ op'.pc \notin Publication
    BY <1>3, LeaveLeaves DEF FailTurn
  <2> QED
    BY <1>1, <2>3, <2>4, GateCompletes
<1>4. CASE op.kind = "REPAIR"
  BY <1>1, <1>2, <1>4, LeaveLeaves, GateRepairFails DEF FailTurn
<1>5. CASE op.kind = "CAPTURE_EVIDENCE"
  <2>1. CASE op.aborted
    BY <1>5, <2>1, LeftPublication, GateKept DEF FailTurn
  <2>2. CASE ~op.aborted
    <3>1. op.snap.status = "EVIDENCE_CAPTURE"
      BY <1>1, <1>5 DEF ResumeStatus
    <3> QED
      BY <1>1, <1>5, <2>2, <3>1, LeaveLeaves, GateRequeues DEF FailTurn
  <2> QED
    BY <2>1, <2>2
<1>6. CASE op.kind = "RECOVER_FINALIZATION"
  BY <1>6, RevalidatedGate DEF FailTurn
<1> QED
  BY <1>1, <1>3, <1>4, <1>5, <1>6 DEF AgentOperations, ResumeStatus

(* ... of a turn that failed *)
LEMMA TurnFailedGate ==
  ASSUME IInv, GateInv, NEW code \in {"AGENT_FAILURE", "AGENT_SESSION_UNAVAILABLE"},
         TurnFailed(code)
  PROVE  GateInv'
BY FailTurnGate DEF TurnFailed, OperationFrame

(* ... or was aborted *)
LEMMA TurnInterruptedGate == ASSUME IInv, GateInv, TurnInterrupted PROVE GateInv'
<1> DEFINE next == [op.snap EXCEPT !.revision = @ + 1]
<1>1. UNCHANGED history /\ op.pc \in Turning
  BY DEF TurnInterrupted, OperationFrame
<1>2. CASE op.interrupt = "RUNTIME_STOPPING" /\ ~Rethrows
  <2>1. Claimed /\ op.snap \in Issue
    BY <1>1, TurnFacts
  <2>2. Alike(op.snap, next)
    BY <2>1 DEF Alike, Issue
  <2>3. Complete(op.snap, next, op.kind) /\ op'.pc \notin Publication
    BY <1>2, LeaveLeaves DEF TurnInterrupted
  <2> HIDE DEF next
  <2> QED
    BY <1>1, <2>1, <2>2, <2>3, AlikeHolds, GateCompletes
<1>3. CASE ~(op.interrupt = "RUNTIME_STOPPING" /\ ~Rethrows)
  BY <1>1, <1>3, FailTurnGate DEF TurnInterrupted
<1> QED
  BY <1>2, <1>3
-----------------------------------------------------------------------------
(* What follows the turn of a Repair and the capture of evidence.          *)

(* A Repair whose workspace is not there, or whose result is not valid. *)
LEMMA RepairEndedGate ==
  ASSUME IInv, GateInv, RepairNotObserved \/ RepairInvalid
  PROVE  GateInv'
<1>1. /\ Claimed /\ op.kind = "REPAIR" /\ op.pc # "importing"
      /\ UNCHANGED history
      /\ Complete(op.snap, RecordRepairFailure(op.snap, "AGENT_FAILURE"), None)
  BY DEF RepairNotObserved, RepairInvalid, At, Claimed, OperationFrame
<1>2. op'.pc \notin Publication
  BY LeftPublication DEF RepairNotObserved, RepairInvalid
<1>3. "AGENT_FAILURE" \in FailureCodes \ LegacyEvidenceFailureCodes
  BY DEF FailureCodes, LegacyEvidenceFailureCodes
<1> QED
  BY <1>1, <1>2, <1>3, GateRepairFails

(* The one failure the legacy migration takes for its own. *)
LEMMA IntakeFailedGate == ASSUME IInv, GateInv, IntakeFailed PROVE GateInv'
<1>1. /\ Claimed /\ op.pc = "intake" /\ op.kind \in {"REPAIR", "CAPTURE_EVIDENCE"}
      /\ UNCHANGED history /\ "intake" \in Faults
  BY DEF IntakeFailed, At, Claimed, OperationFrame
<1>2. op'.pc \notin Publication
  BY LeftPublication DEF IntakeFailed
<1>3. CASE op.kind = "REPAIR"
  <2>1. "EVIDENCE_INTAKE_FAILED" \in FailureCodes
    BY DEF FailureCodes
  <2> QED
    BY <1>1, <1>2, <1>3, <2>1, GateRepairFails DEF IntakeFailed
<1>4. CASE op.kind = "CAPTURE_EVIDENCE"
  <2>1. op.snap.status = "EVIDENCE_CAPTURE"
    BY <1>1, <1>4, SnapshotFacts DEF ClaimedStatus
  <2> QED
    BY <1>1, <1>2, <1>4, <2>1, GateRequeues DEF IntakeFailed
<1> QED
  BY <1>1, <1>3, <1>4

(* captureWithHost throws. *)
LEMMA HostCaptureFailedGate == ASSUME IInv, GateInv, HostCaptureFailed PROVE GateInv'
<1>1. Claimed /\ op.kind = "CAPTURE_EVIDENCE" /\ op.pc = "capturing" /\ UNCHANGED history
  BY DEF HostCaptureFailed, At, Claimed, OperationFrame
<1>2. op.snap.status = "EVIDENCE_CAPTURE"
  BY <1>1, SnapshotFacts DEF ClaimedStatus
<1> QED
  BY <1>1, <1>2, LeftPublication, GateRequeues DEF HostCaptureFailed

(* A business decision is reviewed; there is no delivery to accept. *)
LEMMA BusinessDecisionRequiredGate ==
  ASSUME IInv, GateInv, BusinessDecisionRequired PROVE GateInv'
<1>1. /\ Claimed /\ UNCHANGED history
      /\ Complete(op.snap, RequestReview(op.snap, "business-merge-conflict"), None)
  BY DEF BusinessDecisionRequired, At, Claimed, OperationFrame
<1>2. op'.pc \notin Publication
  BY LeftPublication DEF BusinessDecisionRequired
<1>3. op.snap \in Issue /\ "business-merge-conflict" \in Reviews \ {"delivery"}
  BY <1>1, SnapshotFacts DEF Reviews
<1>4. RowHolds(RequestReview(op.snap, "business-merge-conflict"), accepted, published)
  BY <1>3, RequestReviewHolds
<1> QED
  BY <1>1, <1>2, <1>4, GateCompletes

(* A Repair is validated, and imports its evidence or leaves it to a capture. *)
LEMMA ImplementationReadyGate == ASSUME IInv, GateInv, ImplementationReady PROVE GateInv'
<1> DEFINE drafted == RecordImplementationDraft(op.snap)
           imports == op.result = "evidence" /\ Current(op.snap)
<1>1. Claimed /\ op.kind = "REPAIR" /\ op.pc = "validating" /\ UNCHANGED history
  BY DEF ImplementationReady, At, Claimed, OperationFrame
<1>2. op \in Op /\ op.snap \in Issue /\ op.snap.status = "REPAIRING"
  BY <1>1, SnapshotFacts DEF ClaimedStatus, TypeOK
<1>3. RowHolds(op.snap, accepted, published) => RowHolds(drafted, accepted, published)
  BY <1>2, RecordImplementationDraftHolds
<1>4. CASE imports
  <2>1. op.snap = issue
    BY <1>1, <1>4 DEF IInv, SnapshotCurrent
  <2>2. /\ issue' = drafted
        /\ op' = [op EXCEPT !.pc = "importing", !.snap = drafted, !.result = None]
    BY <1>4 DEF ImplementationReady, Store
  <2> HIDE DEF drafted
  <2>3. op'.pc \notin Publication
    BY <1>2, <2>2 DEF Op, Publication
  <2> QED
    BY <1>1, <1>3, <2>1, <2>2, <2>3, GateStored DEF GateInv, history
<1>5. CASE ~imports
  <2>1. Complete(op.snap, drafted, "CAPTURE_EVIDENCE") /\ op'.pc \notin Publication
    BY <1>5, LeftPublication DEF ImplementationReady
  <2> HIDE DEF drafted
  <2> QED
    BY <1>1, <1>3, <2>1, GateCompletes
<1> QED
  BY <1>4, <1>5

(* The evidence is imported, or is not. *)
LEMMA DeliveryGate ==
  ASSUME IInv, GateInv, DeliveryImported \/ DeliveryNotImported
  PROVE  GateInv'
<1>1. /\ Claimed /\ op.kind \in {"REPAIR", "CAPTURE_EVIDENCE"} /\ op.pc = "importing"
      /\ UNCHANGED history
  BY DEF DeliveryImported, DeliveryNotImported, At, Claimed, OperationFrame
<1>2. op.snap \in Issue /\ op.snap.status = "EVIDENCE_CAPTURE"
  BY <1>1, SnapshotFacts DEF ClaimedStatus
<1>3. op'.pc \notin Publication
  BY LeftPublication DEF DeliveryImported, DeliveryNotImported
<1>4. CASE DeliveryImported
  BY <1>1, <1>2, <1>3, <1>4, RecordDeliveryHolds, GateCompletes DEF DeliveryImported
<1>5. CASE DeliveryNotImported
  BY <1>1, <1>2, <1>3, <1>5, GateRequeues DEF DeliveryNotImported
<1> QED
  BY <1>4, <1>5

(* The evidence of this iteration is what the review is about. *)
LEMMA InspectedGate ==
  ASSUME IInv, GateInv, EvidenceReviewable \/ EvidenceNotReviewable
  PROVE  GateInv'
<1>1. Claimed /\ op.kind = "EVIDENCE" /\ op.pc = "inspecting" /\ UNCHANGED history
  BY DEF EvidenceReviewable, EvidenceNotReviewable, At, Claimed, OperationFrame
<1>2. op.snap \in Issue /\ op.snap.status = "EVIDENCE_CHECK"
  BY <1>1, SnapshotFacts DEF ClaimedStatus
<1>3. op'.pc \notin Publication
  BY LeftPublication DEF EvidenceReviewable, EvidenceNotReviewable
<1>4. CASE EvidenceReviewable
  <2> DEFINE done == RecordEvidenceAcceptance(op.snap)
  <2>1. done \in Issue
    BY <1>2, RecordEvidenceAcceptanceAdvances DEF Advances
  <2>2. done.iteration = op.snap.iteration /\ done.delivery = op.snap.delivery
    BY <1>2 DEF RecordEvidenceAcceptance, Transition, Moved, Issue
  <2>3. Complete(op.snap, RequestReview(done, "delivery"), None)
    BY <1>4 DEF EvidenceReviewable
  <2> HIDE DEF done
  <2>4. ASSUME RowHolds(op.snap, accepted, published)
        PROVE  RowHolds(RequestReview(done, "delivery"), accepted, published)
    <3>1. done.delivery = done.iteration
      BY <1>2, <2>2, <2>4 DEF RowHolds, AcceptedFits, Evidenced
    <3> QED
      BY <2>1, <3>1, RequestReviewHolds DEF Reviews
  <2> QED
    BY <1>1, <1>3, <2>3, <2>4, GateCompletes
<1>5. CASE EvidenceNotReviewable
  BY <1>1, <1>2, <1>3, <1>5, GateRequeues DEF EvidenceNotReviewable
<1> QED
  BY <1>4, <1>5

(* The Agent's plugin is not installed. *)
LEMMA AgentUnavailableGate == ASSUME IInv, GateInv, AgentUnavailable PROVE GateInv'
<1>1. op.pc = "idle" /\ UNCHANGED history
  BY DEF AgentUnavailable, Dispatched, Active, OperationFrame
<1>2. CASE FailPendingAssessment(issue) /\ op' = op
  BY <1>1, <1>2, FailPendingAssessmentGate DEF Publication
<1>3. CASE /\ CanTransition(issue, "REPAIR_ERRORED") /\ op' = op
           /\ Store(RecordRepairFailure(issue, "AGENT_FAILURE"), None)
  <2>1. issue \in Issue
    BY DEF IInv, TypeOK
  <2>2. issue.status = "REPAIRING"
    BY <1>3, <2>1 DEF CanTransition, Transitions, Issue, Statuses
  <2>3. "AGENT_FAILURE" \in FailureCodes \ LegacyEvidenceFailureCodes
    BY DEF FailureCodes, LegacyEvidenceFailureCodes
  <2>4. RowHolds(RecordRepairFailure(issue, "AGENT_FAILURE"), accepted, published)
    BY <2>1, <2>2, <2>3, RecordRepairFailureHolds DEF GateInv
  <2> QED
    BY <1>1, <1>3, <2>4, GateStored DEF Store, Publication, history
<1>4. CASE /\ op' = [NoOp EXCEPT !.pc = "validating", !.kind = "RECOVER_FINALIZATION",
                                 !.snap = issue, !.result = "failed"]
           /\ UNCHANGED <<issue, pending>>
  <2>1. op'.pc \notin Publication
    BY <1>4 DEF NoOp, Publication
  <2> QED
    BY <1>1, <1>4, <2>1, GateKept
<1> QED
  BY <1>2, <1>3, <1>4 DEF AgentUnavailable
(* Every step of the worker keeps the gate. *)
LEMMA WorkerNextGate == ASSUME IInv, GateInv, WorkerNext PROVE GateInv'
<1>1. CASE SessionCreated
  BY <1>1, BeginAssessmentGate DEF SessionCreated, OperationFrame
<1>2. CASE SessionNotCreated
  BY <1>2, LeftPublication, FailPendingAssessmentGate DEF SessionNotCreated, OperationFrame
<1> QED
  BY <1>1, <1>2, AssessGate, ClaimGate, PhaseGate, RecoveryReturnedGate, RepairReturnedGate,
     AssessmentReturnedGate, CapabilityRequiredGate, TurnFailedGate, TurnInterruptedGate,
     RepairEndedGate, IntakeFailedGate, HostCaptureFailedGate, BusinessDecisionRequiredGate,
     ImplementationReadyGate, DeliveryGate, InspectedGate, AgentUnavailableGate
  DEF WorkerNext

-----------------------------------------------------------------------------
(* WorkspaceCoordinator, step by step.                                     *)

(* prepare, with the workspace and without *)
LEMMA PrepareGate ==
  ASSUME IInv, GateInv, Prepare \/ WorkspaceAcquired \/ WorkspaceNotAcquired
  PROVE  GateInv'
<1> DEFINE acquired == [op.snap EXCEPT !.path = TRUE, !.revision = @ + 1]
<1>1. UNCHANGED history
  BY DEF Prepare, WorkspaceAcquired, WorkspaceNotAcquired, OperationFrame
<1>2. CASE Prepare
  <2>1. UNCHANGED issue /\ op'.pc \notin Publication
    BY <1>2 DEF Prepare, Started, NoOp, Publication
  <2> QED
    BY <1>1, <2>1, GateKept
<1>3. CASE WorkspaceAcquired
  <2>1. Claimed /\ op.snap \in Issue
    BY <1>3, AcquiringFacts DEF WorkspaceAcquired
  <2>2. Complete(op.snap, acquired, "ASSESS") /\ op'.pc \notin Publication
    BY <1>3, LeftPublication DEF WorkspaceAcquired, Complete
  <2>3. Alike(op.snap, acquired)
    BY <2>1 DEF Alike, Issue
  <2> HIDE DEF acquired
  <2> QED
    BY <1>1, <2>1, <2>2, <2>3, AlikeHolds, GateCompletes
<1>4. CASE WorkspaceNotAcquired
  <2>1. UNCHANGED issue /\ op'.pc \notin Publication
    BY <1>4, LeftPublication DEF WorkspaceNotAcquired, Store
  <2> QED
    BY <1>1, <2>1, GateKept
<1> QED
  BY <1>2, <1>3, <1>4

(* What is published is the row a human has accepted. *)
LEMMA FinalizeGate == ASSUME IInv, GateInv, Finalize PROVE GateInv'
<1>1. UNCHANGED <<issue, history>> /\ op.pc = "idle"
  BY DEF Finalize, Dispatched, Active, OperationFrame
<1>2. CASE issue.status = "FINALIZING"
  <2>1. op'.pc = "publishing" /\ op'.snap = issue
    BY <1>2 DEF Finalize, Started, NoOp
  <2> QED
    BY <1>1, <1>2, <2>1 DEF GateInv, PublishingHolds, history
<1>3. CASE issue.status # "FINALIZING"
  BY <1>1, <1>3, GateUnmoved DEF Finalize
<1> QED
  BY <1>2, <1>3

(* The provider has published the iteration of the row. *)
LEMMA PublishedGate == ASSUME IInv, GateInv, Published PROVE GateInv'
<1>1. op.pc = "publishing" /\ op \in Op
  BY DEF Published, At, IInv, TypeOK
<1>2. /\ published' = op.snap.iteration /\ UNCHANGED <<issue, accepted>>
      /\ op'.pc = "releasing" /\ op'.snap = op.snap
  BY <1>1 DEF Published, Goto, Op
<1>3. /\ issue.status = "FINALIZING" /\ issue.iteration = op.snap.iteration
      /\ issue.delivery = op.snap.delivery
  BY <1>1 DEF GateInv, PublishingHolds, Publication
<1>4. RowHolds(issue, accepted, op.snap.iteration)
  BY <1>3 DEF GateInv, RowHolds, AcceptedFits
<1> QED
  BY <1>2, <1>3, <1>4 DEF GateInv, PublishingHolds

(* A delivery is completed that was published. *)
LEMMA ReleasedGate == ASSUME IInv, GateInv, Released PROVE GateInv'
<1>1. op.pc = "releasing" /\ UNCHANGED history
  BY DEF Released, At, OperationFrame
<1>2. Claimed /\ op.snap \in Issue /\ op.snap.status = "FINALIZING"
  BY <1>1, PublishingFacts
<1>3. published = op.snap.iteration
  BY <1>1 DEF GateInv, PublishingHolds, Publication
<1>4. Complete(op.snap, CompleteDelivery(op.snap), None) /\ op'.pc \notin Publication
  BY LeftPublication DEF Released
<1> QED
  BY <1>1, <1>2, <1>3, <1>4, CompleteDeliveryHolds, GateCompletes

(* A publication that failed, or met a base that has moved. *)
LEMMA NotPublishedGate == ASSUME IInv, GateInv, BaseStale \/ NotPublished PROVE GateInv'
<1>1. op.pc \in Publication /\ UNCHANGED history /\ op'.pc \notin Publication
  BY LeftPublication DEF BaseStale, NotPublished, At, Publication, OperationFrame
<1>2. Claimed /\ op.snap \in Issue /\ op.snap.status = "FINALIZING"
  BY <1>1, PublishingFacts DEF Publication
<1>3. CASE BaseStale
  <2> DEFINE next == RecordBaseIntegrationStale(op.snap)
  <2>1. next.status = "REPAIRING"
    BY <1>2, RecordBaseIntegrationStaleAdvances
  <2>2. next.review = op.snap.review
    BY <1>2 DEF RecordBaseIntegrationStale, ReopenedForRepair, Transition, Moved, Issue
  <2>3. Complete(op.snap, next, "REPAIR")
    BY <1>3 DEF BaseStale
  <2> HIDE DEF next
  <2> QED
    BY <1>1, <1>2, <2>1, <2>2, <2>3, NoReview, UnboundHolds, GateCompletes DEF Unbound
<1>4. CASE NotPublished
  <2> DEFINE next == PublicationFailed(op.snap)
  <2>1. next.status = "FINALIZATION_FAILED" /\ next.review = op.snap.review
    BY <1>2 DEF PublicationFailed, Failed, Transition, Transitions, Moved, Issue
  <2>2. Complete(op.snap, next, None)
    BY <1>4 DEF NotPublished
  <2> HIDE DEF next
  <2> QED
    BY <1>1, <1>2, <2>1, <2>2, NoReview, UnboundHolds, GateCompletes DEF Unbound
<1> QED
  BY <1>3, <1>4

(* validateFinalizationRecovery *)
LEMMA JudgedGate ==
  ASSUME IInv, GateInv, op.pc \in {"validating", "binding"}, op.kind = "RECOVER_FINALIZATION",
         NEW next, NEW operation, Judged(next, operation),
         RowHolds(op.snap, accepted, published) => RowHolds(next, accepted, published)
  PROVE  GateInv'
<1>1. Claimed
  BY JudgingFacts
<1>2. Complete(op.snap, next, operation) /\ op'.pc \notin Publication /\ UNCHANGED history
  BY LeftPublication DEF Judged, OperationFrame
<1> QED
  BY <1>1, <1>2, GateCompletes

(* A recovery is judged. *)
LEMMA RecoveryGate ==
  ASSUME IInv, GateInv,
         \/ RecoveryUnchanged \/ RecoveryUnsafe
         \/ RecoveryDeliveryBound \/ RecoveryDeliveryNotBound
  PROVE  GateInv'
<1>1. op.pc \in {"validating", "binding"} /\ op.kind = "RECOVER_FINALIZATION"
  BY DEF RecoveryUnchanged, RecoveryUnsafe, RecoveryDeliveryBound, RecoveryDeliveryNotBound, At
<1>2. op.snap \in Issue /\ op.snap.status = "FINALIZATION_RECOVERY"
  BY <1>1, JudgingFacts
<1>3. RowHolds(op.snap, accepted, published)
        => /\ RowHolds(RecordRecoveryUnchanged(op.snap), accepted, published)
           /\ RowHolds(RecordRecoveryChanged(op.snap), accepted, published)
  BY <1>2, RecordRecoveryUnchangedHolds, RecordRecoveryChangedHolds
<1>4. RowHolds(op.snap, accepted, published)
        => RowHolds(RecordRecoveryUnsafe(op.snap), accepted, published)
  <2>1. RecordRecoveryUnsafe(op.snap).status \in Unbound
    BY <1>2, RecordRecoveryUnsafeAdvances DEF Unbound
  <2> QED
    BY <1>2, <2>1, FailureHolds DEF RecordRecoveryUnsafe
<1> QED
  BY <1>1, <1>3, <1>4, JudgedGate
  DEF RecoveryUnchanged, RecoveryUnsafe, RecoveryDeliveryBound, RecoveryDeliveryNotBound

(* Every step of the coordinator keeps the gate. *)
LEMMA WorkspaceNextGate == ASSUME IInv, GateInv, WorkspaceNext PROVE GateInv'
BY PrepareGate, FinalizeGate, PublishedGate, ReleasedGate, NotPublishedGate, RecoveryGate,
   PhaseGate
DEF WorkspaceNext
-----------------------------------------------------------------------------
(* RuntimeCommands, step by step.                                          *)

(* Only the acceptance of a delivery leads to its publication. *)
LEMMA AcceptanceChosen ==
  ASSUME NEW i \in Issue, NEW choice \in ReviewChoices(i)
  PROVE  \/ choice.resume \in {"ASSESSING", "REPAIRING", "CLOSED"}
         \/ choice.resume = "FINALIZING" /\ choice.id = "accept" /\ i.review = "delivery"
<1>1. CASE i.review = "assessment"
  <2>1. choice \in AssessmentChoices(i)
    BY <1>1 DEF ReviewChoices
  <2>2. \/ choice = Choice("implement", "REPAIRING", "REPAIR", None)
        \/ choice = Choice("not-a-bug", "CLOSED", None, "NOT_A_BUG")
        \/ choice = Choice("duplicate", "CLOSED", None, "DUPLICATE")
        \/ choice = Choice("reassess", "ASSESSING", "ASSESS", None)
    BY <2>1 DEF AssessmentChoices
  <2> QED
    BY <2>2 DEF Choice
<1>2. CASE i.review = "delivery"
  <2>1. choice \in DeliveryChoices(i)
    BY <1>2 DEF ReviewChoices
  <2> QED
    BY <1>2, <2>1 DEF DeliveryChoices, Choice
<1>3. CASE i.review = "business-merge-conflict"
  <2>1. choice \in BusinessChoices
    BY <1>3 DEF ReviewChoices
  <2> QED
    BY <2>1 DEF BusinessChoices, Choice
<1> QED
  BY <1>1, <1>2, <1>3 DEF ReviewChoices

(* A submitted review is closed; an accepted delivery is the one reviewed. *)
LEMMA SubmittedFields ==
  ASSUME NEW i \in Issue, NEW choice \in ReviewChoices(i)
  PROVE  /\ SubmitReview(i, choice).review = None
         /\ choice.id = "accept" /\ choice.resume = "FINALIZING" =>
              /\ SubmitReview(i, choice).iteration = i.iteration
              /\ SubmitReview(i, choice).delivery = i.delivery
<1> DEFINE m == Moved(i, choice.resume)
           selected == [m EXCEPT
             !.resolution = IF choice.resolution = None THEN @ ELSE choice.resolution,
             !.review = None, !.failure = NoFailure]
<1>1. m \in Issue /\ m.iteration = i.iteration /\ m.delivery = i.delivery
  BY ReviewChoicesFit, MovedAdvances DEF Advances, Moved, Issue
<1> HIDE DEF m
<1>2. /\ selected \in Issue /\ selected.review = None
      /\ selected.iteration = m.iteration /\ selected.delivery = m.delivery
  BY <1>1, ReviewChoicesFit, Cleared DEF Issue
<1>3. SubmitReview(i, choice) \in
           { selected,
             [selected EXCEPT !.iteration = @ + 1, !.retries = 0, !.draft = 0, !.delivery = 0],
             [selected EXCEPT !.assessment = NoAssessment],
             [selected EXCEPT !.iteration = @ + 1],
             [selected EXCEPT !.recovery = "ARMED"],
             [selected EXCEPT !.grants = {}, !.request = NoRequest, !.recovery = None] }
  BY DEF SubmitReview, selected, m
<1>4. ASSUME choice.id = "accept", choice.resume = "FINALIZING"
      PROVE  SubmitReview(i, choice) = [selected EXCEPT !.recovery = "ARMED"]
  BY <1>4 DEF SubmitReview, selected, m
<1> HIDE DEF selected
<1>5. SubmitReview(i, choice).review = None
  BY <1>2, <1>3 DEF Issue
<1>6. ASSUME choice.id = "accept", choice.resume = "FINALIZING"
      PROVE  /\ SubmitReview(i, choice).iteration = i.iteration
             /\ SubmitReview(i, choice).delivery = i.delivery
  BY <1>1, <1>2, <1>4, <1>6 DEF Issue
<1> QED
  BY <1>5, <1>6

(* submitReview: the human accepts the iteration whose evidence is shown. *)
LEMMA SubmitReviewedGate ==
  ASSUME IInv, GateInv, NEW choice \in ReviewChoices(issue), SubmitReviewed(choice)
  PROVE  GateInv'
<1> DEFINE next == SubmitReview(issue, choice)
<1>1. /\ issue \in Issue /\ issue.status = "REVIEW_REQUIRED" /\ issue' = next
      /\ UNCHANGED <<op, published>>
      /\ choice.id = "accept" => accepted' = issue.iteration
  BY DEF IInv, TypeOK, SubmitReviewed, CanReview, Store
<1>2. next.status = choice.resume /\ next.review = None
  BY <1>1, SubmitReviewAdvances, SubmittedFields
<1>3. CASE choice.resume \in {"ASSESSING", "REPAIRING", "CLOSED"}
  <2> HIDE DEF next
  <2>1. next.status \in Unbound
    BY <1>2, <1>3 DEF Unbound
  <2>2. RowHolds(next, accepted', published')
    BY <1>2, <2>1, UnboundHolds
  <2> QED
    BY <1>1, <2>2, GateCommanded
<1>4. CASE choice.resume = "FINALIZING" /\ choice.id = "accept" /\ issue.review = "delivery"
  <2>1. next.iteration = issue.iteration /\ next.delivery = issue.delivery
    BY <1>1, <1>4, SubmittedFields
  <2>2. issue.delivery = issue.iteration
    BY <1>4 DEF GateInv, RowHolds, AcceptedFits, Evidenced
  <2> HIDE DEF next
  <2>3. RowHolds(next, issue.iteration, published')
    BY <1>2, <1>4, <2>1, <2>2
    DEF RowHolds, AcceptedFits, DraftFits, Entrusted, Evidenced, Drafted, None
  <2> QED
    BY <1>1, <1>4, <2>3, GateCommanded
<1> QED
  BY <1>1, <1>3, <1>4, AcceptanceChosen

(* A command that puts an issue back to work of which nothing is demanded. *)
LEMMA UnboundGate ==
  ASSUME IInv, GateInv, NEW next, NEW operation, Queue(next, operation),
         issue.status \notin {"REVIEW_REQUIRED", "FINALIZING"},
         next.status \in Unbound, next.review = issue.review
  PROVE  GateInv'
<1>1. issue' = next /\ UNCHANGED <<op, history>>
  BY DEF Queue, Store
<1>2. next.review = None
  BY NoReview DEF GateInv
<1> QED
  BY <1>1, <1>2, UnboundHolds, GateCommanded

(* Evidence is made again for the same draft. *)
LEMMA RetryEvidenceHolds ==
  ASSUME NEW i \in Issue, NEW a, NEW p, RowHolds(i, a, p), i.status = "EVIDENCE_FAILED"
  PROVE  RowHolds(RetryEvidence(i), a, p)
<1> DEFINE next == RetryEvidence(i)
<1>1. next.status = "EVIDENCE_CAPTURE"
  BY RetryEvidenceAdvances
<1>2. next.review = i.review /\ next.iteration = i.iteration /\ next.draft = i.draft
  BY DEF RetryEvidence, Transition, Moved, Issue
<1> HIDE DEF next
<1>3. RowHolds(next, a, p)
  BY <1>1, <1>2, NoReview
  DEF RowHolds, AcceptedFits, DraftFits, Entrusted, Evidenced, Drafted, None
<1> QED
  BY <1>3 DEF next

(* retryIssue *)
LEMMA RetryGate == ASSUME IInv, GateInv, Retry PROVE GateInv'
<1>1. issue \in Issue
  BY DEF IInv, TypeOK
<1>2. CASE issue.status = "ASSESSMENT_FAILED" /\ Queue(RetryAssessment(issue), "ASSESS")
  <2>1. CanTransition(issue, "RETRY_ASSESSMENT")
    BY <1>2 DEF CanTransition, Transitions
  <2>2. RetryAssessment(issue).status \in Unbound
    BY <1>1, <2>1, RetryAssessmentAdvances DEF Unbound
  <2>3. RetryAssessment(issue).review = issue.review
    BY <1>1 DEF RetryAssessment, Transition, Moved, Issue
  <2> QED
    BY <1>2, <2>2, <2>3, UnboundGate
<1>3. CASE issue.status = "REPAIR_FAILED" /\ Queue(RetryRepair(issue), "REPAIR")
  <2>1. CanTransition(issue, "RETRY_REPAIR")
    BY <1>3 DEF CanTransition, Transitions
  <2>2. RetryRepair(issue).status \in Unbound
    BY <1>1, <2>1, RetryRepairAdvances DEF Unbound
  <2>3. RetryRepair(issue).review = issue.review
    BY <1>1 DEF RetryRepair, Transition, Moved, Issue
  <2> QED
    BY <1>3, <2>2, <2>3, UnboundGate
<1>4. CASE issue.status = "EVIDENCE_FAILED" /\ Queue(RetryEvidence(issue), "CAPTURE_EVIDENCE")
  <2>1. RowHolds(RetryEvidence(issue), accepted, published)
    BY <1>1, <1>4, RetryEvidenceHolds DEF GateInv
  <2>2. issue' = RetryEvidence(issue) /\ UNCHANGED <<op, history>>
    BY <1>4 DEF Queue, Store
  <2> QED
    BY <1>4, <2>1, <2>2, GateCommanded DEF history
<1> QED
  BY <1>2, <1>3, <1>4 DEF Retry

(* approveDelivery of an issue whose finalization failed *)
LEMMA RepairFinalizationGate == ASSUME IInv, GateInv, RepairFinalization PROVE GateInv'
<1> DEFINE next == RetryFinalizationAsRepair(issue)
<1>1. issue \in Issue /\ issue.status = "FINALIZATION_FAILED" /\ Queue(next, "REPAIR")
  BY DEF IInv, TypeOK, RepairFinalization, CanRepairFinalization
<1>2. next.status \in Unbound
  BY <1>1, RetryFinalizationAsRepairAdvances DEF Unbound
<1>3. next.review = issue.review
  BY <1>1 DEF RetryFinalizationAsRepair, ReopenedForRepair, Transition, Moved, Issue
<1> HIDE DEF next
<1> QED
  BY <1>1, <1>2, <1>3, UnboundGate

(* rebuildAgentSession *)
LEMMA RebuildAgentSessionGate == ASSUME IInv, GateInv, RebuildAgentSession PROVE GateInv'
<1> DEFINE next == ReplaceAgentSession(issue)
           operation == IF issue.status = "ASSESSMENT_FAILED" THEN "ASSESS" ELSE "REPAIR"
<1>1. issue \in Issue /\ CanReplaceAgentSession(issue) /\ Queue(next, operation)
  BY DEF IInv, TypeOK, RebuildAgentSession, CanRebuild
<1>2. issue.status \in {"ASSESSMENT_FAILED", "REPAIR_FAILED"}
  BY <1>1 DEF CanReplaceAgentSession
<1>3. next.status \in Unbound
  BY <1>1, ReplaceAgentSessionAdvances DEF Unbound
<1>4. next.review = issue.review
  BY <1>1 DEF ReplaceAgentSession, RetryAssessment, RetryRepair, Transition, Moved, Issue
<1> HIDE DEF next, operation
<1> QED
  BY <1>1, <1>2, <1>3, <1>4, UnboundGate

(* grantIssueCapabilities *)
LEMMA GrantCapabilitiesGate == ASSUME IInv, GateInv, GrantCapabilities PROVE GateInv'
<1> DEFINE next == GrantCapabilityRequest(issue)
           o == issue.request.operation
<1>1. issue \in Issue /\ issue.status = "PERMISSION_REQUIRED" /\ o # None
      /\ issue' = next /\ UNCHANGED <<op, history>>
  BY DEF IInv, TypeOK, GrantCapabilities, CanGrant, Queue, Store
<1>2. o \in AgentOperations /\ next.status = ResumeStatus[o]
  BY <1>1, GrantCapabilityRequestAdvances
<1>3. /\ next.review = issue.review /\ next.iteration = issue.iteration
      /\ next.draft = issue.draft /\ next.delivery = issue.delivery
  BY <1>1 DEF GrantCapabilityRequest, Moved, Issue
<1> HIDE DEF next
<1>4. RowHolds(next, accepted, published)
  BY <1>1, <1>2, <1>3, ResumedHolds DEF GateInv
<1> QED
  BY <1>1, <1>4, GateCommanded DEF history

(* resumeIssue *)
LEMMA ResumeIssueGate == ASSUME IInv, GateInv, ResumeIssue PROVE GateInv'
<1> DEFINE next == Resume(issue)
           o == issue.pause.operation
<1>1. issue \in Issue /\ issue.status = "PAUSED" /\ issue' = next /\ UNCHANGED <<op, history>>
  BY DEF IInv, TypeOK, ResumeIssue, CanResume, Queue, Store
<1>2. o \in AgentOperations
  BY <1>1 DEF IInv, RowFits
<1>3. next.status = ResumeStatus[o]
  BY <1>1, <1>2, ResumeAdvances
<1>4. /\ next.review = issue.review /\ next.iteration = issue.iteration
      /\ next.draft = issue.draft /\ next.delivery = issue.delivery
  BY <1>1 DEF Resume, Moved, Issue
<1> HIDE DEF next
<1>5. RowHolds(next, accepted, published)
  BY <1>1, <1>2, <1>3, <1>4, ResumedHolds DEF GateInv
<1> QED
  BY <1>1, <1>5, GateCommanded DEF history

(* An input that joins the issue, even while it is being published. *)
LEMMA AppendInputGate == ASSUME IInv, GateInv, AppendInput PROVE GateInv'
<1> DEFINE next == [issue EXCEPT !.revision = @ + 1]
<1>1. issue \in Issue /\ issue' = next /\ UNCHANGED <<op, history>>
  BY DEF IInv, TypeOK, AppendInput
<1>2. Alike(issue, next)
  BY <1>1 DEF Alike, Issue
<1> HIDE DEF next
<1>3. RowHolds(next, accepted, published)
  BY <1>2, AlikeHolds DEF GateInv
<1> QED
  BY <1>1, <1>2, <1>3 DEF GateInv, PublishingHolds, Alike, history

(* cancelIssue *)
LEMMA CancelIssueGate == ASSUME IInv, GateInv, CancelIssue PROVE GateInv'
<1>1. issue \in Issue /\ op \in Op /\ CanTransition(issue, "CANCEL")
      /\ issue' = Cancel(issue) /\ UNCHANGED history
  BY DEF IInv, TypeOK, CancelIssue, Store
<1>2. Cancel(issue).status = "CANCELED" /\ Cancel(issue).review = None
  <2>1. [Transition(issue, "CANCEL") EXCEPT !.resolution = "CANCELED"].status
          = Transition(issue, "CANCEL").status
    BY <1>1 DEF Transition, Moved, Issue
  <2>2. Cancel(issue).review = None
    BY <1>1 DEF Cancel, Ended, Transition, Moved, Issue
  <2> QED
    BY <1>1, <2>2, CancelAdvances
<1>3. issue.status # "FINALIZING"
  BY <1>1 DEF CanTransition, Transitions
<1>4. op'.pc = op.pc
  <2>1. "USER_CANCELED" \in Interruptions
    BY DEF Interruptions
  <2> QED
    BY <1>1, <2>1, InterruptedKeeps DEF CancelIssue
<1> QED
  BY <1>1, <1>2, <1>3, <1>4, UnboundHolds, GateCommanded DEF Unbound

(* pauseIssue, up to its first await *)
LEMMA PauseIssueGate == ASSUME IInv, GateInv, PauseIssue PROVE GateInv'
<1>1. issue \in Issue /\ op \in Op /\ CanTransition(issue, "PAUSE")
      /\ issue' = Pause(issue) /\ UNCHANGED history
  BY DEF IInv, TypeOK, PauseIssue, Store
<1>2. RowHolds(Pause(issue), accepted, published)
  BY <1>1, PauseHolds DEF GateInv
<1>3. issue.status # "FINALIZING"
  BY <1>1 DEF CanTransition, Transitions
<1>4. op'.pc = op.pc
  <2> DEFINE o == IF issue.session THEN Interrupted(op, "USER_PAUSED") ELSE op
  <2>1. "USER_PAUSED" \in Interruptions
    BY DEF Interruptions
  <2>2. o \in Op /\ o.pc = op.pc
    BY <1>1, <2>1, InterruptedKeeps
  <2>3. op' = op \/ op' = [o EXCEPT !.aborted = TRUE]
    BY DEF PauseIssue
  <2> HIDE DEF o
  <2> QED
    BY <2>2, <2>3 DEF Op
<1> QED
  BY <1>1, <1>2, <1>3, <1>4, GateCommanded DEF history

(* Every command keeps the gate. *)
LEMMA CommandNextGate == ASSUME IInv, GateInv, CommandNext PROVE GateInv'
BY SubmitReviewedGate, RetryGate, RepairFinalizationGate, RebuildAgentSessionGate,
   GrantCapabilitiesGate, AppendInputGate, CancelIssueGate, PauseIssueGate, ResumeIssueGate
DEF CommandNext

(* markPauseReady keeps what the pause interrupted. *)
LEMMA PauserNextGate == ASSUME IInv, GateInv, PauserNext PROVE GateInv'
<1> DEFINE next == CompleteIssuePause(issue)
<1>1. issue \in Issue /\ UNCHANGED <<op, history>>
  BY DEF IInv, TypeOK, PauserNext, PauseCanceled, PauseNotCanceled, PauseSettled, PauserFrame
<1>2. CASE UNCHANGED issue
  BY <1>1, <1>2, GateUnmoved
<1>3. CASE issue.status = "PAUSED" /\ issue' = next
  <2>1. issue.pause \in PauseContext
    BY <1>1 DEF Issue
  <2>2. next.pause.operation = issue.pause.operation
    BY <1>1, <2>1 DEF CompleteIssuePause, Issue, PauseContext
  <2>3. Alike(issue, next)
    BY <1>1, <2>2 DEF CompleteIssuePause, Alike, Issue
  <2> HIDE DEF next
  <2> QED
    BY <1>1, <1>3, <2>3, AlikeHolds, GateCommanded DEF GateInv, history
<1> QED
  BY <1>2, <1>3
  DEF PauserNext, PauseCanceled, PauseNotCanceled, PauseSettled, MarksReady, Store

-----------------------------------------------------------------------------
(* The life of the process.                                                *)

(* reconcileWorkspaceIssues *)
LEMMA RecoverWorkspacesGate == ASSUME IInv, GateInv, RecoverWorkspaces PROVE GateInv'
<1> DEFINE pathed == [issue EXCEPT !.path = TRUE, !.revision = @ + 1]
<1>1. issue \in Issue /\ UNCHANGED <<op, history>> /\ op.pc \notin Publication
  BY DEF IInv, TypeOK, DownIsIdle, RecoverWorkspaces, NoOp, Publication
<1>2. issue' = issue \/ issue' = pathed
  BY DEF RecoverWorkspaces, RestoredBinding, FailedRecovery, Store
<1>3. Alike(issue, pathed)
  BY <1>1 DEF Alike, Issue
<1> HIDE DEF pathed
<1> QED
  BY <1>1, <1>2, <1>3, AlikeHolds, GateStored DEF GateInv, history

(* reconcileInterruptedIssues, the legacy migration included *)
LEMMA ReconcileInterruptedGate == ASSUME IInv, GateInv, ReconcileInterrupted PROVE GateInv'
<1> DEFINE counted == [issue EXCEPT !.revision = @ + 1]
<1>1. issue \in Issue /\ UNCHANGED <<op, history>> /\ op.pc \notin Publication
  BY DEF IInv, TypeOK, DownIsIdle, ReconcileInterrupted, NoOp, Publication
<1>2. issue' = issue \/ issue' = counted
      \/ (LegacyFailure(issue) /\ issue' = MigratedFailure(issue))
  BY DEF ReconcileInterrupted, Reconciled, Store
<1>3. Alike(issue, counted)
  BY <1>1 DEF Alike, Issue
<1>4. LegacyFailure(issue) => RowHolds(MigratedFailure(issue), accepted, published)
  BY <1>1, MigratedFailureHolds DEF GateInv
<1> HIDE DEF counted
<1> QED
  BY <1>1, <1>2, <1>3, <1>4, AlikeHolds, GateStored DEF GateInv, history

(* Every step of the process's life keeps the gate. *)
LEMMA StartNextGate == ASSUME IInv, GateInv, StartNext PROVE GateInv'
<1>1. CASE Stop
  BY <1>1, GateUnmoved DEF Stop, durable
<1>2. CASE CancelAgents
  <2>1. op \in Op /\ "RUNTIME_STOPPING" \in Interruptions
    BY DEF IInv, TypeOK, Interruptions
  <2>2. op'.pc = op.pc /\ op'.snap = op.snap
    BY <1>2, <2>1, InterruptedKeeps DEF CancelAgents
  <2> QED
    BY <1>2, <2>2, GateUnmoved DEF CancelAgents, durable
<1>3. CASE Stopped \/ Crash
  <2>1. UNCHANGED <<issue, history>> /\ op'.pc \notin Publication
    BY <1>3 DEF Stopped, Crash, ProcessEnds, NoOp, Publication, durable
  <2> QED
    BY <2>1, GateKept
<1> QED
  BY <1>1, <1>2, <1>3, RecoverWorkspacesGate, ReconcileInterruptedGate
  DEF StartNext, LifecycleNext

-----------------------------------------------------------------------------
(* The theorems.                                                           *)

(* The rows the model starts from hold. *)
LEMMA InitGate == ASSUME Init PROVE GateInv
<1>1. op.pc \notin Publication /\ published = 0
  BY DEF Init, NoOp, Publication
<1>2. NewIssue \in Issue
  BY NoOpType
<1>3. CASE CreatedRow
  BY <1>1, <1>3, UnboundHolds DEF CreatedRow, NewIssue, Unbound, GateInv, PublishingHolds
<1>4. CASE UnboundRow
  <2>1. issue.status = "REPAIRING" /\ issue.review = None
    BY <1>4 DEF UnboundRow, RepairedIssue, NewIssue
  <2> QED
    BY <1>1, <2>1, UnboundHolds DEF Unbound, GateInv, PublishingHolds
<1>5. CASE RecoveringRow
  <2>1. /\ issue.status = "FINALIZATION_RECOVERY" /\ issue.review = None
        /\ issue.iteration = 1 /\ issue.delivery = 1 /\ accepted = 1
    BY <1>5 DEF RecoveringRow, RepairedIssue, NewIssue
  <2>2. RowHolds(issue, accepted, published)
    BY <2>1 DEF RowHolds, AcceptedFits, DraftFits, Entrusted, Evidenced, Drafted, None
  <2> QED
    BY <1>1, <2>2 DEF GateInv, PublishingHolds
<1> QED
  BY <1>3, <1>4, <1>5 DEF Init

(* Every step, and every stutter. *)
LEMMA NextGate == ASSUME IInv, GateInv, [Next]_vars PROVE GateInv'
<1>1. CASE Next
  BY <1>1, WorkerNextGate, WorkspaceNextGate, StartNextGate, CommandNextGate, PauserNextGate
  DEF Next, OperationNext
<1>2. CASE UNCHANGED vars
  BY <1>2, GateUnmoved DEF vars, durable
<1> QED
  BY <1>1, <1>2

(* The gate's invariant holds of every reachable state. *)
THEOREM GateInvariance == Spec => []GateInv
<1>1. Init => GateInv
  BY InitGate
<1>2. IInv /\ GateInv /\ [Next]_vars => GateInv'
  BY NextGate
<1> QED
  BY <1>1, <1>2, Invariance, PTL DEF Spec

(* Nothing is published, and no issue completed, whose current iteration a *)
(* human has not accepted with that iteration's evidence: not after a      *)
(* pause, a crash, a failed publication, an input that joins the issue     *)
(* meanwhile or a finalization recovery.                                   *)
THEOREM HumanGated == Spec => []HumanGate
<1>1. GateInv => HumanGate
  BY DEF GateInv, RowHolds, AcceptedFits, Entrusted, Evidenced, PublishingHolds, Publication,
     HumanGate
<1> QED
  BY <1>1, GateInvariance, PTL

(* Where no intake can fail, so that the legacy migration never applies,   *)
(* evidence is made, checked and shown for the iteration implemented last. *)
THEOREM EvidenceIsCurrent ==
  ASSUME "intake" \notin Faults
  PROVE  Spec => []EvidenceOfThisIteration
<1>1. GateInv => EvidenceOfThisIteration
  BY DEF GateInv, RowHolds, AcceptedFits, DraftFits, Drafted, Entrusted, Evidenced,
     EvidenceOfThisIteration
<1> QED
  BY <1>1, GateInvariance, PTL
=============================================================================
