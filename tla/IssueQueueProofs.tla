-------------------------- MODULE IssueQueueProofs --------------------------
(***************************************************************************)
(* The queue of pending operations: what is queued can be performed        *)
(* (PendingFits, with every fault) and what waits for the Runtime is       *)
(* queued or running (NotStranded, where no input joins an issue at work   *)
(* and neither a clean-up nor the recovery of a workspace fails).          *)
(*                                                                         *)
(* QueueInv is inductive on top of IInv.  It says what a row carries in    *)
(* each status, so that the stage the status stands for finds it.  With    *)
(* OfferInv, what the row carries for the human, it shows that the window  *)
(* offers what the Runtime takes (OffersAreHonoured).                      *)
(***************************************************************************)
EXTENDS IssueRuntimeProofs, IssueOffers

-----------------------------------------------------------------------------
(* What a row carries.                                                     *)

(* The issue is in one of the statuses, or is taken back to the one of the *)
(* operation when it is resumed or its request granted.                    *)
Toward(i, statuses, operation) ==
  \/ i.status \in statuses
  \/ i.status = "PAUSED" /\ i.pause.operation = operation
  \/ i.status = "PERMISSION_REQUIRED" /\ i.request.operation = operation

(* It need not have been assessed.                                         *)
Unassessed(i) ==
  Toward(i, Terminal \cup {"RECEIVED", "ASSESSING", "ASSESSMENT_FAILED"}, "ASSESS")

(* Its repair need not have begun. *)
Unrepaired(i) == Unassessed(i) \/ (i.status = "REVIEW_REQUIRED" /\ i.review = "assessment")

Assessed(i) == i.session /\ i.assessment # NoAssessment

Equipped(i) ==
  /\ i.status \notin Terminal \cup {"RECEIVED"} => i.path
  /\ ~Unassessed(i) => Assessed(i)
  /\ ~Unrepaired(i) => i.iteration > 0
  /\ Toward(i, {"EVIDENCE_CAPTURE", "EVIDENCE_CHECK", "EVIDENCE_FAILED"}, "CAPTURE_EVIDENCE")
       => i.draft > 0
  /\ i.status = "EVIDENCE_CHECK" => i.delivery > 0

(* A queued operation finds its status; what it needs besides is carried.  *)
Queued(i, operation) ==
  /\ operation = "PREPARE" => i.status = "RECEIVED" /\ ~i.path
  /\ operation = "ASSESS" => i.status \in {"RECEIVED", "ASSESSING"} /\ i.path
  /\ operation = "REPAIR" => i.status = "REPAIRING"
  /\ operation = "CAPTURE_EVIDENCE" => i.status = "EVIDENCE_CAPTURE"
  /\ operation = "EVIDENCE" => i.status = "EVIDENCE_CHECK"
  /\ operation = "FINALIZE" => i.status = "FINALIZING"
  /\ operation = "RECOVER_FINALIZATION" => i.status = "FINALIZATION_RECOVERY"

(* The statuses an operation is started in.                                *)
Working ==
  {"RECEIVED", "ASSESSING", "REPAIRING", "EVIDENCE_CAPTURE", "EVIDENCE_CHECK", "FINALIZING",
   "FINALIZATION_RECOVERY"}

(* What an operation that waits for its session, or for its workspace, has *)
(* found, and that an assessing Agent has a session.                       *)
Equipping ==
  /\ Claimed => op.snap.status \in Working
  /\ op.pc = "acquiring" => op.snap.status = "RECEIVED"
  /\ op.pc = "creating" => op.snap.status \in {"RECEIVED", "ASSESSING"} /\ issue.path
  /\ op.kind = "ASSESS" /\ op.pc \in Turning => op.snap.session

-----------------------------------------------------------------------------
(* Who serves an issue.                                                    *)

(* The Runtime has the next move, the status of the binding being b.       *)
Waits(i, b) == i.status \in Working /\ (i.status = "RECEIVED" => b # "FAILED")

(* Without the faults that end an operation and leave nothing to follow it: *)
(* its issue has changed under it, its clean-up rejects, or its workspace   *)
(* is not found again.                                                      *)
Dependable == Faults \cap {"input", "cleanup", "provider"} = {}

Served ==
  /\ asleep \/ (Active /\ op.aborted) \/ op.pc = "unwinding" => issue.status \in Halted
  /\ Claimed => Current(op.snap) \/ issue.status \in Halted
  /\ mode = "up" /\ Waits(issue, binding) => pending # None \/ Claimed
  /\ /\ mode = "recovered"
     /\ issue.status \in {"RECEIVED", "FINALIZING", "FINALIZATION_RECOVERY"}
     /\ Waits(issue, binding)
     => pending # None

QueueInv ==
  /\ Equipped(issue)
  /\ Queued(issue, pending)
  /\ Equipping
  /\ Dependable => Served

-----------------------------------------------------------------------------
(* The recorders leave a row that carries what its status needs, with the  *)
(* operation that serves it.                                               *)

Fit(i, operation, b) ==
  Equipped(i) /\ Queued(i, operation) /\ (Waits(i, b) => operation # None)

(* What is not needed any more, and what the human has to take further. *)
LEMMA TerminalFits ==
  ASSUME NEW i, NEW b, i.status \in Terminal
  PROVE  Fit(i, None, b)
BY DEF Fit, Equipped, Queued, Waits, Working, Toward, Unassessed, Unrepaired, Terminal, None

(* The record of the repair is kept. *)
SameRepair(i, j) ==
  /\ j.path = i.path /\ j.session = i.session /\ j.assessment = i.assessment
  /\ j.iteration = i.iteration /\ j.draft = i.draft

(* A transition keeps it. *)
LEMMA TransitionKeeps ==
  ASSUME NEW i \in Issue, NEW action
  PROVE  /\ SameRepair(i, Transition(i, action))
         /\ Transition(i, action).delivery = i.delivery
BY DEF SameRepair, Transition, Moved, Issue

(* A failed stage keeps what it was given. *)
LEMMA FailureFits ==
  ASSUME NEW i \in Issue, NEW b, Equipped(i), NEW action, NEW stage, NEW code,
         Failed(i, action, stage, code).status = Target[action],
         \/ i.status \in {"RECEIVED", "ASSESSING"} /\ action = "ASSESSMENT_ERRORED" /\ i.path
         \/ i.status = "REPAIRING" /\ action = "REPAIR_ERRORED"
         \/ /\ i.status \in {"EVIDENCE_CAPTURE", "EVIDENCE_CHECK"}
            /\ action = "EVIDENCE_ERRORED"
         \/ i.status = "FINALIZING" /\ action = "FINALIZATION_ERRORED"
         \/ i.status = "FINALIZATION_RECOVERY" /\ action = "FINALIZATION_RECOVERY_ERRORED"
  PROVE  Fit(Failed(i, action, stage, code), None, b)
<1> DEFINE n == Failed(i, action, stage, code)
<1>1. SameRepair(i, n)
  BY DEF SameRepair, Failed, Transition, Moved, Issue
<1>2. \/ i.status \in {"RECEIVED", "ASSESSING"} /\ n.status = "ASSESSMENT_FAILED" /\ i.path
      \/ i.status = "REPAIRING" /\ n.status = "REPAIR_FAILED"
      \/ i.status \in {"EVIDENCE_CAPTURE", "EVIDENCE_CHECK"} /\ n.status = "EVIDENCE_FAILED"
      \/ /\ i.status \in {"FINALIZING", "FINALIZATION_RECOVERY"}
         /\ n.status = "FINALIZATION_FAILED"
  BY DEF Target
<1> HIDE DEF n
<1>3. Equipped(n)
  BY <1>1, <1>2 DEF SameRepair, Equipped, Toward, Unassessed, Unrepaired, Assessed, Terminal
<1>4. Fit(n, None, b)
  BY <1>2, <1>3 DEF Fit, Queued, Waits, Working, None
<1> QED
  BY <1>4 DEF n

(* recordDelivery: evidence of an iteration there is. *)
LEMMA RecordDeliveryFits ==
  ASSUME NEW i \in Issue, NEW b, Equipped(i), i.status = "EVIDENCE_CAPTURE"
  PROVE  Fit(RecordDelivery(i), "EVIDENCE", b)
<1> DEFINE n == RecordDelivery(i)
<1>1. n.status = "EVIDENCE_CHECK"
  BY RecordDeliveryAdvances
<1>2. SameRepair(i, n) /\ n.delivery = i.iteration
  BY DEF SameRepair, RecordDelivery, Transition, Moved, Issue
<1> HIDE DEF n
<1>3. Fit(n, "EVIDENCE", b)
  BY <1>1, <1>2
  DEF Fit, SameRepair, Equipped, Toward, Unassessed, Unrepaired, Assessed, Terminal, Queued, None
<1> QED
  BY <1>3 DEF n

(* recordImplementationDraft: the draft of an iteration there is. *)
LEMMA RecordImplementationDraftFits ==
  ASSUME NEW i \in Issue, NEW b, Equipped(i), i.status = "REPAIRING"
  PROVE  Fit(RecordImplementationDraft(i), "CAPTURE_EVIDENCE", b)
<1> DEFINE n == RecordImplementationDraft(i)
<1>1. n.status = "EVIDENCE_CAPTURE"
  BY RecordImplementationDraftAdvances
<1>2. /\ n.path = i.path /\ n.session = i.session /\ n.assessment = i.assessment
      /\ n.iteration = i.iteration /\ n.draft = i.iteration
  BY DEF RecordImplementationDraft, Transition, Moved, Issue
<1> HIDE DEF n
<1>3. Fit(n, "CAPTURE_EVIDENCE", b)
  BY <1>1, <1>2
  DEF Fit, Equipped, Toward, Unassessed, Unrepaired, Assessed, Terminal, Queued, None
<1> QED
  BY <1>3 DEF n

(* queueEvidenceCapture, with retries left *)
LEMMA RequeuedCaptureFits ==
  ASSUME NEW i \in Issue, NEW b, Equipped(i), i.status \in {"EVIDENCE_CAPTURE", "EVIDENCE_CHECK"}
  PROVE  Fit(RequeuedCapture(i), "CAPTURE_EVIDENCE", b)
<1> DEFINE n == RequeuedCapture(i)
           base == IF i.status = "EVIDENCE_CHECK" THEN RecordEvidenceRejection(i) ELSE i
<1>1. n.status = "EVIDENCE_CAPTURE"
  BY RequeuedCaptureAdvances
<1>2. base \in Issue
  BY RecordEvidenceRejectionAdvances DEF Advances
<1>3. SameRepair(i, base)
  BY DEF SameRepair, RecordEvidenceRejection, Transition, Moved, Issue
<1>4. SameRepair(base, n)
  <2> HIDE DEF base
  <2>1. n = [base EXCEPT !.retries = i.retries + 1, !.delivery = 0,
                         !.failure = NoFailure, !.revision = i.revision + 1]
    BY DEF RequeuedCapture, base
  <2> HIDE DEF n
  <2> QED
    BY <1>2, <2>1 DEF SameRepair, Issue
<1> HIDE DEF n, base
<1>5. Fit(n, "CAPTURE_EVIDENCE", b)
  BY <1>1, <1>3, <1>4
  DEF Fit, SameRepair, Equipped, Toward, Unassessed, Unrepaired, Assessed, Terminal, Queued, None
<1> QED
  BY <1>5 DEF n

(* An assessment is recorded and shown: the Agent's is one. *)
LEMMA AssessmentFits ==
  ASSUME NEW i \in Issue, NEW b, Equipped(i), i.status = "ASSESSING", i.session,
         NEW a \in Assessment
  PROVE  Fit(RequestReview(RecordAssessment(i, a), "assessment"), None, b)
<1> DEFINE r == RecordAssessment(i, a)
           n == RequestReview(r, "assessment")
<1>1. r \in Issue
  BY RecordAssessmentAdvances DEF Advances
<1>2. n.status = "REVIEW_REQUIRED"
  BY <1>1, RequestReviewAdvances DEF Reviews
<1>3. r.path = i.path /\ r.session = i.session /\ r.assessment = a
  BY DEF RecordAssessment, Transition, Moved, Issue
<1>4. a # NoAssessment
  BY DEF Assessment, NoAssessment, Verdicts, None
<1> HIDE DEF r
<1>5. /\ n.path = r.path /\ n.session = r.session /\ n.assessment = r.assessment
      /\ n.review = "assessment"
  BY <1>1 DEF RequestReview, Moved, Issue
<1> HIDE DEF n
<1>6. Fit(n, None, b)
  BY <1>2, <1>3, <1>4, <1>5
  DEF Fit, Equipped, Toward, Unassessed, Unrepaired, Assessed, Terminal, Queued, Waits, Working,
      None
<1> QED
  BY <1>6 DEF n, r

(* A review of a repair, of its delivery or of a conflict it has found. *)
LEMMA RequestReviewFits ==
  ASSUME NEW i \in Issue, NEW b, Equipped(i), NEW kind \in Reviews,
         i.status \in {"REPAIRING", "EVIDENCE_CHECK"}
  PROVE  Fit(RequestReview(i, kind), None, b)
<1> DEFINE n == RequestReview(i, kind)
<1>1. n.status = "REVIEW_REQUIRED"
  BY RequestReviewAdvances
<1>2. SameRepair(i, n)
  BY DEF SameRepair, RequestReview, Moved, Issue
<1> HIDE DEF n
<1>3. Fit(n, None, b)
  BY <1>1, <1>2
  DEF Fit, SameRepair, Equipped, Toward, Unassessed, Unrepaired, Assessed, Terminal, Queued,
      Waits, Working, None
<1> QED
  BY <1>3 DEF n

(* recordEvidenceAcceptance, and the review of the delivery. *)
LEMMA AcceptedEvidenceFits ==
  ASSUME NEW i \in Issue, NEW b, Equipped(i), i.status = "EVIDENCE_CHECK"
  PROVE  Fit(RequestReview(RecordEvidenceAcceptance(i), "delivery"), None, b)
<1> DEFINE r == RecordEvidenceAcceptance(i)
<1>1. CanTransition(i, "EVIDENCE_ACCEPTED")
  BY DEF CanTransition, Transitions
<1>2. r \in Issue /\ r.status = "EVIDENCE_CHECK"
  BY <1>1, TransitionAdvances DEF RecordEvidenceAcceptance, Target, Advances
<1>3. SameRepair(i, r) /\ r.delivery = i.delivery
  BY TransitionKeeps DEF RecordEvidenceAcceptance
<1> HIDE DEF r
<1>4. Equipped(r)
  BY <1>2, <1>3 DEF SameRepair, Equipped, Toward, Unassessed, Unrepaired, Assessed, Terminal
<1>5. Fit(RequestReview(r, "delivery"), None, b)
  BY <1>2, <1>4, RequestReviewFits DEF Reviews
<1> QED
  BY <1>5 DEF r

(* What the operation of a request, or of a pause, needs. *)
ServesStatus(operation) ==
  CASE operation = "ASSESS" -> {"ASSESSING"}
    [] operation = "REPAIR" -> {"REPAIRING"}
    [] operation = "CAPTURE_EVIDENCE" -> {"EVIDENCE_CAPTURE"}
    [] OTHER -> {"FINALIZATION_RECOVERY"}

(* pauseForCapability keeps it for the operation that asked. *)
LEMMA RecordCapabilityRequestFits ==
  ASSUME NEW i \in Issue, NEW b, Equipped(i), NEW o \in AgentOperations,
         i.status \in ServesStatus(o), NEW c \in SUBSET Capabilities
  PROVE  Fit(RecordCapabilityRequest(i, o, c), None, b)
<1> DEFINE n == RecordCapabilityRequest(i, o, c)
<1>1. n.status = "PERMISSION_REQUIRED"
  BY RecordCapabilityRequestAdvances
<1>2. SameRepair(i, n) /\ n.request.operation = o
  BY DEF SameRepair, RecordCapabilityRequest, Moved, Issue
<1> HIDE DEF n
<1>3. o \in {"ASSESS", "REPAIR", "CAPTURE_EVIDENCE", "RECOVER_FINALIZATION"}
  BY DEF AgentOperations, ResumeStatus
<1>4. Equipped(n)
  BY <1>1, <1>2, <1>3
  DEF SameRepair, Equipped, Toward, Unassessed, Unrepaired, Assessed, Terminal, ServesStatus
<1>5. Fit(n, None, b)
  BY <1>1, <1>4 DEF Fit, Queued, Waits, Working, None
<1> QED
  BY <1>5 DEF n

(* The operation is taken up again, in its own status. *)
LEMMA ResumedFits ==
  ASSUME NEW i \in Issue, NEW b, Equipped(i), NEW o \in AgentOperations, NEW n,
         \/ i.status = "PAUSED" /\ i.pause.operation = o
         \/ i.status = "PERMISSION_REQUIRED" /\ i.request.operation = o,
         n.status = ResumeStatus[o], SameRepair(i, n)
  PROVE  Fit(n, o, b)
<1>1. o \in {"ASSESS", "REPAIR", "CAPTURE_EVIDENCE", "RECOVER_FINALIZATION"}
  BY DEF AgentOperations, ResumeStatus
<1>2. \/ o = "ASSESS" /\ n.status = "ASSESSING"
      \/ o = "REPAIR" /\ n.status = "REPAIRING"
      \/ o = "CAPTURE_EVIDENCE" /\ n.status = "EVIDENCE_CAPTURE"
      \/ o = "RECOVER_FINALIZATION" /\ n.status = "FINALIZATION_RECOVERY"
  BY <1>1 DEF ResumeStatus
<1>3. Equipped(n)
  BY <1>2 DEF SameRepair, Equipped, Toward, Unassessed, Unrepaired, Assessed, Terminal
<1> QED
  BY <1>2, <1>3 DEF Fit, Queued, Waits, Equipped, Terminal, None

(* pauseIssue keeps it for the operation that is resumed. *)
LEMMA PauseFits ==
  ASSUME NEW i \in Issue, NEW b, Equipped(i), CanTransition(i, "PAUSE")
  PROVE  Fit(Pause(i), None, b) /\ Pause(i).path = i.path
<1> DEFINE t == Transition(i, "PAUSE")
           n == Pause(i)
<1>1. i.status \in {"ASSESSING", "REPAIRING", "EVIDENCE_CAPTURE", "FINALIZATION_RECOVERY"}
  BY DEF CanTransition, Issue, Statuses, Transitions
<1>2. n.status = "PAUSED"
  BY PauseAdvances
<1>3. t \in Issue /\ SameRepair(i, t)
  BY TransitionAdvances, TransitionKeeps DEF Advances
<1> HIDE DEF t
<1>4. n = [t EXCEPT !.pause = [operation |-> PauseByStatus[i.status], ready |-> FALSE,
                               at |-> i.revision + 1]]
  BY DEF Pause, t
<1> HIDE DEF n
<1>5. SameRepair(t, n) /\ n.pause.operation = PauseByStatus[i.status]
  BY <1>3, <1>4 DEF SameRepair, Issue
<1>6. \/ i.status = "ASSESSING" /\ n.pause.operation = "ASSESS"
      \/ i.status = "REPAIRING" /\ n.pause.operation = "REPAIR"
      \/ i.status = "EVIDENCE_CAPTURE" /\ n.pause.operation = "CAPTURE_EVIDENCE"
      \/ i.status = "FINALIZATION_RECOVERY" /\ n.pause.operation = "RECOVER_FINALIZATION"
  BY <1>1, <1>5 DEF PauseByStatus
<1>7. Equipped(n)
  BY <1>2, <1>3, <1>5, <1>6
  DEF SameRepair, Equipped, Toward, Unassessed, Unrepaired, Assessed, Terminal
<1>8. Fit(n, None, b) /\ n.path = i.path
  BY <1>2, <1>3, <1>5, <1>7 DEF Fit, Queued, Waits, Working, None, SameRepair
<1> QED
  BY <1>8 DEF n

(* A recovery that changed nothing is published again. *)
LEMMA RecordRecoveryUnchangedFits ==
  ASSUME NEW i \in Issue, NEW b, Equipped(i), i.status = "FINALIZATION_RECOVERY"
  PROVE  Fit(RecordRecoveryUnchanged(i), "FINALIZE", b)
<1> DEFINE n == RecordRecoveryUnchanged(i)
<1>1. n.status = "FINALIZING"
  BY RecordRecoveryUnchangedAdvances
<1>2. SameRepair(i, n)
  BY DEF SameRepair, RecordRecoveryUnchanged, Transition, Moved, Issue
<1> HIDE DEF n
<1>3. Fit(n, "FINALIZE", b)
  BY <1>1, <1>2
  DEF Fit, SameRepair, Equipped, Toward, Unassessed, Unrepaired, Assessed, Terminal, Queued, None
<1> QED
  BY <1>3 DEF n

(* One that did is the draft of a new iteration. *)
LEMMA RecordRecoveryChangedFits ==
  ASSUME NEW i \in Issue, NEW b, Equipped(i), i.status = "FINALIZATION_RECOVERY"
  PROVE  Fit(RecordRecoveryChanged(i), "CAPTURE_EVIDENCE", b)
<1> DEFINE t == Transition(i, "FINALIZATION_RECOVERY_CHANGED_DELIVERY")
           n == RecordRecoveryChanged(i)
<1>1. n.status = "EVIDENCE_CAPTURE"
  BY RecordRecoveryChangedAdvances
<1>2. t \in Issue /\ SameRepair(i, t)
  <2>1. CanTransition(i, "FINALIZATION_RECOVERY_CHANGED_DELIVERY")
    BY DEF CanTransition, Transitions
  <2> QED
    BY <2>1, TransitionAdvances, TransitionKeeps DEF Advances
<1> HIDE DEF t
<1>3. /\ n.path = t.path /\ n.session = t.session /\ n.assessment = t.assessment
      /\ n.iteration = t.iteration + 1 /\ n.draft = i.iteration + 1
  BY <1>2 DEF RecordRecoveryChanged, t, Issue
<1>4. i.iteration \in Nat
  BY DEF Issue
<1> HIDE DEF n
<1>5. Fit(n, "CAPTURE_EVIDENCE", b)
  BY <1>1, <1>2, <1>3, <1>4
  DEF Fit, SameRepair, Equipped, Toward, Unassessed, Unrepaired, Assessed, Terminal, Queued, None
<1> QED
  BY <1>5 DEF n

(* A new iteration of a repair there has been. *)
LEMMA ReopenedFits ==
  ASSUME NEW i \in Issue, NEW b, Equipped(i),
         i.status \in {"FINALIZING", "FINALIZATION_FAILED"}, NEW action,
         CanTransition(i, action), Target[action] = "REPAIRING"
  PROVE  /\ Fit(ReopenedForRepair(i, action), "REPAIR", b)
         /\ ReopenedForRepair(i, action).path = i.path
<1> DEFINE t == Transition(i, action)
           n == ReopenedForRepair(i, action)
<1>1. n.status = "REPAIRING"
  BY ReopenedForRepairAdvances
<1>2. t \in Issue /\ SameRepair(i, t)
  BY TransitionAdvances, TransitionKeeps DEF Advances
<1> HIDE DEF t
<1>3. /\ n.path = t.path /\ n.session = t.session /\ n.assessment = t.assessment
      /\ n.iteration = t.iteration + 1
  BY <1>2 DEF ReopenedForRepair, t, Issue
<1>4. i.iteration \in Nat
  BY DEF Issue
<1> HIDE DEF n
<1>5. Fit(n, "REPAIR", b) /\ n.path = i.path
  BY <1>1, <1>2, <1>3, <1>4
  DEF Fit, SameRepair, Equipped, Toward, Unassessed, Unrepaired, Assessed, Terminal, Queued, None
<1> QED
  BY <1>5 DEF n

-----------------------------------------------------------------------------
(* How a step may end, begin or carry on an operation.                     *)

(* The facts every step starts from. *)
LEMMA QueueFacts ==
  ASSUME IInv, QueueInv
  PROVE  /\ TypeOK /\ issue \in Issue /\ op \in Op /\ op.snap \in Issue
         /\ Equipped(issue) /\ Queued(issue, pending)
         /\ mode \in {"down", "recovered"} => op = NoOp /\ ~Active /\ ~Claimed
BY DEF IInv, TypeOK, Op, QueueInv, DownIsIdle, NoOp, Active, Claimed

(* The operation is over, or all but its clean-up is. *)
LEMMA OperationEnds ==
  ASSUME \/ Settle \/ Reject \/ CleanUp("cleanup") \/ CleanUp("unwinding"),
         Equipped(issue'), Queued(issue', pending'),
         mode' = mode, mode \notin {"down", "recovered"},
         Dependable => /\ asleep' \/ op'.pc = "unwinding" => issue'.status \in Halted
                       /\ mode = "up" /\ Waits(issue', binding') => pending' # None
  PROVE  QueueInv'
<1>1. /\ op'.pc \in {"idle", "cleanup", "unwinding"} /\ op'.aborted = FALSE
      /\ op'.kind = None
  BY DEF Settle, Reject, CleanUp, NoOp
<1>2. Equipping'
  BY <1>1 DEF Equipping, Claimed, Turning, None
<1>3. Dependable => Served'
  BY <1>1 DEF Served, Claimed, Active
<1> QED
  BY <1>2, <1>3 DEF QueueInv, Dependable

(* It is over, and the row as it was. *)
LEMMA OperationDropped ==
  ASSUME IInv, QueueInv, Active,
         \/ Settle \/ Reject \/ CleanUp("cleanup") \/ CleanUp("unwinding"),
         UNCHANGED <<issue, pending, binding, mode>>,
         Dependable => issue.status \in Halted
  PROVE  QueueInv'
<1>1. mode \notin {"down", "recovered"}
  BY QueueFacts
<1>2. Equipped(issue') /\ Queued(issue', pending') /\ mode' = mode
  BY QueueFacts
<1>3. Dependable => issue'.status \in Halted /\ ~Waits(issue', binding')
  BY DEF Waits, Working, Halted, Terminal
<1> QED
  BY <1>1, <1>2, <1>3, OperationEnds

(* complete(): the result fits, when it counts; nobody waits for one that  *)
(* does not.                                                               *)
LEMMA OperationCompletes ==
  ASSUME IInv, QueueInv, Claimed, op.snap.status \notin Halted,
         NEW next, NEW operation, Complete(op.snap, next, operation),
         Equipped(op.snap) => Fit(next, operation, binding'),
         Settle \/ CleanUp("cleanup"),
         Current(op.snap) \/ binding' = binding, mode' = mode
  PROVE  QueueInv'
<1>1. mode \notin {"down", "recovered"} /\ Active
  BY QueueFacts DEF Claimed, Active
<1>2. op'.pc # "unwinding" /\ asleep' = asleep
  BY DEF Settle, CleanUp, NoOp
<1>3. CASE Current(op.snap)
  <2>1. op.snap = issue
    BY <1>3 DEF IInv, SnapshotCurrent
  <2>2. issue' = next /\ pending' = operation
    BY <1>3 DEF Complete, Store
  <2>3. Fit(next, operation, binding')
    BY <2>1, QueueFacts
  <2>4. Dependable => ~asleep
    BY <2>1 DEF QueueInv, Served
  <2>5. /\ Equipped(issue') /\ Queued(issue', pending')
        /\ Waits(issue', binding') => pending' # None
    BY <2>2, <2>3 DEF Fit
  <2> QED
    BY <1>1, <1>2, <2>4, <2>5, OperationEnds
<1>4. CASE ~Current(op.snap)
  <2>1. UNCHANGED <<issue, pending, binding, mode>>
    BY <1>4 DEF Complete
  <2>2. Dependable => issue.status \in Halted
    BY <1>4 DEF QueueInv, Served
  <2> QED
    BY <1>1, <2>1, <2>2, OperationDropped
<1> QED
  BY <1>3, <1>4

(* It goes on with its snapshot, in another phase. *)
LEMMA OperationGoesOn ==
  ASSUME IInv, QueueInv, Claimed, Claimed',
         UNCHANGED <<issue, pending, binding, asleep, mode>>,
         op'.snap = op.snap, op'.kind = op.kind, op'.aborted = op.aborted,
         op'.pc \notin {"acquiring", "creating", "unwinding"},
         op'.pc \in Turning => op.pc \in Turning \/ op.kind # "ASSESS"
  PROVE  QueueInv'
<1>1. Active
  BY DEF Claimed, Active
<1>2. Equipping'
  BY DEF QueueInv, Equipping
<1>3. Dependable => Served'
  BY <1>1 DEF QueueInv, Served, Current
<1> QED
  BY <1>2, <1>3 DEF QueueInv, Dependable

(* What is queued names the status it is started in. *)
LEMMA QueuedWorking ==
  ASSUME IInv, QueueInv, pending # None
  PROVE  issue.status \in Working
<1>1. pending \in {"PREPARE", "ASSESS", "REPAIR", "CAPTURE_EVIDENCE", "EVIDENCE", "FINALIZE",
                   "RECOVER_FINALIZATION"}
  BY QueueFacts DEF TypeOK, Operations, AgentOperations, ResumeStatus
<1> QED
  BY <1>1, QueueFacts DEF Queued, Working

(* An operation starts from the row, which keeps everything but what it    *)
(* has pending.                                                            *)
LEMMA OperationBegins ==
  ASSUME IInv, QueueInv, mode = "up", pending # None, ~asleep,
         issue' = issue, pending' \in {None, pending},
         asleep' = asleep, mode' = mode,
         Claimed', op'.snap = issue, op'.aborted = FALSE, op'.pc # "unwinding",
         op'.pc = "acquiring" => issue.status = "RECEIVED",
         op'.pc = "creating" => issue.status \in {"RECEIVED", "ASSESSING"} /\ issue.path,
         op'.kind = "ASSESS" /\ op'.pc \in Turning => issue.session
  PROVE  QueueInv'
<1>1. issue.status \in Working
  BY QueuedWorking
<1>2. Equipping'
  BY <1>1 DEF Equipping
<1>3. Served'
  BY DEF Served, Current
<1>4. Equipped(issue') /\ Queued(issue', pending')
  BY QueueFacts DEF Queued, None
<1> QED
  BY <1>2, <1>3, <1>4 DEF QueueInv

(* A dispatched operation is awake and nothing else runs. *)
LEMMA DispatchedQueue ==
  ASSUME IInv, QueueInv, NEW o \in Operations, Dispatched(o)
  PROVE  /\ mode = "up" /\ ~Active /\ ~Claimed /\ ~asleep
         /\ pending = o /\ pending # None /\ issue \in Issue
         /\ Equipped(issue) /\ Queued(issue, o)
BY QueueFacts, DispatchedFacts DEF Dispatched

(* The names of the operations. *)
LEMMA OperationNames ==
  /\ Operations = {"PREPARE", "ASSESS", "REPAIR", "CAPTURE_EVIDENCE", "EVIDENCE", "FINALIZE",
                   "RECOVER_FINALIZATION"}
  /\ AgentOperations = {"ASSESS", "REPAIR", "CAPTURE_EVIDENCE", "RECOVER_FINALIZATION"}
BY DEF Operations, AgentOperations, ResumeStatus

-----------------------------------------------------------------------------
(* assess                                                                  *)

(* The claim of an assessment has a session, and keeps the path. *)
LEMMA ClaimedAssessmentFields ==
  ASSUME NEW i \in Issue, i.status \in {"RECEIVED", "ASSESSING"}
  PROVE  ClaimedAssessment(i).session = TRUE /\ ClaimedAssessment(i).path = i.path
<1> DEFINE w == IF i.session THEN i ELSE RecordAgentSession(i)
<1>1. w \in Issue /\ w.session = TRUE /\ w.path = i.path
  BY RecordAgentSessionAdvances DEF Advances, RecordAgentSession, Issue
<1> HIDE DEF w
<1>2. StartAssessment(w).session = w.session /\ StartAssessment(w).path = w.path
  BY <1>1 DEF StartAssessment, Transition, Moved, Issue
<1> QED
  BY <1>1, <1>2 DEF ClaimedAssessment, w

(* assess, once there is a session: the claim, or nothing to claim. *)
LEMMA BeginAssessmentQueue ==
  ASSUME IInv, QueueInv, NEW snapshot, BeginAssessment(snapshot), issue.path,
         mode \notin {"down", "recovered"},
         UNCHANGED <<binding, asleep, mode>>,
         Active \/ issue.status \in {"RECEIVED", "ASSESSING"},
         Dependable => issue.status \in {"RECEIVED", "ASSESSING"} \cup Halted
  PROVE  QueueInv'
<1>1. CASE issue.status \in {"RECEIVED", "ASSESSING"}
  <2> DEFINE next == ClaimedAssessment(issue)
  <2>1. next \in Issue /\ next.status = "ASSESSING" /\ next.session /\ next.path
    BY <1>1, QueueFacts, ClaimedAssessmentAdvances, ClaimedAssessmentFields
  <2>2. issue' = next /\ pending' = None /\ Started("turn", "ASSESS", next)
    BY <1>1 DEF BeginAssessment, Store
  <2> HIDE DEF next
  <2>3. /\ op'.pc = "turn" /\ op'.kind = "ASSESS" /\ op'.snap = next /\ op'.aborted = FALSE
    BY <2>2 DEF Started, NoOp
  <2>4. Equipped(next) /\ Queued(next, None)
    BY <2>1 DEF Equipped, Toward, Unassessed, Unrepaired, Terminal, Queued, None
  <2>5. Equipping'
    BY <2>1, <2>3 DEF Equipping, Working, Turning
  <2>6. Dependable => Served'
    BY <1>1, <2>1, <2>2, <2>3
    DEF QueueInv, Served, Claimed, Current, Halted, Terminal
  <2> QED
    BY <2>2, <2>4, <2>5, <2>6 DEF QueueInv, Dependable
<1>2. CASE issue.status \notin {"RECEIVED", "ASSESSING"}
  <2>1. UNCHANGED <<issue, pending, binding, mode>> /\ Settle /\ Active
    BY <1>2 DEF BeginAssessment, Settle
  <2> QED
    BY <1>2, <2>1, OperationDropped
<1> QED
  BY <1>1, <1>2

(* failPendingAssessment leaves a failed assessment that can be retried. *)
LEMMA FailPendingFits ==
  ASSUME IInv, QueueInv, issue.path, issue.status \in {"RECEIVED", "ASSESSING"},
         NEW snapshot, Current(snapshot), FailPendingAssessment(snapshot)
  PROVE  Fit(issue', pending', binding')
<1> DEFINE a == IF issue.status = "RECEIVED" THEN StartAssessment(issue) ELSE issue
           next == RecordAssessmentFailure(a, "AGENT_FAILURE")
<1>1. issue.status = "RECEIVED" => CanTransition(issue, "START_ASSESSMENT")
  BY DEF CanTransition, Transitions
<1>2. a \in Issue /\ a.status = "ASSESSING"
  BY <1>1, QueueFacts, StartAssessmentAdvances DEF Advances
<1>3. a.path
  BY QueueFacts DEF StartAssessment, Transition, Moved, Issue
<1> HIDE DEF a
<1>4. Equipped(a)
  BY <1>2, <1>3 DEF Equipped, Toward, Unassessed, Unrepaired, Terminal
<1>5. next.status = Target["ASSESSMENT_ERRORED"]
  BY <1>2, RecordAssessmentFailureAdvances DEF FailureCodes, Target
<1>6. Fit(next, None, binding')
  BY <1>2, <1>3, <1>4, <1>5, FailureFits DEF RecordAssessmentFailure
<1>7. issue' = next /\ pending' = None
  BY DEF FailPendingAssessment, Store, a
<1> HIDE DEF next
<1> QED
  BY <1>6, <1>7

(* assess, up to its first await *)
LEMMA AssessQueue == ASSUME IInv, QueueInv, Assess PROVE QueueInv'
<1>1. Dispatched("ASSESS") /\ "ASSESS" \in Operations /\ UNCHANGED <<binding, mode>>
  BY OperationNames DEF Assess, OperationFrame
<1>2. /\ mode = "up" /\ ~Active /\ ~asleep /\ pending # None
      /\ issue.status \in {"RECEIVED", "ASSESSING"} /\ issue.path
  BY <1>1, DispatchedQueue DEF Queued
<1>3. CASE issue.session
  BY <1>1, <1>2, <1>3, BeginAssessmentQueue DEF Assess
<1>4. CASE ~issue.session
  <2>1. /\ Started("creating", "ASSESS", issue) /\ UNCHANGED <<issue, pending, asleep>>
    BY <1>2, <1>4 DEF Assess
  <2>2. /\ op'.pc = "creating" /\ op'.snap = issue /\ op'.aborted = FALSE /\ Claimed'
    BY <2>1 DEF Started, NoOp, Claimed
  <2> QED
    BY <1>1, <1>2, <2>1, <2>2, OperationBegins DEF Turning
<1> QED
  BY <1>3, <1>4

(* assess, with the session that was created, or without *)
LEMMA SessionQueue ==
  ASSUME IInv, QueueInv, SessionCreated \/ SessionNotCreated
  PROVE  QueueInv'
<1>1. /\ op.pc = "creating" /\ Active /\ Claimed /\ issue.path
      /\ op.snap.status \in {"RECEIVED", "ASSESSING"}
      /\ UNCHANGED <<binding, mode>>
  BY DEF SessionCreated, SessionNotCreated, At, Active, Claimed, QueueInv, Equipping,
         OperationFrame
<1>2. mode \notin {"down", "recovered"}
  BY <1>1, QueueFacts
<1>3. Current(op.snap) => issue.status \in {"RECEIVED", "ASSESSING"}
  BY <1>1 DEF IInv, SnapshotCurrent
<1>4. Dependable => issue.status \in {"RECEIVED", "ASSESSING"} \cup Halted
  BY <1>1, <1>3 DEF QueueInv, Served
<1>5. CASE SessionCreated
  BY <1>1, <1>2, <1>4, <1>5, BeginAssessmentQueue DEF SessionCreated
<1>6. CASE SessionNotCreated
  <2>1. FailPendingAssessment(op.snap) /\ Settle
    BY <1>6 DEF SessionNotCreated
  <2>2. CASE Current(op.snap)
    <3>1. issue.status \in {"RECEIVED", "ASSESSING"}
      BY <1>3, <2>2
    <3>2. Fit(issue', pending', binding')
      BY <1>1, <2>1, <2>2, <3>1, FailPendingFits
    <3>3. op'.pc # "unwinding" /\ asleep' = asleep
      BY <2>1 DEF Settle, NoOp
    <3>4. Dependable => ~asleep
      BY <3>1 DEF QueueInv, Served, Halted, Terminal
    <3> QED
      BY <1>1, <1>2, <2>1, <3>2, <3>3, <3>4, OperationEnds DEF Fit
  <2>3. CASE ~Current(op.snap)
    <3>1. UNCHANGED <<issue, pending, binding, mode>>
      BY <1>1, <2>1, <2>3 DEF FailPendingAssessment
    <3>2. Dependable => issue.status \in Halted
      BY <1>1, <2>3 DEF QueueInv, Served
    <3> QED
      BY <1>1, <2>1, <3>1, <3>2, OperationDropped
  <2> QED
    BY <2>2, <2>3
<1> QED
  BY <1>5, <1>6

-----------------------------------------------------------------------------
(* The start of the other operations                                       *)

(* They find what they need, and claim the row as it is. *)
LEMMA ClaimQueue ==
  ASSUME IInv, QueueInv, Repair \/ CaptureEvidence \/ InspectEvidence
  PROVE  QueueInv'
<1>1. CASE Repair
  <2>1. Dispatched("REPAIR") /\ "REPAIR" \in Operations
    BY <1>1, OperationNames DEF Repair
  <2>2. /\ mode = "up" /\ ~asleep /\ pending # None /\ issue.status = "REPAIRING"
        /\ Equipped(issue)
    BY <2>1, DispatchedQueue DEF Queued
  <2>3. RepairContext(issue) /\ issue.path
    BY <2>2 DEF Equipped, Toward, Unassessed, Unrepaired, Assessed, Terminal, RepairContext
  <2>4. /\ Store(issue, None) /\ Started("observing", "REPAIR", issue)
        /\ asleep' = asleep /\ mode' = mode
    BY <1>1, <2>2, <2>3 DEF Repair, OperationFrame
  <2>5. op'.pc = "observing" /\ op'.snap = issue /\ op'.aborted = FALSE /\ Claimed'
    BY <2>4 DEF Started, NoOp, Claimed
  <2> QED
    BY <2>2, <2>4, <2>5, OperationBegins DEF Store, Turning
<1>2. CASE CaptureEvidence
  <2>1. Dispatched("CAPTURE_EVIDENCE") /\ "CAPTURE_EVIDENCE" \in Operations
    BY <1>2, OperationNames DEF CaptureEvidence
  <2>2. /\ mode = "up" /\ ~asleep /\ pending # None /\ issue.status = "EVIDENCE_CAPTURE"
        /\ Equipped(issue)
    BY <2>1, DispatchedQueue DEF Queued
  <2>3. CaptureContext(issue) /\ issue.path
    BY <2>2 DEF Equipped, Toward, Unassessed, Unrepaired, Assessed, Terminal, CaptureContext
  <2>4. /\ Store(issue, None) /\ Started("intake", "CAPTURE_EVIDENCE", issue)
        /\ asleep' = asleep /\ mode' = mode
    BY <1>2, <2>2, <2>3 DEF CaptureEvidence, OperationFrame
  <2>5. op'.pc = "intake" /\ op'.snap = issue /\ op'.aborted = FALSE /\ Claimed'
    BY <2>4 DEF Started, NoOp, Claimed
  <2> QED
    BY <2>2, <2>4, <2>5, OperationBegins DEF Store, Turning
<1>3. CASE InspectEvidence
  <2>1. Dispatched("EVIDENCE") /\ "EVIDENCE" \in Operations
    BY <1>3, OperationNames DEF InspectEvidence
  <2>2. /\ mode = "up" /\ ~asleep /\ pending # None /\ issue.status = "EVIDENCE_CHECK"
        /\ issue.delivery > 0
    BY <2>1, DispatchedQueue DEF Queued, Equipped
  <2>3. /\ Store(issue, None) /\ Started("inspecting", "EVIDENCE", issue)
        /\ asleep' = asleep /\ mode' = mode
    BY <1>3, <2>2 DEF InspectEvidence, OperationFrame
  <2>4. op'.pc = "inspecting" /\ op'.snap = issue /\ op'.aborted = FALSE /\ Claimed'
    BY <2>3 DEF Started, NoOp, Claimed
  <2> QED
    BY <2>2, <2>3, <2>4, OperationBegins DEF Store, Turning
<1> QED
  BY <1>1, <1>2, <1>3

(* Prepare and Finalize leave their operation pending. *)
LEMMA StayingQueue ==
  ASSUME IInv, QueueInv, Prepare \/ Finalize
  PROVE  QueueInv'
<1>1. CASE Prepare
  <2>1. Dispatched("PREPARE") /\ "PREPARE" \in Operations
    BY <1>1, OperationNames DEF Prepare
  <2>2. mode = "up" /\ ~asleep /\ pending # None /\ issue.status = "RECEIVED"
    BY <2>1, DispatchedQueue DEF Queued
  <2>3. /\ UNCHANGED <<issue, pending, asleep, mode>> /\ Started("acquiring", "PREPARE", issue)
    BY <1>1 DEF Prepare, OperationFrame
  <2>4. op'.pc = "acquiring" /\ op'.snap = issue /\ op'.aborted = FALSE /\ Claimed'
    BY <2>3 DEF Started, NoOp, Claimed
  <2> QED
    BY <2>2, <2>3, <2>4, OperationBegins DEF Turning
<1>2. CASE Finalize
  <2>1. Dispatched("FINALIZE") /\ "FINALIZE" \in Operations
    BY <1>2, OperationNames DEF Finalize
  <2>2. mode = "up" /\ ~asleep /\ pending # None /\ issue.status = "FINALIZING"
    BY <2>1, DispatchedQueue DEF Queued
  <2>3. /\ UNCHANGED <<issue, pending, asleep, mode>> /\ Started("publishing", "FINALIZE", issue)
    BY <1>2, <2>2 DEF Finalize, OperationFrame
  <2>4. op'.pc = "publishing" /\ op'.snap = issue /\ op'.aborted = FALSE /\ Claimed'
    BY <2>3 DEF Started, NoOp, Claimed
  <2> QED
    BY <2>2, <2>3, <2>4, OperationBegins DEF Turning
<1> QED
  BY <1>1, <1>2

(* recoverFinalization, with and without the context of an attempt *)
LEMMA RecoverFinalizationQueue ==
  ASSUME IInv, QueueInv, RecoverFinalization
  PROVE  QueueInv'
<1>1. Dispatched("RECOVER_FINALIZATION") /\ "RECOVER_FINALIZATION" \in Operations
  BY OperationNames DEF RecoverFinalization
<1>2. mode = "up" /\ ~asleep /\ pending # None /\ issue.status = "FINALIZATION_RECOVERY"
  BY <1>1, DispatchedQueue DEF Queued
<1>3. /\ \/ Store(issue, None) /\ Started("turn", "RECOVER_FINALIZATION", issue)
         \/ /\ op' = [NoOp EXCEPT !.pc = "validating", !.kind = "RECOVER_FINALIZATION",
                                  !.snap = issue, !.result = "failed"]
            /\ UNCHANGED <<issue, pending>>
      /\ asleep' = asleep /\ mode' = mode
  BY <1>2 DEF RecoverFinalization, OperationFrame
<1>4. /\ op'.pc \in {"turn", "validating"} /\ op'.kind = "RECOVER_FINALIZATION"
      /\ op'.snap = issue /\ op'.aborted = FALSE /\ Claimed'
  BY <1>3 DEF Started, NoOp, Claimed
<1> QED
  BY <1>2, <1>3, <1>4, OperationBegins DEF Store

(* The Agent's plugin is not installed. *)
LEMMA AgentUnavailableQueue ==
  ASSUME IInv, QueueInv, AgentUnavailable
  PROVE  QueueInv'
<1>1. /\ pending \in Operations /\ Dispatched(pending)
      /\ UNCHANGED <<binding, asleep, mode>>
  BY QueueFacts DEF AgentUnavailable, TypeOK, OperationFrame
<1>2. /\ mode = "up" /\ ~Active /\ ~asleep /\ pending # None
      /\ Equipped(issue) /\ Queued(issue, pending)
  BY <1>1, DispatchedQueue
<1>3. ASSUME Fit(issue', pending', binding'), op' = op
      PROVE  QueueInv'
  <2>1. Equipping'
    BY <1>2, <1>3 DEF Equipping, Active, Claimed, Turning
  <2>2. Dependable => Served'
    BY <1>1, <1>2, <1>3 DEF QueueInv, Served, Fit, Active, Claimed
  <2> QED
    BY <1>3, <2>1, <2>2 DEF QueueInv, Fit, Dependable
<1>4. CASE pending = "ASSESS" /\ issue.path /\ FailPendingAssessment(issue) /\ op' = op
  <2>1. issue.status \in {"RECEIVED", "ASSESSING"} /\ Current(issue)
    BY <1>2, <1>4 DEF Queued, Current
  <2>2. Fit(issue', pending', binding')
    BY <1>4, <2>1, FailPendingFits
  <2> QED
    BY <1>3, <1>4, <2>2
<1>5. CASE /\ pending = "REPAIR"
           /\ Store(RecordRepairFailure(issue, "AGENT_FAILURE"), None) /\ op' = op
  <2>1. issue.status = "REPAIRING"
    BY <1>2, <1>5 DEF Queued
  <2>2. RecordRepairFailure(issue, "AGENT_FAILURE").status = Target["REPAIR_ERRORED"]
    BY <2>1, QueueFacts, RecordRepairFailureAdvances DEF FailureCodes, Target
  <2>3. Fit(RecordRepairFailure(issue, "AGENT_FAILURE"), None, binding')
    BY <2>1, <2>2, QueueFacts, FailureFits DEF RecordRepairFailure
  <2> QED
    BY <1>3, <1>5, <2>3 DEF Store
<1>6. CASE /\ op' = [NoOp EXCEPT !.pc = "validating", !.kind = "RECOVER_FINALIZATION",
                                 !.snap = issue, !.result = "failed"]
           /\ UNCHANGED <<issue, pending>>
  <2>1. /\ op'.pc = "validating" /\ op'.snap = issue /\ op'.aborted = FALSE /\ Claimed'
    BY <1>6 DEF NoOp, Claimed
  <2> QED
    BY <1>1, <1>2, <1>6, <2>1, OperationBegins DEF Turning
<1> QED
  BY <1>4, <1>5, <1>6 DEF AgentUnavailable

-----------------------------------------------------------------------------
(* The rest of the worker, step by step.                                   *)

(* Steps that keep the row and go on. *)
LEMMA PhaseQueue ==
  ASSUME IInv, QueueInv,
         \/ RepairObserved \/ IntakePrepared \/ TurnCorrected \/ Published \/ RecoveryChanged
         \/ \E result \in {"business", "evidence", "noEvidence"} : RepairReturned(result)
  PROVE  QueueInv'
<1>1. op \in Op
  BY QueueFacts
<1>2. /\ op.pc \in {"observing", "intake", "turn", "correcting", "publishing", "validating"}
      /\ UNCHANGED <<issue, pending, binding, asleep, mode>>
  BY DEF RepairObserved, IntakePrepared, TurnCorrected, Published, RecoveryChanged,
         RepairReturned, At, InTurn, Turning, OperationFrame
<1>3. /\ op'.snap = op.snap /\ op'.kind = op.kind /\ op'.aborted = op.aborted
      /\ op'.pc \in {"intake", "capturing", "turn", "correcting", "releasing", "validating",
                     "binding"}
      /\ op'.pc \in Turning => op.pc \in Turning \/ op.kind # "ASSESS"
  BY <1>1 DEF RepairObserved, IntakePrepared, TurnCorrected, Published, RecoveryChanged,
              RepairReturned, At, InTurn, Turning, Goto, Op
<1>4. Claimed /\ Claimed'
  BY <1>2, <1>3 DEF Claimed
<1> QED
  BY <1>2, <1>3, <1>4, OperationGoesOn

(* The Repair has failed, or has asked for a decision. *)
LEMMA RepairEndedQueue ==
  ASSUME IInv, QueueInv, Claimed, op.kind = "REPAIR", op.pc # "importing",
         \/ \E code \in FailureCodes : Complete(op.snap, RecordRepairFailure(op.snap, code), None)
         \/ Complete(op.snap, RequestReview(op.snap, "business-merge-conflict"), None),
         Settle \/ CleanUp("cleanup"), UNCHANGED <<binding, mode>>
  PROVE  QueueInv'
<1>1. op.snap \in Issue /\ op.snap.status = "REPAIRING"
  BY SnapshotFacts DEF ClaimedStatus
<1>2. op.snap.status \notin Halted
  BY <1>1 DEF Halted, Terminal
<1>3. ASSUME NEW code \in FailureCodes,
             Complete(op.snap, RecordRepairFailure(op.snap, code), None)
      PROVE  QueueInv'
  <2>1. RecordRepairFailure(op.snap, code).status = Target["REPAIR_ERRORED"]
    BY <1>1, RecordRepairFailureAdvances DEF Target
  <2>2. Equipped(op.snap) => Fit(RecordRepairFailure(op.snap, code), None, binding')
    BY <1>1, <2>1, FailureFits DEF RecordRepairFailure
  <2> QED
    BY <1>2, <1>3, <2>2, OperationCompletes
<1>4. CASE Complete(op.snap, RequestReview(op.snap, "business-merge-conflict"), None)
  <2>1. Equipped(op.snap) =>
          Fit(RequestReview(op.snap, "business-merge-conflict"), None, binding')
    BY <1>1, RequestReviewFits DEF Reviews
  <2> QED
    BY <1>2, <1>4, <2>1, OperationCompletes
<1> QED
  BY <1>3, <1>4

(* queueEvidenceCapture, with and without retries left *)
LEMMA CaptureRequeued ==
  ASSUME IInv, QueueInv, Claimed, op.snap.status \in {"EVIDENCE_CAPTURE", "EVIDENCE_CHECK"},
         QueueEvidenceCapture(op.snap), Settle \/ CleanUp("cleanup"),
         UNCHANGED <<binding, mode>>
  PROVE  QueueInv'
<1>1. op.snap \in Issue /\ op.snap.status \notin Halted
  BY QueueFacts DEF Halted, Terminal
<1>2. CASE op.snap.retries >= MAX_AUTOMATIC_EVIDENCE_RETRIES
  <2> DEFINE next == RecordEvidenceFailure(op.snap, "EVIDENCE_RETRY_LIMIT_REACHED")
  <2>1. next.status = Target["EVIDENCE_ERRORED"]
    BY <1>1, RecordEvidenceFailureAdvances DEF FailureCodes, Target
  <2>2. Equipped(op.snap) => Fit(next, None, binding')
    BY <1>1, <2>1, FailureFits DEF RecordEvidenceFailure
  <2>3. Complete(op.snap, next, None)
    BY <1>2 DEF QueueEvidenceCapture
  <2> QED
    BY <1>1, <2>2, <2>3, OperationCompletes
<1>3. CASE ~(op.snap.retries >= MAX_AUTOMATIC_EVIDENCE_RETRIES)
  <2>1. Complete(op.snap, RequeuedCapture(op.snap), "CAPTURE_EVIDENCE")
    BY <1>3 DEF QueueEvidenceCapture
  <2>2. Equipped(op.snap) => Fit(RequeuedCapture(op.snap), "CAPTURE_EVIDENCE", binding')
    BY <1>1, RequeuedCaptureFits
  <2> QED
    BY <1>1, <2>1, <2>2, OperationCompletes
<1> QED
  BY <1>2, <1>3

(* Every way a Repair, or a capture, ends in failure. *)
LEMMA StageFailedQueue ==
  ASSUME IInv, QueueInv,
         \/ RepairNotObserved \/ IntakeFailed \/ HostCaptureFailed \/ RepairInvalid
         \/ BusinessDecisionRequired \/ DeliveryNotImported \/ EvidenceNotReviewable
  PROVE  QueueInv'
<1>1. /\ Claimed /\ UNCHANGED <<binding, mode>> /\ (Settle \/ CleanUp("cleanup"))
  BY DEF RepairNotObserved, IntakeFailed, HostCaptureFailed, RepairInvalid,
         BusinessDecisionRequired, DeliveryNotImported, EvidenceNotReviewable, At, Claimed,
         OperationFrame
<1>2. /\ "AGENT_FAILURE" \in FailureCodes /\ "EVIDENCE_INTAKE_FAILED" \in FailureCodes
  BY DEF FailureCodes
<1>3. CASE RepairNotObserved \/ RepairInvalid \/ BusinessDecisionRequired
           \/ (IntakeFailed /\ op.kind = "REPAIR")
  <2>1. /\ op.kind = "REPAIR" /\ op.pc # "importing"
        /\ \/ \E code \in FailureCodes :
                Complete(op.snap, RecordRepairFailure(op.snap, code), None)
           \/ Complete(op.snap, RequestReview(op.snap, "business-merge-conflict"), None)
    BY <1>2, <1>3
    DEF RepairNotObserved, IntakeFailed, RepairInvalid, BusinessDecisionRequired, At
  <2> QED
    BY <1>1, <2>1, RepairEndedQueue
<1>4. CASE HostCaptureFailed \/ DeliveryNotImported \/ EvidenceNotReviewable
           \/ (IntakeFailed /\ op.kind # "REPAIR")
  <2>1. /\ QueueEvidenceCapture(op.snap)
        /\ \/ op.kind = "CAPTURE_EVIDENCE" \/ op.kind = "EVIDENCE"
           \/ op.kind = "REPAIR" /\ op.pc = "importing"
    BY <1>4
    DEF IntakeFailed, HostCaptureFailed, DeliveryNotImported, EvidenceNotReviewable, At
  <2>2. op.snap.status \in {"EVIDENCE_CAPTURE", "EVIDENCE_CHECK"}
    BY <1>1, <2>1, SnapshotFacts DEF ClaimedStatus, Turning
  <2> QED
    BY <1>1, <2>1, <2>2, CaptureRequeued
<1> QED
  BY <1>3, <1>4

(* What an Agent's assessment leaves for the human. *)
LEMMA AssessmentReturnedQueue ==
  ASSUME IInv, QueueInv, NEW a \in AgentAssessments, AssessmentReturned(a)
  PROVE  QueueInv'
<1>1. /\ op.pc \in Turning /\ op.kind = "ASSESS" /\ Claimed /\ UNCHANGED <<binding, mode>>
  BY DEF AssessmentReturned, InTurn, Turning, Claimed, OperationFrame
<1>2. op.snap \in Issue /\ op.snap.status = "ASSESSING"
  BY <1>1, SnapshotFacts DEF ClaimedStatus
<1>3. op.snap.session /\ a \in Assessment
  BY <1>1, AssessmentAssumption DEF QueueInv, Equipping
<1>4. Equipped(op.snap) =>
        Fit(RequestReview(RecordAssessment(op.snap, a), "assessment"), None, binding')
  BY <1>2, <1>3, AssessmentFits
<1>5. op.snap.status \notin Halted
  BY <1>2 DEF Halted, Terminal
<1>6. /\ Complete(op.snap, RequestReview(RecordAssessment(op.snap, a), "assessment"), None)
      /\ Leave
  BY DEF AssessmentReturned
<1> QED
  BY <1>1, <1>4, <1>5, <1>6, LeaveEnds, OperationCompletes

(* A result of a turn that is thrown away: the issue has been stopped. *)
LEMMA AbortedIsHalted ==
  ASSUME QueueInv, Active, op.aborted
  PROVE  Dependable => issue.status \in Halted
BY DEF QueueInv, Served

(* validateFinalizationRecovery looks first whether the issue is current. *)
LEMMA RevalidatedQueue ==
  ASSUME IInv, QueueInv, op.pc \in Turning, op.kind = "RECOVER_FINALIZATION",
         NEW result, Revalidated(result), UNCHANGED <<issue, pending, binding, asleep, mode>>
  PROVE  QueueInv'
<1>1. Active /\ Claimed /\ op \in Op
  BY QueueFacts DEF Active, Claimed, Turning
<1>2. CASE Current(op.snap)
  <2>1. /\ op'.pc = "validating" /\ op'.snap = op.snap /\ op'.kind = op.kind
        /\ op'.aborted = op.aborted
    BY <1>1, <1>2 DEF Revalidated, Op
  <2> QED
    BY <1>1, <2>1, OperationGoesOn DEF Claimed, Turning
<1>3. CASE ~Current(op.snap)
  <2>1. Settle
    BY <1>3 DEF Revalidated, Settle
  <2>2. Dependable => issue.status \in Halted
    BY <1>1, <1>3 DEF QueueInv, Served
  <2> QED
    BY <1>1, <2>1, <2>2, OperationDropped
<1> QED
  BY <1>2, <1>3

(* The evidence has been captured, by the Agent or by the host. *)
LEMMA EvidenceReturnedQueue ==
  ASSUME IInv, QueueInv, EvidenceReturned \/ HostCaptureAborted
  PROVE  QueueInv'
<1>1. /\ Active /\ Claimed /\ op.pc \in {"turn", "correcting", "capturing"} /\ op \in Op
      /\ UNCHANGED <<issue, pending, binding, mode>>
  BY QueueFacts DEF EvidenceReturned, HostCaptureAborted, InTurn, At, Turning, Active, Claimed,
                    OperationFrame
<1>2. CASE op.aborted
  <2>1. CleanUp("cleanup") \/ CleanUp("unwinding")
    BY <1>2 DEF EvidenceReturned, HostCaptureAborted
  <2> QED
    BY <1>1, <1>2, <2>1, AbortedIsHalted, OperationDropped
<1>3. CASE ~op.aborted
  <2>1. /\ op'.pc = "importing" /\ op'.snap = op.snap /\ op'.kind = op.kind
        /\ op'.aborted = op.aborted /\ asleep' = asleep
    BY <1>1, <1>3 DEF EvidenceReturned, HostCaptureAborted, Op
  <2> QED
    BY <1>1, <2>1, OperationGoesOn DEF Claimed, Turning
<1> QED
  BY <1>2, <1>3

(* A turn's snapshot is in the status of its operation. *)
LEMMA TurnServes ==
  ASSUME IInv, QueueInv, op.pc \in Turning
  PROVE  /\ Active /\ Claimed /\ op.snap \in Issue /\ op.kind \in AgentOperations
         /\ op.snap.status \in ServesStatus(op.kind) /\ op.snap.status \notin Halted
<1>1. Active /\ Claimed /\ op.kind \in AgentOperations
  BY DEF Active, Claimed, Turning, IInv, OperationFits
<1>2. op.snap \in Issue /\ op.snap.status \in ClaimedStatus(op)
  BY <1>1, SnapshotFacts
<1>3. op.pc # "importing"
  BY DEF Turning
<1>4. op.kind \in {"ASSESS", "REPAIR", "CAPTURE_EVIDENCE", "RECOVER_FINALIZATION"}
  BY <1>1, OperationNames
<1>5. op.snap.status \in ServesStatus(op.kind)
  BY <1>2, <1>3, <1>4 DEF ClaimedStatus, ServesStatus
<1> QED
  BY <1>1, <1>2, <1>4, <1>5 DEF ServesStatus, Halted, Terminal

(* pauseForCapability *)
LEMMA CapabilityRequiredQueue ==
  ASSUME IInv, QueueInv, NEW c \in SUBSET Capabilities, CapabilityRequired(c)
  PROVE  QueueInv'
<1>1. op.pc \in Turning /\ UNCHANGED <<binding, mode>>
  BY DEF CapabilityRequired, OperationFrame
<1>2. /\ Active /\ Claimed /\ op.snap \in Issue /\ op.kind \in AgentOperations
      /\ op.snap.status \in ServesStatus(op.kind) /\ op.snap.status \notin Halted
  BY <1>1, TurnServes
<1>3. CASE Rethrows
  <2>1. UNCHANGED <<issue, pending>> /\ CleanUp("unwinding") /\ op.aborted
    BY <1>3 DEF CapabilityRequired, Rethrows
  <2> QED
    BY <1>1, <1>2, <2>1, AbortedIsHalted, OperationDropped
<1>4. CASE ~Rethrows
  <2>1. Complete(op.snap, RecordCapabilityRequest(op.snap, op.kind, c), None) /\ Leave
    BY <1>4 DEF CapabilityRequired
  <2>2. Equipped(op.snap) => Fit(RecordCapabilityRequest(op.snap, op.kind, c), None, binding')
    BY <1>2, RecordCapabilityRequestFits
  <2> QED
    BY <1>1, <1>2, <2>1, <2>2, LeaveEnds, OperationCompletes
<1> QED
  BY <1>3, <1>4

(* Every other error of the turn. *)
LEMMA FailTurnQueue ==
  ASSUME IInv, QueueInv, op.pc \in Turning, NEW code \in FailureCodes, FailTurn(code),
         UNCHANGED <<binding, mode>>
  PROVE  QueueInv'
<1>1. /\ Active /\ Claimed /\ op.snap \in Issue /\ op.kind \in AgentOperations
      /\ op.snap.status \in ServesStatus(op.kind) /\ op.snap.status \notin Halted
  BY TurnServes
<1>2. CASE op.kind = "ASSESS"
  <2>1. op.snap.status = "ASSESSING"
    BY <1>1, <1>2 DEF ServesStatus
  <2>2. RecordAssessmentFailure(op.snap, code).status = Target["ASSESSMENT_ERRORED"]
    BY <1>1, <2>1, RecordAssessmentFailureAdvances DEF Target
  <2>3. Equipped(op.snap) => op.snap.path
    BY <2>1 DEF Equipped, Terminal
  <2>4. Equipped(op.snap) => Fit(RecordAssessmentFailure(op.snap, code), None, binding')
    BY <1>1, <2>1, <2>2, <2>3, FailureFits DEF RecordAssessmentFailure
  <2>5. Complete(op.snap, RecordAssessmentFailure(op.snap, code), None) /\ Leave
    BY <1>2 DEF FailTurn
  <2> QED
    BY <1>1, <2>4, <2>5, LeaveEnds, OperationCompletes
<1>3. CASE op.kind = "REPAIR"
  <2>1. Complete(op.snap, RecordRepairFailure(op.snap, code), None) /\ Leave
    BY <1>3 DEF FailTurn
  <2>2. op.pc # "importing"
    BY DEF Turning
  <2> QED
    BY <1>1, <1>3, <2>1, <2>2, LeaveEnds, RepairEndedQueue
<1>4. CASE op.kind = "CAPTURE_EVIDENCE" /\ op.aborted
  <2>1. UNCHANGED <<issue, pending>> /\ CleanUp("unwinding")
    BY <1>4 DEF FailTurn
  <2> QED
    BY <1>1, <1>4, <2>1, AbortedIsHalted, OperationDropped
<1>5. CASE op.kind = "CAPTURE_EVIDENCE" /\ ~op.aborted
  <2>1. QueueEvidenceCapture(op.snap) /\ Leave
    BY <1>5 DEF FailTurn
  <2>2. op.snap.status = "EVIDENCE_CAPTURE"
    BY <1>1, <1>5 DEF ServesStatus
  <2> QED
    BY <1>1, <2>1, <2>2, LeaveEnds, CaptureRequeued
<1>6. CASE op.kind = "RECOVER_FINALIZATION"
  <2>1. UNCHANGED <<issue, pending, asleep>> /\ Revalidated("failed")
    BY <1>6 DEF FailTurn
  <2> QED
    BY <1>6, <2>1, RevalidatedQueue
<1> QED
  BY <1>1, <1>2, <1>3, <1>4, <1>5, <1>6, OperationNames

(* The turn that was interrupted: queued again while the Runtime stops. *)
LEMMA TurnInterruptedQueue == ASSUME IInv, QueueInv, TurnInterrupted PROVE QueueInv'
<1>1. op.pc \in Turning /\ UNCHANGED <<binding, mode>>
  BY DEF TurnInterrupted, OperationFrame
<1>2. /\ Active /\ Claimed /\ op.snap \in Issue /\ op.kind \in AgentOperations
      /\ op.snap.status \in ServesStatus(op.kind) /\ op.snap.status \notin Halted
  BY <1>1, TurnServes
<1>3. CASE FailTurn("AGENT_FAILURE")
  BY <1>1, <1>3, FailTurnQueue DEF FailureCodes
<1>4. CASE Complete(op.snap, [op.snap EXCEPT !.revision = @ + 1], op.kind) /\ Leave
  <2> DEFINE next == [op.snap EXCEPT !.revision = @ + 1]
             o == op.kind
  <2>1. /\ SameRepair(op.snap, next) /\ next.status = op.snap.status
        /\ next.delivery = op.snap.delivery
    BY <1>2 DEF SameRepair, Issue
  <2>2. o \in {"ASSESS", "REPAIR", "CAPTURE_EVIDENCE", "RECOVER_FINALIZATION"}
        /\ next.status \in ServesStatus(o)
    BY <1>2, <2>1, OperationNames
  <2> HIDE DEF next, o
  <2>3. Equipped(op.snap) => Equipped(next)
    BY <2>1, <2>2
    DEF SameRepair, Equipped, Toward, Unassessed, Unrepaired, Assessed, Terminal, ServesStatus
  <2>4. Equipped(op.snap) => Fit(next, o, binding')
    BY <2>2, <2>3 DEF Fit, Equipped, Queued, ServesStatus, Terminal, None
  <2> QED
    BY <1>1, <1>2, <1>4, <2>4, LeaveEnds, OperationCompletes DEF next, o
<1> QED
  BY <1>3, <1>4 DEF TurnInterrupted

(* recordImplementationDraft: the Repair goes on with its new version, or  *)
(* leaves the evidence to be captured.                                     *)
LEMMA ImplementationReadyQueue == ASSUME IInv, QueueInv, ImplementationReady PROVE QueueInv'
<1> DEFINE drafted == RecordImplementationDraft(op.snap)
<1>1. /\ op.pc = "validating" /\ op.kind = "REPAIR" /\ Claimed /\ Active
      /\ UNCHANGED <<binding, mode>> /\ op \in Op
  BY QueueFacts DEF ImplementationReady, At, Claimed, Active, OperationFrame
<1>2. op.snap \in Issue /\ op.snap.status = "REPAIRING"
  BY <1>1, SnapshotFacts DEF ClaimedStatus
<1>3. Equipped(op.snap) => Fit(drafted, "CAPTURE_EVIDENCE", binding')
  BY <1>2, RecordImplementationDraftFits
<1>4. drafted.status = "EVIDENCE_CAPTURE"
  BY <1>2, RecordImplementationDraftAdvances
<1>5. CASE Complete(op.snap, drafted, "CAPTURE_EVIDENCE") /\ CleanUp("cleanup")
  BY <1>1, <1>2, <1>3, <1>5, OperationCompletes DEF Halted, Terminal
<1>6. CASE /\ Current(op.snap) /\ Store(drafted, None) /\ asleep' = asleep
           /\ op' = [op EXCEPT !.pc = "importing", !.snap = drafted, !.result = None]
  <2>1. op.snap = issue
    BY <1>1, <1>6 DEF IInv, SnapshotCurrent
  <2>2. issue' = drafted /\ pending' = None /\ Equipped(drafted) /\ Queued(drafted, None)
    BY <1>3, <1>6, <2>1, QueueFacts DEF Store, Fit, Queued, None
  <2> HIDE DEF drafted
  <2>3. /\ op'.pc = "importing" /\ op'.snap = drafted /\ op'.kind = "REPAIR"
        /\ op'.aborted = op.aborted /\ Claimed'
    BY <1>1, <1>6 DEF Op, Claimed
  <2>4. Equipping'
    BY <1>4, <2>3 DEF Equipping, Working
  <2>5. Dependable => ~asleep /\ ~op.aborted
    BY <1>1, <1>2, <2>1 DEF QueueInv, Served, Halted, Terminal
  <2>6. mode' = mode /\ mode # "recovered" /\ asleep' = asleep
    BY <1>1, <1>6, QueueFacts
  <2>7. Dependable => Served'
    BY <2>2, <2>3, <2>5, <2>6 DEF Served, Current
  <2> QED
    BY <2>2, <2>4, <2>7 DEF QueueInv, Dependable
<1> QED
  BY <1>5, <1>6 DEF ImplementationReady

(* The evidence is imported, or shown to the human. *)
LEMMA EvidenceReadyQueue ==
  ASSUME IInv, QueueInv, DeliveryImported \/ EvidenceReviewable
  PROVE  QueueInv'
<1>1. /\ Claimed /\ UNCHANGED <<binding, mode>> /\ (Settle \/ CleanUp("cleanup"))
  BY DEF DeliveryImported, EvidenceReviewable, At, Claimed, OperationFrame
<1>2. op.snap \in Issue /\ op.snap.status \in ClaimedStatus(op)
  BY <1>1, SnapshotFacts
<1>3. CASE DeliveryImported
  <2>1. op.snap.status = "EVIDENCE_CAPTURE"
    BY <1>2, <1>3 DEF DeliveryImported, At, ClaimedStatus, Turning
  <2>2. Equipped(op.snap) => Fit(RecordDelivery(op.snap), "EVIDENCE", binding')
    BY <1>2, <2>1, RecordDeliveryFits
  <2> QED
    BY <1>1, <1>3, <2>1, <2>2, OperationCompletes DEF DeliveryImported, Halted, Terminal
<1>4. CASE EvidenceReviewable
  <2>1. op.snap.status = "EVIDENCE_CHECK"
    BY <1>2, <1>4 DEF EvidenceReviewable, At, ClaimedStatus
  <2>2. Equipped(op.snap) =>
          Fit(RequestReview(RecordEvidenceAcceptance(op.snap), "delivery"), None, binding')
    BY <1>2, <2>1, AcceptedEvidenceFits
  <2> QED
    BY <1>1, <1>4, <2>1, <2>2, OperationCompletes DEF EvidenceReviewable, Halted, Terminal
<1> QED
  BY <1>3, <1>4

(* intake.cleanup *)
LEMMA IntakeRemovedQueue ==
  ASSUME IInv, QueueInv, IntakeRemoved \/ IntakeNotRemoved
  PROVE  QueueInv'
<1>1. /\ op.pc \in {"cleanup", "unwinding"} /\ Active /\ ~Claimed
      /\ UNCHANGED <<issue, pending, binding, mode>>
  BY DEF IntakeRemoved, IntakeNotRemoved, Active, Claimed, OperationFrame
<1>2. mode \notin {"down", "recovered"} /\ Equipped(issue') /\ Queued(issue', pending')
  BY <1>1, QueueFacts
<1>3. Settle \/ Reject
  BY DEF IntakeRemoved, IntakeNotRemoved
<1>4. op'.pc # "unwinding"
  BY <1>3 DEF Settle, Reject, NoOp
<1>5. Dependable => /\ asleep' => issue.status \in Halted
                    /\ mode = "up" /\ Waits(issue, binding) => pending # None
  BY <1>1
  DEF IntakeRemoved, IntakeNotRemoved, Settle, Reject, QueueInv, Served, Dependable
<1> QED
  BY <1>1, <1>2, <1>3, <1>4, <1>5, OperationEnds

(* Every step of the worker. *)
LEMMA WorkerNextQueue == ASSUME IInv, QueueInv, WorkerNext PROVE QueueInv'
<1>1. CASE \E result \in {"resolved", "unsafe"} : RecoveryReturned(result)
  BY <1>1, RevalidatedQueue DEF RecoveryReturned, InTurn, OperationFrame
<1>2. CASE \E code \in {"AGENT_FAILURE", "AGENT_SESSION_UNAVAILABLE"} : TurnFailed(code)
  BY <1>2, FailTurnQueue DEF TurnFailed, OperationFrame, FailureCodes
<1> QED
  BY <1>1, <1>2, AssessQueue, SessionQueue, ClaimQueue, RecoverFinalizationQueue,
     AgentUnavailableQueue, PhaseQueue, StageFailedQueue, AssessmentReturnedQueue,
     EvidenceReturnedQueue, CapabilityRequiredQueue, TurnInterruptedQueue,
     ImplementationReadyQueue, EvidenceReadyQueue, IntakeRemovedQueue
  DEF WorkerNext

-----------------------------------------------------------------------------
(* WorkspaceCoordinator, step by step.                                     *)

(* prepare: the issue has its path and is assessed, or its workspace failed. *)
LEMMA PreparedQueue ==
  ASSUME IInv, QueueInv, WorkspaceAcquired \/ WorkspaceNotAcquired
  PROVE  QueueInv'
<1>1. /\ op.pc = "acquiring" /\ Claimed /\ op.snap \in Issue /\ op.snap.status = "RECEIVED"
      /\ Settle /\ mode' = mode /\ (Current(op.snap) \/ binding' = binding)
  BY QueueFacts DEF WorkspaceAcquired, WorkspaceNotAcquired, At, Claimed, QueueInv, Equipping,
                    OperationFrame
<1>2. op.snap.status \notin Halted
  BY <1>1 DEF Halted, Terminal
<1>3. CASE WorkspaceAcquired
  <2> DEFINE next == [op.snap EXCEPT !.path = TRUE, !.revision = @ + 1]
  <2>1. next.status = "RECEIVED" /\ next.path = TRUE
    BY <1>1 DEF Issue
  <2>2. Complete(op.snap, next, "ASSESS")
    BY <1>3 DEF WorkspaceAcquired, Complete
  <2> HIDE DEF next
  <2>3. Fit(next, "ASSESS", binding')
    BY <2>1 DEF Fit, Equipped, Toward, Unassessed, Unrepaired, Queued, None
  <2> QED
    BY <1>1, <1>2, <2>2, <2>3, OperationCompletes
<1>4. CASE WorkspaceNotAcquired
  <2>1. Complete(op.snap, op.snap, None)
    BY <1>1, <1>4 DEF WorkspaceNotAcquired, Complete, IInv, SnapshotCurrent
  <2>2. CASE Current(op.snap)
    <3>1. binding' = "FAILED"
      BY <1>4, <2>2 DEF WorkspaceNotAcquired
    <3>2. Equipped(op.snap) => Fit(op.snap, None, binding')
      BY <1>1, <3>1 DEF Fit, Queued, Waits, None
    <3> QED
      BY <1>1, <1>2, <2>1, <3>2, OperationCompletes
  <2>3. CASE ~Current(op.snap)
    <3>1. UNCHANGED <<issue, pending, binding, mode>> /\ Active
      BY <1>1, <1>4, <2>3 DEF WorkspaceNotAcquired, Claimed, Active
    <3>2. Dependable => issue.status \in Halted
      BY <1>1, <2>3 DEF QueueInv, Served
    <3> QED
      BY <1>1, <3>1, <3>2, OperationDropped
  <2> QED
    BY <2>2, <2>3
<1> QED
  BY <1>3, <1>4

(* finalize: a stale base, a failed publication, a completed delivery *)
LEMMA FinalizedQueue ==
  ASSUME IInv, QueueInv, BaseStale \/ NotPublished \/ Released
  PROVE  QueueInv'
<1>1. /\ op.pc \in {"publishing", "releasing"} /\ Claimed /\ Settle /\ mode' = mode
      /\ op.snap \in Issue
      /\ Current(op.snap) \/ binding' = binding
  BY QueueFacts DEF BaseStale, NotPublished, Released, At, Claimed, OperationFrame
<1>2. op.snap.status = "FINALIZING"
  <2>1. op.kind = "FINALIZE"
    BY <1>1 DEF IInv, OperationFits
  <2> QED
    BY <1>1, <2>1, SnapshotFacts DEF ClaimedStatus
<1>3. op.snap.status \notin Halted
  BY <1>2 DEF Halted, Terminal
<1>4. CASE BaseStale
  <2>1. CanTransition(op.snap, "BASE_INTEGRATION_STALE")
    BY <1>2 DEF CanTransition, Transitions
  <2>2. Equipped(op.snap) => Fit(RecordBaseIntegrationStale(op.snap), "REPAIR", binding')
    BY <1>1, <1>2, <2>1, ReopenedFits DEF RecordBaseIntegrationStale, Target
  <2> QED
    BY <1>1, <1>3, <1>4, <2>2, OperationCompletes DEF BaseStale
<1>5. CASE NotPublished
  <2> DEFINE f == Failed(op.snap, "FINALIZATION_ERRORED", "FINALIZATION_RECOVERY",
                         "PUBLISH_FAILED")
             next == PublicationFailed(op.snap)
  <2>1. CanTransition(op.snap, "FINALIZATION_ERRORED")
    BY <1>2 DEF CanTransition, Transitions
  <2>2. f \in Issue /\ f.status = Target["FINALIZATION_ERRORED"]
    BY <1>1, <2>1, FailedAdvances DEF Stages, FailureCodes, Advances
  <2>3. Equipped(op.snap) => Equipped(f)
    BY <1>1, <1>2, <2>2, FailureFits DEF Fit
  <2>4. f.status = "FINALIZATION_FAILED"
    BY <2>2 DEF Target
  <2> HIDE DEF f
  <2>5. SameRepair(f, next) /\ next.status = f.status
    BY <2>2 DEF SameRepair, PublicationFailed, f, Issue
  <2>6. Complete(op.snap, next, None)
    BY <1>5 DEF NotPublished
  <2> HIDE DEF next
  <2>7. Equipped(op.snap) => Fit(next, None, binding')
    BY <2>3, <2>4, <2>5
    DEF Fit, SameRepair, Equipped, Toward, Unassessed, Unrepaired, Assessed, Terminal, Queued,
        Waits, Working, None
  <2> QED
    BY <1>1, <1>3, <2>6, <2>7, OperationCompletes
<1>6. CASE Released
  <2>1. CanTransition(op.snap, "COMPLETE_DELIVERY")
    BY <1>2 DEF CanTransition, Transitions
  <2>2. CompleteDelivery(op.snap).status = "COMPLETED"
    BY <1>1, <2>1, CompleteDeliveryAdvances
  <2>3. Fit(CompleteDelivery(op.snap), None, binding')
    BY <2>2, TerminalFits DEF Terminal
  <2> QED
    BY <1>1, <1>3, <1>6, <2>3, OperationCompletes DEF Released
<1> QED
  BY <1>4, <1>5, <1>6

(* What a legacy recovery has left is judged. *)
LEMMA JudgedQueue ==
  ASSUME IInv, QueueInv, op.pc \in {"validating", "binding"},
         op.kind = "RECOVER_FINALIZATION",
         NEW next, NEW operation, Judged(next, operation),
         Equipped(op.snap) => Fit(next, operation, binding')
  PROVE  QueueInv'
<1>1. /\ Claimed /\ Active /\ UNCHANGED <<binding, mode>>
      /\ Complete(op.snap, next, operation)
  BY DEF Claimed, Active, Judged, OperationFrame
<1>2. op.snap.status = "FINALIZATION_RECOVERY"
  BY <1>1, SnapshotFacts DEF ClaimedStatus
<1>3. CASE Settle
  BY <1>1, <1>2, <1>3, OperationCompletes DEF Halted, Terminal
<1>4. CASE ~Current(op.snap) /\ Reject
  <2>1. UNCHANGED <<issue, pending, binding, mode>>
    BY <1>1, <1>4 DEF Complete
  <2>2. Dependable => issue.status \in Halted
    BY <1>1, <1>4 DEF QueueInv, Served
  <2> QED
    BY <1>1, <1>4, <2>1, <2>2, OperationDropped
<1> QED
  BY <1>3, <1>4 DEF Judged

(* The judgements of it. *)
LEMMA RecoveryQueue ==
  ASSUME IInv, QueueInv,
         \/ RecoveryUnchanged \/ RecoveryUnsafe
         \/ RecoveryDeliveryBound \/ RecoveryDeliveryNotBound
  PROVE  QueueInv'
<1>1. op.pc \in {"validating", "binding"} /\ op.kind = "RECOVER_FINALIZATION"
  BY DEF RecoveryUnchanged, RecoveryUnsafe, RecoveryDeliveryBound, RecoveryDeliveryNotBound, At
<1>2. op.snap \in Issue /\ op.snap.status = "FINALIZATION_RECOVERY"
  <2>1. Claimed
    BY <1>1 DEF Claimed
  <2> QED
    BY <1>1, <2>1, SnapshotFacts DEF ClaimedStatus
<1>3. Equipped(op.snap) => Fit(RecordRecoveryUnchanged(op.snap), "FINALIZE", binding')
  BY <1>2, RecordRecoveryUnchangedFits
<1>4. Equipped(op.snap) => Fit(RecordRecoveryChanged(op.snap), "CAPTURE_EVIDENCE", binding')
  BY <1>2, RecordRecoveryChangedFits
<1>5. Equipped(op.snap) => Fit(RecordRecoveryUnsafe(op.snap), None, binding')
  <2>1. RecordRecoveryUnsafe(op.snap).status = Target["FINALIZATION_RECOVERY_ERRORED"]
    BY <1>2, RecordRecoveryUnsafeAdvances DEF Target
  <2> QED
    BY <1>2, <2>1, FailureFits DEF RecordRecoveryUnsafe
<1> QED
  BY <1>1, <1>3, <1>4, <1>5, JudgedQueue
  DEF RecoveryUnchanged, RecoveryUnsafe, RecoveryDeliveryBound, RecoveryDeliveryNotBound

(* Every step of the coordinator. *)
LEMMA WorkspaceNextQueue == ASSUME IInv, QueueInv, WorkspaceNext PROVE QueueInv'
BY StayingQueue, PreparedQueue, FinalizedQueue, PhaseQueue, RecoveryQueue DEF WorkspaceNext

-----------------------------------------------------------------------------
(* The commands.                                                           *)

(* A command that stops the issue, or queues its next operation while it   *)
(* waits for the human, leaves nobody waiting.                             *)
LEMMA CommandQueued ==
  ASSUME IInv, QueueInv, mode = "up", UNCHANGED <<binding, mode>>,
         op'.pc = op.pc, op'.kind = op.kind, op'.snap = op.snap,
         Fit(issue', pending', binding'), issue'.path = issue.path,
         \/ issue'.status \in Halted
         \/ /\ issue.status \notin Working
            /\ issue.status \in Halted => ~Active
            /\ ~asleep' /\ op'.aborted = op.aborted
  PROVE  QueueInv'
<1>1. (Claimed' <=> Claimed) /\ (Active' <=> Active) /\ (Claimed => Active)
  BY DEF Claimed, Active
<1>2. Equipping'
  BY <1>1 DEF QueueInv, Equipping
<1>3. CASE issue'.status \in Halted
  <2>1. Served'
    BY <1>3 DEF Served, Waits, Working, Halted, Terminal
  <2> QED
    BY <1>2, <2>1 DEF QueueInv, Fit
<1>4. CASE issue.status \notin Working /\ (issue.status \in Halted => ~Active) /\ ~asleep'
           /\ op'.aborted = op.aborted
  <2>1. Dependable => ~Claimed
    <3>1. Claimed => ~Current(op.snap)
      BY <1>4 DEF IInv, SnapshotCurrent, QueueInv, Equipping
    <3> QED
      BY <1>1, <1>4, <3>1 DEF QueueInv, Served
  <2>2. Dependable => ~(Active /\ op.aborted) /\ op.pc # "unwinding"
    BY <1>1, <1>4 DEF QueueInv, Served, Active
  <2>3. Dependable => Served'
    BY <1>1, <1>4, <2>1, <2>2 DEF Served, Fit
  <2> QED
    BY <1>2, <2>3 DEF QueueInv, Fit, Dependable
<1> QED
  BY <1>3, <1>4

(* change with a pending operation, while the issue waits for the human *)
LEMMA QueuedByCommand ==
  ASSUME IInv, QueueInv, Commanded, NEW next, NEW operation, Queue(next, operation),
         Fit(next, operation, binding), next.path = issue.path,
         issue.status \notin Working, issue.status \in Halted => ~Active
  PROVE  QueueInv'
<1>1. issue' = next /\ pending' = operation /\ ~asleep' /\ UNCHANGED <<binding, mode, op>>
  BY DEF Queue, Store, Wake
<1>2. mode = "up" /\ Fit(issue', pending', binding') /\ issue'.path = issue.path
  BY <1>1 DEF Commanded
<1> QED
  BY <1>1, <1>2, CommandQueued

(* The statuses a human takes the issue on from. *)
LEMMA HumanStatuses ==
  /\ {"REVIEW_REQUIRED", "ASSESSMENT_FAILED", "REPAIR_FAILED", "EVIDENCE_FAILED",
      "FINALIZATION_FAILED", "PERMISSION_REQUIRED", "PAUSED"} \cap Working = {}
  /\ {"REVIEW_REQUIRED", "ASSESSMENT_FAILED", "REPAIR_FAILED", "EVIDENCE_FAILED",
      "FINALIZATION_FAILED", "PERMISSION_REQUIRED"} \cap Halted = {}
BY DEF Working, Halted, Terminal

(* The choices of a review: where they lead, and from which review. *)
LEMMA ReviewChosen ==
  ASSUME NEW i \in Issue, NEW choice \in ReviewChoices(i)
  PROVE  \/ choice.resume = "CLOSED" /\ choice.operation = None
         \/ choice.id = "reassess" /\ choice.resume = "ASSESSING" /\ choice.operation = "ASSESS"
         \/ choice.id = "implement" /\ choice.resume = "REPAIRING" /\ choice.operation = "REPAIR"
         \/ /\ choice.id \in {"request-changes", "business"} /\ i.review # "assessment"
            /\ choice.resume = "REPAIRING" /\ choice.operation = "REPAIR"
         \/ /\ choice.id = "accept" /\ i.review # "assessment"
            /\ choice.resume = "FINALIZING" /\ choice.operation = "FINALIZE"
<1>1. CASE i.review = "assessment"
  <2>1. choice \in AssessmentChoices(i)
    BY <1>1 DEF ReviewChoices
  <2>2. \/ choice = Choice("implement", "REPAIRING", "REPAIR", None)
        \/ choice = Choice("not-a-bug", "CLOSED", None, "NOT_A_BUG")
        \/ choice = Choice("duplicate", "CLOSED", None, "DUPLICATE")
        \/ choice = Choice("reassess", "ASSESSING", "ASSESS", None)
    BY <2>1 DEF AssessmentChoices
  <2> QED
    BY <2>2 DEF Choice
<1>2. CASE i.review = "delivery"
  <2>1. choice \in DeliveryChoices(i)
    BY <1>2 DEF ReviewChoices
  <2> QED
    BY <1>2, <2>1 DEF DeliveryChoices, Choice
<1>3. CASE i.review = "business-merge-conflict"
  <2>1. choice \in BusinessChoices
    BY <1>3 DEF ReviewChoices
  <2> QED
    BY <1>3, <2>1 DEF BusinessChoices, Choice
<1> QED
  BY <1>1, <1>2, <1>3 DEF ReviewChoices

(* submitReview leaves what the operation it queues needs: a repair has an *)
(* iteration, and what is published was assessed and repaired.             *)
LEMMA SubmitReviewFits ==
  ASSUME NEW i \in Issue, NEW b, Equipped(i), i.status = "REVIEW_REQUIRED",
         NEW choice \in ReviewChoices(i)
  PROVE  /\ Fit(SubmitReview(i, choice), choice.operation, b)
         /\ SubmitReview(i, choice).path = i.path
<1> DEFINE m == Moved(i, choice.resume)
           selected == [m EXCEPT
             !.resolution = IF choice.resolution = None THEN @ ELSE choice.resolution,
             !.review = None, !.failure = NoFailure]
           n == SubmitReview(i, choice)
<1>1. n.status = choice.resume
  BY SubmitReviewAdvances
<1>2. m \in Issue /\ SameRepair(i, m)
  BY ReviewChoicesFit, MovedAdvances DEF Advances, SameRepair, Moved, Issue
<1> HIDE DEF m
<1>3. selected \in Issue /\ SameRepair(m, selected)
  BY <1>2, ReviewChoicesFit, Cleared DEF SameRepair, Issue
<1>4. n \in
        { selected,
          [selected EXCEPT !.iteration = @ + 1, !.retries = 0, !.draft = 0, !.delivery = 0],
          [selected EXCEPT !.assessment = NoAssessment],
          [selected EXCEPT !.iteration = @ + 1],
          [selected EXCEPT !.recovery = "ARMED"],
          [selected EXCEPT !.grants = {}, !.request = NoRequest, !.recovery = None] }
  BY DEF SubmitReview, selected, m
<1>5. choice.id = "implement" /\ choice.resume = "REPAIRING" =>
        n = [selected EXCEPT !.iteration = @ + 1, !.retries = 0, !.draft = 0, !.delivery = 0]
  BY DEF SubmitReview, selected, m
<1>6. choice.id = "request-changes" /\ choice.resume = "REPAIRING" =>
        n = [selected EXCEPT !.iteration = @ + 1]
  BY DEF SubmitReview, selected, m
<1>7. choice.id = "accept" /\ choice.resume = "FINALIZING" =>
        n = [selected EXCEPT !.recovery = "ARMED"]
  BY DEF SubmitReview, selected, m
<1>8. choice.id = "business" /\ choice.resume = "REPAIRING" => n = selected
  BY DEF SubmitReview, selected, m
<1> HIDE DEF n, selected
<1>9. n.path = i.path
  BY <1>2, <1>3, <1>4 DEF SameRepair, Issue
<1>10. /\ i.path /\ Assessed(i) /\ i.iteration \in Nat
       /\ i.review # "assessment" => i.iteration > 0
  BY DEF Equipped, Toward, Unassessed, Unrepaired, Terminal, Issue
<1>11. CASE choice.resume = "CLOSED" /\ choice.operation = None
  BY <1>1, <1>9, <1>11, TerminalFits DEF Terminal, n
<1>12. CASE choice.resume = "ASSESSING" /\ choice.operation = "ASSESS"
  BY <1>1, <1>9, <1>10, <1>12
  DEF Fit, Equipped, Toward, Unassessed, Unrepaired, Terminal, Queued, None, n
<1>13. CASE choice.resume = "REPAIRING" /\ choice.operation = "REPAIR"
            /\ (choice.id = "implement"
                \/ (choice.id \in {"request-changes", "business"} /\ i.review # "assessment"))
  <2>1. ASSUME choice.id = "implement" PROVE Assessed(n) /\ n.iteration > 0
    <3>1. /\ n.session = selected.session /\ n.assessment = selected.assessment
          /\ n.iteration = selected.iteration + 1
      BY <1>3, <1>5, <1>13, <2>1 DEF Issue
    <3> QED
      BY <1>2, <1>3, <1>10, <3>1 DEF Assessed, SameRepair
  <2>2. ASSUME choice.id = "request-changes" PROVE Assessed(n) /\ n.iteration > 0
    <3>1. /\ n.session = selected.session /\ n.assessment = selected.assessment
          /\ n.iteration = selected.iteration + 1
      BY <1>3, <1>6, <1>13, <2>2 DEF Issue
    <3> QED
      BY <1>2, <1>3, <1>10, <3>1 DEF Assessed, SameRepair
  <2>3. ASSUME choice.id = "business", i.review # "assessment"
        PROVE  Assessed(n) /\ n.iteration > 0
    BY <1>2, <1>3, <1>8, <1>10, <1>13, <2>3 DEF Assessed, SameRepair
  <2>4. Assessed(n) /\ n.iteration > 0
    BY <1>13, <2>1, <2>2, <2>3 DEF Assessed
  <2> QED
    BY <1>1, <1>9, <1>10, <1>13, <2>4
    DEF Fit, Equipped, Toward, Unassessed, Unrepaired, Terminal, Queued, None, n
<1>14. CASE choice.id = "accept" /\ i.review # "assessment"
            /\ choice.resume = "FINALIZING" /\ choice.operation = "FINALIZE"
  <2>1. /\ n.session = selected.session /\ n.assessment = selected.assessment
        /\ n.iteration = selected.iteration
    BY <1>3, <1>7, <1>14 DEF Issue
  <2>2. Assessed(n) /\ n.iteration > 0
    BY <1>2, <1>3, <1>10, <1>14, <2>1 DEF Assessed, SameRepair
  <2> QED
    BY <1>1, <1>9, <1>10, <1>14, <2>2
    DEF Fit, Equipped, Toward, Unassessed, Unrepaired, Terminal, Queued, None, n
<1> QED
  BY <1>11, <1>12, <1>13, <1>14, ReviewChosen

(* submitReview *)
LEMMA SubmitReviewedQueue ==
  ASSUME IInv, QueueInv, NEW choice \in ReviewChoices(issue), SubmitReviewed(choice)
  PROVE  QueueInv'
<1> DEFINE next == SubmitReview(issue, choice)
<1>1. /\ mode = "up" /\ issue.status = "REVIEW_REQUIRED"
      /\ issue' = next /\ pending' = choice.operation
      /\ asleep' = IF choice.operation = None THEN asleep ELSE FALSE
      /\ UNCHANGED <<binding, mode, op>>
  BY DEF SubmitReviewed, CanReview, Commanded, Store
<1>2. issue \in Issue /\ Equipped(issue)
  BY QueueFacts
<1>3. Fit(next, choice.operation, binding') /\ next.path = issue.path
  BY <1>1, <1>2, SubmitReviewFits
<1>4. next.status = choice.resume
  BY <1>2, SubmitReviewAdvances
<1> HIDE DEF next
<1>5. choice.operation = None => next.status \in Halted
  BY <1>2, <1>4, ReviewChosen DEF Halted, Terminal, None
<1>6. issue.status \notin Working /\ issue.status \notin Halted
  BY <1>1, HumanStatuses
<1> QED
  BY <1>1, <1>3, <1>5, <1>6, CommandQueued

(* retryAssessment: the workspace is there. *)
LEMMA RetryAssessmentFits ==
  ASSUME NEW i \in Issue, NEW b, i.path, i.status = "ASSESSMENT_FAILED"
  PROVE  /\ Fit(RetryAssessment(i), "ASSESS", b)
         /\ RetryAssessment(i).status = "ASSESSING"
         /\ RetryAssessment(i).path = i.path
<1> DEFINE t == Transition(i, "RETRY_ASSESSMENT")
           n == RetryAssessment(i)
<1>1. CanTransition(i, "RETRY_ASSESSMENT")
  BY DEF CanTransition, Transitions
<1>2. n.status = "ASSESSING"
  BY <1>1, RetryAssessmentAdvances
<1>3. t \in Issue /\ SameRepair(i, t)
  BY <1>1, TransitionAdvances, TransitionKeeps DEF Advances
<1> HIDE DEF t
<1>4. n.path = t.path
  BY <1>3 DEF RetryAssessment, t, Issue
<1> HIDE DEF n
<1>5. Fit(n, "ASSESS", b) /\ n.path = i.path
  BY <1>2, <1>3, <1>4
  DEF Fit, SameRepair, Equipped, Toward, Unassessed, Unrepaired, Terminal, Queued, None
<1> QED
  BY <1>2, <1>5 DEF n

(* retryRepair: a new iteration of it. *)
LEMMA RetryRepairFits ==
  ASSUME NEW i \in Issue, NEW b, Equipped(i), i.status = "REPAIR_FAILED"
  PROVE  /\ Fit(RetryRepair(i), "REPAIR", b)
         /\ RetryRepair(i).status = "REPAIRING"
         /\ RetryRepair(i).path = i.path
<1> DEFINE t == Transition(i, "RETRY_REPAIR")
           n == RetryRepair(i)
<1>1. CanTransition(i, "RETRY_REPAIR")
  BY DEF CanTransition, Transitions
<1>2. n.status = "REPAIRING"
  BY <1>1, RetryRepairAdvances
<1>3. t \in Issue /\ SameRepair(i, t)
  BY <1>1, TransitionAdvances, TransitionKeeps DEF Advances
<1> HIDE DEF t
<1>4. /\ n.path = t.path /\ n.session = t.session /\ n.assessment = t.assessment
      /\ n.iteration = t.iteration + 1 /\ t.iteration \in Nat
  BY <1>3 DEF RetryRepair, t, Issue
<1> HIDE DEF n
<1>5. Fit(n, "REPAIR", b) /\ n.path = i.path
  BY <1>2, <1>3, <1>4
  DEF Fit, SameRepair, Equipped, Toward, Unassessed, Unrepaired, Assessed, Terminal, Queued, None
<1> QED
  BY <1>2, <1>5 DEF n

(* retryEvidence: with the draft there is. *)
LEMMA RetryEvidenceFits ==
  ASSUME NEW i \in Issue, NEW b, Equipped(i), i.status = "EVIDENCE_FAILED"
  PROVE  Fit(RetryEvidence(i), "CAPTURE_EVIDENCE", b) /\ RetryEvidence(i).path = i.path
<1> DEFINE n == RetryEvidence(i)
<1>1. n.status = "EVIDENCE_CAPTURE"
  BY RetryEvidenceAdvances
<1>2. SameRepair(i, n)
  BY DEF SameRepair, RetryEvidence, Transition, Moved, Issue
<1> HIDE DEF n
<1>3. Fit(n, "CAPTURE_EVIDENCE", b) /\ n.path = i.path
  BY <1>1, <1>2
  DEF Fit, SameRepair, Equipped, Toward, Unassessed, Unrepaired, Assessed, Terminal, Queued, None
<1> QED
  BY <1>3 DEF n

(* retryIssue *)
LEMMA RetryQueue == ASSUME IInv, QueueInv, Retry PROVE QueueInv'
<1>1. issue \in Issue /\ Equipped(issue) /\ Commanded
  BY QueueFacts DEF Retry
<1>2. CASE issue.status = "ASSESSMENT_FAILED" /\ Queue(RetryAssessment(issue), "ASSESS")
  <2>1. issue.path
    BY <1>1, <1>2 DEF Equipped, Terminal
  <2>2. Fit(RetryAssessment(issue), "ASSESS", binding) /\ RetryAssessment(issue).path = issue.path
    BY <1>1, <1>2, <2>1, RetryAssessmentFits
  <2> QED
    BY <1>1, <1>2, <2>2, HumanStatuses, QueuedByCommand
<1>3. CASE issue.status = "REPAIR_FAILED" /\ Queue(RetryRepair(issue), "REPAIR")
  BY <1>1, <1>3, RetryRepairFits, HumanStatuses, QueuedByCommand
<1>4. CASE issue.status = "EVIDENCE_FAILED" /\ Queue(RetryEvidence(issue), "CAPTURE_EVIDENCE")
  BY <1>1, <1>4, RetryEvidenceFits, HumanStatuses, QueuedByCommand
<1> QED
  BY <1>2, <1>3, <1>4 DEF Retry

(* approveDelivery of an issue that could not be finalized *)
LEMMA RepairFinalizationQueue == ASSUME IInv, QueueInv, RepairFinalization PROVE QueueInv'
<1>1. /\ issue \in Issue /\ Equipped(issue) /\ Commanded /\ issue.status = "FINALIZATION_FAILED"
      /\ Queue(RetryFinalizationAsRepair(issue), "REPAIR")
  BY QueueFacts DEF RepairFinalization, CanRepairFinalization
<1>2. CanTransition(issue, "RETRY_FINALIZATION_REPAIR")
  BY <1>1 DEF CanTransition, Transitions
<1>3. /\ Fit(RetryFinalizationAsRepair(issue), "REPAIR", binding)
      /\ RetryFinalizationAsRepair(issue).path = issue.path
  BY <1>1, <1>2, ReopenedFits DEF RetryFinalizationAsRepair, Target
<1> QED
  BY <1>1, <1>3, HumanStatuses, QueuedByCommand

(* rebuildAgentSession: what the failed stage was given is kept. *)
LEMMA RebuildAgentSessionQueue == ASSUME IInv, QueueInv, RebuildAgentSession PROVE QueueInv'
<1> DEFINE next == ReplaceAgentSession(issue)
<1>1. /\ issue \in Issue /\ Equipped(issue) /\ Commanded
      /\ issue.status \in {"ASSESSMENT_FAILED", "REPAIR_FAILED"}
      /\ Queue(next, IF issue.status = "ASSESSMENT_FAILED" THEN "ASSESS" ELSE "REPAIR")
  BY QueueFacts DEF RebuildAgentSession, CanRebuild, CanReplaceAgentSession
<1>2. CASE issue.status = "ASSESSMENT_FAILED"
  <2> DEFINE r == RetryAssessment(issue)
  <2>1. issue.path
    BY <1>1, <1>2 DEF Equipped, Terminal
  <2>2. r.status = "ASSESSING" /\ r.path = issue.path
    BY <1>1, <1>2, <2>1, RetryAssessmentFits
  <2>3. CanTransition(issue, "RETRY_ASSESSMENT")
    BY <1>2 DEF CanTransition, Transitions
  <2>4. r \in Issue
    BY <1>1, <2>3, RetryAssessmentAdvances DEF Advances
  <2>5. next = [r EXCEPT !.assessment = issue.assessment]
    BY <1>2 DEF ReplaceAgentSession
  <2> HIDE DEF next, r
  <2>6. next.status = r.status /\ next.path = r.path
    BY <2>4, <2>5 DEF Issue
  <2>7. Fit(next, "ASSESS", binding)
    BY <2>1, <2>2, <2>6
    DEF Fit, Equipped, Toward, Unassessed, Unrepaired, Terminal, Queued, None
  <2> QED
    BY <1>1, <1>2, <2>2, <2>6, <2>7, HumanStatuses, QueuedByCommand
<1>3. CASE issue.status = "REPAIR_FAILED"
  <2> DEFINE r == RetryRepair(issue)
  <2>1. r.status = "REPAIRING" /\ Fit(r, "REPAIR", binding) /\ r.path = issue.path
    BY <1>1, <1>3, RetryRepairFits
  <2>2. CanTransition(issue, "RETRY_REPAIR")
    BY <1>3 DEF CanTransition, Transitions
  <2>3. r \in Issue
    BY <1>1, <2>2, RetryRepairAdvances DEF Advances
  <2>4. next = [r EXCEPT !.retries = issue.retries, !.draft = issue.draft]
    BY <1>3 DEF ReplaceAgentSession
  <2> HIDE DEF next, r
  <2>5. /\ next.status = r.status /\ next.path = r.path /\ next.session = r.session
        /\ next.assessment = r.assessment /\ next.iteration = r.iteration
    BY <2>3, <2>4 DEF Issue
  <2>6. Fit(next, "REPAIR", binding)
    BY <2>1, <2>5
    DEF Fit, Equipped, Toward, Unassessed, Unrepaired, Assessed, Terminal, Queued, None
  <2> QED
    BY <1>1, <1>3, <2>1, <2>5, <2>6, HumanStatuses, QueuedByCommand
<1> QED
  BY <1>1, <1>2, <1>3

(* grantIssueCapabilities *)
LEMMA GrantCapabilitiesQueue == ASSUME IInv, QueueInv, GrantCapabilities PROVE QueueInv'
<1> DEFINE o == issue.request.operation
           next == GrantCapabilityRequest(issue)
<1>1. /\ issue \in Issue /\ Equipped(issue) /\ Commanded
      /\ issue.status = "PERMISSION_REQUIRED" /\ o # None /\ Queue(next, o)
  BY QueueFacts DEF GrantCapabilities, CanGrant
<1>2. o \in AgentOperations /\ next.status = ResumeStatus[o]
  BY <1>1, GrantCapabilityRequestAdvances
<1>3. SameRepair(issue, next)
  BY <1>1 DEF SameRepair, GrantCapabilityRequest, Moved, Issue
<1> HIDE DEF next
<1>4. Fit(next, o, binding)
  BY <1>1, <1>2, <1>3, ResumedFits
<1>5. next.path = issue.path
  BY <1>3 DEF SameRepair
<1> QED
  BY <1>1, <1>4, <1>5, HumanStatuses, QueuedByCommand

(* resumeIssue: nothing runs any more. *)
LEMMA ResumeIssueQueue == ASSUME IInv, QueueInv, ResumeIssue PROVE QueueInv'
<1> DEFINE o == issue.pause.operation
           next == Resume(issue)
<1>1. /\ issue \in Issue /\ Equipped(issue) /\ Commanded
      /\ issue.status = "PAUSED" /\ issue.pause.ready /\ Queue(next, o)
  BY QueueFacts DEF ResumeIssue, CanResume
<1>2. o \in AgentOperations /\ ~Active
  BY <1>1 DEF IInv, RowFits, ReadyMeansQuiet
<1>3. next.status = ResumeStatus[o]
  BY <1>1, <1>2, ResumeAdvances
<1>4. SameRepair(issue, next)
  BY <1>1 DEF SameRepair, Resume, Moved, Issue
<1> HIDE DEF next
<1>5. Fit(next, o, binding)
  BY <1>1, <1>2, <1>3, <1>4, ResumedFits
<1>6. next.path = issue.path
  BY <1>4 DEF SameRepair
<1> QED
  BY <1>1, <1>2, <1>5, <1>6, HumanStatuses, QueuedByCommand

(* The input of a group's issue: what is queued for it stays. *)
LEMMA AppendInputQueue == ASSUME IInv, QueueInv, AppendInput PROVE QueueInv'
<1> DEFINE next == [issue EXCEPT !.revision = @ + 1]
<1>1. /\ issue \in Issue /\ Equipped(issue) /\ Queued(issue, pending) /\ issue' = next
      /\ "input" \in Faults /\ UNCHANGED <<pending, mode, op>>
  BY QueueFacts DEF AppendInput
<1>2. /\ SameRepair(issue, next) /\ next.status = issue.status
      /\ next.delivery = issue.delivery /\ next.review = issue.review
      /\ next.pause = issue.pause /\ next.request = issue.request
  BY <1>1 DEF SameRepair, Issue
<1> HIDE DEF next
<1>3. Equipped(next) /\ Queued(next, pending)
  BY <1>1, <1>2
  DEF SameRepair, Equipped, Toward, Unassessed, Unrepaired, Assessed, Queued
<1>4. Equipping'
  BY <1>1, <1>2 DEF QueueInv, Equipping, Claimed, SameRepair
<1>5. ~Dependable
  BY <1>1 DEF Dependable
<1> QED
  BY <1>1, <1>3, <1>4, <1>5 DEF QueueInv, Dependable

(* cancelIssue and pauseIssue: the issue is stopped, nothing is queued. *)
LEMMA StopIssueQueue == ASSUME IInv, QueueInv, CancelIssue \/ PauseIssue PROVE QueueInv'
<1>1. /\ issue \in Issue /\ op \in Op /\ Equipped(issue) /\ mode = "up"
      /\ UNCHANGED <<binding, mode>>
  BY QueueFacts DEF CancelIssue, PauseIssue, Commanded
<1>2. "USER_CANCELED" \in Interruptions /\ "USER_PAUSED" \in Interruptions
  BY DEF Interruptions
<1>3. op'.pc = op.pc /\ op'.kind = op.kind /\ op'.snap = op.snap
  <2>1. CASE CancelIssue
    BY <1>1, <1>2, <2>1, InterruptedKeeps DEF CancelIssue
  <2>2. CASE PauseIssue
    <3> DEFINE o == IF issue.session THEN Interrupted(op, "USER_PAUSED") ELSE op
    <3>1. o \in Op /\ o.pc = op.pc /\ o.kind = op.kind /\ o.snap = op.snap
      BY <1>1, <1>2, InterruptedKeeps
    <3>2. op' = IF Active THEN [o EXCEPT !.aborted = TRUE] ELSE op
      BY <2>2 DEF PauseIssue
    <3> HIDE DEF o
    <3> QED
      BY <3>1, <3>2 DEF Op
  <2> QED
    BY <2>1, <2>2
<1>4. CASE CancelIssue
  <2>1. issue' = Cancel(issue) /\ pending' = None /\ CanTransition(issue, "CANCEL")
    BY <1>4 DEF CancelIssue, Store
  <2>2. issue'.status = "CANCELED"
    BY <1>1, <2>1, CancelAdvances
  <2>3. issue'.path = issue.path
    BY <1>1, <2>1 DEF Cancel, Ended, Transition, Moved, Issue
  <2>4. Fit(issue', pending', binding')
    BY <2>1, <2>2, TerminalFits DEF Terminal
  <2> QED
    BY <1>1, <1>3, <2>2, <2>3, <2>4, CommandQueued DEF Halted, Terminal
<1>5. CASE PauseIssue
  <2>1. issue' = Pause(issue) /\ pending' = None /\ CanTransition(issue, "PAUSE")
    BY <1>5 DEF PauseIssue, Store
  <2>2. issue'.status = "PAUSED"
    BY <1>1, <2>1, PauseAdvances
  <2>3. Fit(issue', pending', binding') /\ issue'.path = issue.path
    BY <1>1, <2>1, PauseFits
  <2> QED
    BY <1>1, <1>3, <2>2, <2>3, CommandQueued DEF Halted
<1> QED
  BY <1>4, <1>5

(* Every command. *)
LEMMA CommandNextQueue == ASSUME IInv, QueueInv, CommandNext PROVE QueueInv'
BY SubmitReviewedQueue, RetryQueue, RepairFinalizationQueue, RebuildAgentSessionQueue,
   GrantCapabilitiesQueue, AppendInputQueue, StopIssueQueue, ResumeIssueQueue
DEF CommandNext

(* pauseIssue, after its first await: at most the pause becomes ready. *)
LEMMA PauserNextQueue == ASSUME IInv, QueueInv, PauserNext PROVE QueueInv'
<1>1. UNCHANGED <<binding, mode, op, asleep>> /\ issue \in Issue /\ Equipped(issue)
  BY QueueFacts DEF PauserNext, PauseCanceled, PauseNotCanceled, PauseSettled, PauserFrame
<1>2. CASE UNCHANGED <<issue, pending>>
  BY <1>1, <1>2
  DEF QueueInv, Equipping, Served, Claimed, Active, Current, Dependable
<1>3. CASE /\ issue.status = "PAUSED" /\ ~Active
           /\ issue' = CompleteIssuePause(issue) /\ pending' = None
  <2> DEFINE next == CompleteIssuePause(issue)
  <2>1. /\ SameRepair(issue, next) /\ next.status = "PAUSED"
        /\ next.pause.operation = issue.pause.operation
    BY <1>1, <1>3 DEF SameRepair, CompleteIssuePause, Issue, PauseContext
  <2> HIDE DEF next
  <2>2. Equipped(next) /\ Queued(next, None)
    BY <1>1, <1>3, <2>1
    DEF SameRepair, Equipped, Toward, Unassessed, Unrepaired, Assessed, Terminal, Queued, None
  <2>3. Equipping'
    BY <1>1, <1>3 DEF Equipping, Claimed, Active, Turning
  <2>4. Served'
    BY <1>1, <1>3, <2>1 DEF Served, Waits, Working, Halted, Terminal, next
  <2> QED
    BY <1>3, <2>2, <2>3, <2>4 DEF QueueInv, next
<1> QED
  BY <1>2, <1>3
  DEF PauserNext, PauseCanceled, PauseNotCanceled, PauseSettled, MarksReady, Store

-----------------------------------------------------------------------------
(* The process: its start, its end.                                        *)

(* What recover() queues finds its status. *)
LEMMA RecoveryOperationQueued ==
  ASSUME NEW i, i.path, Queued(i, pending)
  PROVE  /\ Queued(i, RecoveryOperation(i))
         /\ i.status \in {"RECEIVED", "FINALIZING", "FINALIZATION_RECOVERY"}
              => RecoveryOperation(i) # None
<1>1. CASE i.status = "FINALIZATION_RECOVERY"
  BY <1>1 DEF RecoveryOperation, Queued, None
<1>2. CASE i.status = "FINALIZING"
  BY <1>2 DEF RecoveryOperation, Queued, None
<1>3. CASE /\ i.status \notin {"FINALIZATION_RECOVERY", "FINALIZING"}
           /\ pending \in {"ASSESS", "REPAIR"}
  <2>1. RecoveryOperation(i) = pending
    BY <1>3 DEF RecoveryOperation
  <2> QED
    BY <1>3, <2>1 DEF None
<1>4. CASE /\ i.status \notin {"FINALIZATION_RECOVERY", "FINALIZING"}
           /\ pending \notin {"ASSESS", "REPAIR"}
  <2>1. RecoveryOperation(i) = IF i.status = "RECEIVED" THEN "ASSESS" ELSE None
    BY <1>4 DEF RecoveryOperation
  <2> QED
    BY <1>4, <2>1 DEF Queued, None
<1> QED
  BY <1>1, <1>2, <1>3, <1>4

(* Before the Runtime is ready nothing runs: what serves the issue is the  *)
(* queue alone.                                                            *)
LEMMA StartedQueue ==
  ASSUME op' = NoOp, Equipped(issue'), Queued(issue', pending'),
         Dependable =>
           /\ asleep' => issue'.status \in Halted
           /\ mode' = "up" /\ Waits(issue', binding') => pending' # None
           /\ /\ mode' = "recovered" /\ Waits(issue', binding')
              /\ issue'.status \in {"RECEIVED", "FINALIZING", "FINALIZATION_RECOVERY"}
              => pending' # None
  PROVE  QueueInv'
<1>1. op'.pc = "idle" /\ op'.kind = None
  BY DEF NoOp
<1>2. Equipping'
  BY <1>1 DEF Equipping, Claimed, None
<1>3. Dependable => Served'
  BY <1>1 DEF Served, Claimed, Active
<1> QED
  BY <1>2, <1>3 DEF QueueInv, Dependable

(* reconcileWorkspaceIssues *)
LEMMA RecoverWorkspacesQueue == ASSUME IInv, QueueInv, RecoverWorkspaces PROVE QueueInv'
<1>1. /\ mode = "down" /\ mode' = "recovered" /\ op = NoOp /\ UNCHANGED <<op, asleep>>
      /\ issue \in Issue /\ Equipped(issue) /\ Queued(issue, pending)
  BY QueueFacts DEF RecoverWorkspaces
<1>2. Dependable => (asleep => issue.status \in Halted)
  BY DEF QueueInv, Served
<1>3. CASE issue.status \in Terminal
  <2>1. UNCHANGED <<issue, pending, binding>>
    BY <1>3 DEF RecoverWorkspaces
  <2> QED
    BY <1>1, <1>2, <1>3, <2>1, StartedQueue DEF Terminal
<1>4. CASE issue.status \notin Terminal /\ NeverPrepared
  <2>1. issue' = issue /\ pending' = "PREPARE"
    BY <1>4 DEF RecoverWorkspaces, Store
  <2>2. Queued(issue, "PREPARE") /\ "PREPARE" # None
    BY <1>4 DEF NeverPrepared, Queued, None
  <2> QED
    BY <1>1, <1>2, <2>1, <2>2, StartedQueue
<1>5. CASE "provider" \in Faults /\ FailedRecovery
  <2>1. issue' = issue /\ pending' = None /\ ~Dependable
    BY <1>5 DEF FailedRecovery, Store, Dependable
  <2>2. Queued(issue, None)
    BY DEF Queued, None
  <2> QED
    BY <1>1, <2>1, <2>2, StartedQueue
<1>6. CASE issue.path /\ Store(issue, RecoveryOperation(issue))
  <2>1. issue' = issue /\ pending' = RecoveryOperation(issue)
    BY <1>6 DEF Store
  <2> QED
    BY <1>1, <1>2, <1>6, <2>1, RecoveryOperationQueued, StartedQueue
<1>7. CASE ~issue.path /\ RestoredBinding /\ ~NeverPrepared /\ issue.status \notin Terminal
  <2> DEFINE r == [issue EXCEPT !.path = TRUE, !.revision = @ + 1]
  <2>1. issue' = r /\ pending' = RecoveryOperation(r)
    BY <1>7 DEF RestoredBinding, Store
  <2>2. /\ r.path = TRUE /\ r.status = issue.status /\ r.session = issue.session
        /\ r.assessment = issue.assessment /\ r.iteration = issue.iteration
        /\ r.draft = issue.draft /\ r.delivery = issue.delivery /\ r.review = issue.review
        /\ r.pause = issue.pause /\ r.request = issue.request
    BY <1>1 DEF Issue
  <2>3. issue.status = "RECEIVED"
    BY <1>1, <1>7 DEF Equipped
  <2> HIDE DEF r
  <2>4. Equipped(r)
    BY <2>2, <2>3 DEF Equipped, Toward, Unassessed, Unrepaired, Terminal
  <2>5. pending \in {"ASSESS", "REPAIR"} => Queued(r, pending)
    BY <1>1, <2>2 DEF Queued
  <2>6. RecoveryOperation(r) = "ASSESS" \/ RecoveryOperation(r) = pending
    BY <2>2, <2>3 DEF RecoveryOperation
  <2>7. RecoveryOperation(r) \in {"ASSESS", "REPAIR"}
    BY <2>2, <2>3 DEF RecoveryOperation
  <2>8. Queued(r, RecoveryOperation(r))
    BY <2>2, <2>3, <2>5, <2>6, <2>7 DEF Queued
  <2>9. RecoveryOperation(r) # None
    BY <2>7 DEF None
  <2> QED
    BY <1>1, <1>2, <2>1, <2>2, <2>3, <2>4, <2>8, <2>9, StartedQueue
<1>8. CASE issue.path /\ RestoredBinding
  BY <1>6, <1>8 DEF RestoredBinding
<1> QED
  BY <1>3, <1>4, <1>5, <1>6, <1>7, <1>8 DEF RecoverWorkspaces

(* interruptedOperation finds its status, and is there for every issue at  *)
(* work that the recovery of the workspaces has queued nothing for.        *)
LEMMA InterruptedOperationQueued ==
  ASSUME Equipped(issue)
  PROVE  /\ Queued(issue, InterruptedOperation(issue))
         /\ issue.status \in {"ASSESSING", "REPAIRING", "EVIDENCE_CAPTURE", "EVIDENCE_CHECK"}
              => InterruptedOperation(issue) # None
<1>1. CASE issue.status = "FINALIZATION_RECOVERY" /\ issue.recovery = "STARTED"
  BY <1>1 DEF InterruptedOperation, Queued, None
<1>2. CASE issue.status = "ASSESSING"
  BY <1>2 DEF InterruptedOperation, Queued, Equipped, Terminal, None
<1>3. CASE issue.status = "REPAIRING"
  BY <1>3 DEF InterruptedOperation, Queued, None
<1>4. CASE issue.status = "EVIDENCE_CAPTURE"
  <2>1. issue.draft > 0
    BY <1>4 DEF Equipped, Toward
  <2> QED
    BY <1>4, <2>1 DEF InterruptedOperation, Queued, None
<1>5. CASE issue.status = "EVIDENCE_CHECK"
  <2>1. issue.delivery > 0
    BY <1>5 DEF Equipped
  <2> QED
    BY <1>5, <2>1 DEF InterruptedOperation, Queued, None
<1>6. CASE /\ issue.status \notin {"ASSESSING", "REPAIRING", "EVIDENCE_CAPTURE",
                                   "EVIDENCE_CHECK"}
           /\ ~(issue.status = "FINALIZATION_RECOVERY" /\ issue.recovery = "STARTED")
  <2>1. InterruptedOperation(issue) = None
    BY <1>6 DEF InterruptedOperation
  <2> QED
    BY <1>6, <2>1 DEF Queued, None
<1> QED
  BY <1>1, <1>2, <1>3, <1>4, <1>5, <1>6

(* migrateLegacyFailure leaves an evidence failure that can be retried. *)
LEMMA MigratedFailureFits ==
  ASSUME NEW i \in Issue, NEW b, Equipped(i), LegacyFailure(i)
  PROVE  Fit(MigratedFailure(i), None, b)
<1> DEFINE n == MigratedFailure(i)
           draft == IF i.draft = 0 THEN i.delivery ELSE i.draft
<1>1. i.status = "REPAIR_FAILED" /\ i.delivery > 0 /\ i.draft \in Nat
  BY DEF LegacyFailure, Issue
<1>2. draft > 0
  BY <1>1
<1> HIDE DEF draft
<1>3. n = [i EXCEPT !.status = "EVIDENCE_FAILED", !.draft = draft,
                    !.failure.stage = "EVIDENCE", !.revision = @ + 1]
  BY DEF MigratedFailure, draft
<1> HIDE DEF n
<1>4. /\ n.status = "EVIDENCE_FAILED" /\ n.draft = draft /\ n.path = i.path
      /\ n.session = i.session /\ n.assessment = i.assessment /\ n.iteration = i.iteration
  BY <1>3 DEF Issue
<1>5. Fit(n, None, b)
  BY <1>1, <1>2, <1>4
  DEF Fit, Equipped, Toward, Unassessed, Unrepaired, Assessed, Terminal, Queued, Waits,
      Working, None
<1> QED
  BY <1>5 DEF n

(* reconcileInterruptedIssues: an issue at work is queued from here on. *)
LEMMA ReconcileInterruptedQueue == ASSUME IInv, QueueInv, ReconcileInterrupted PROVE QueueInv'
<1>1. /\ mode = "recovered" /\ mode' = "up" /\ op = NoOp /\ UNCHANGED <<binding, op, asleep>>
      /\ issue \in Issue /\ Equipped(issue) /\ Queued(issue, pending) /\ Reconciled
  BY QueueFacts DEF ReconcileInterrupted
<1>2. Dependable =>
        /\ asleep => issue.status \in Halted
        /\ /\ issue.status \in {"RECEIVED", "FINALIZING", "FINALIZATION_RECOVERY"}
           /\ Waits(issue, binding)
           => pending # None
  BY <1>1 DEF QueueInv, Served
<1>3. CASE LegacyFailure(issue)
  <2>1. issue' = MigratedFailure(issue) /\ pending' = None
    BY <1>1, <1>3 DEF Reconciled, Store
  <2>2. Fit(MigratedFailure(issue), None, binding')
    BY <1>1, <1>3, MigratedFailureFits
  <2>3. issue.status \notin Halted
    BY <1>3 DEF LegacyFailure, Halted, Terminal
  <2> QED
    BY <1>1, <1>2, <2>1, <2>2, <2>3, StartedQueue DEF Fit
<1>4. CASE ~LegacyFailure(issue) /\ pending # None
  <2>1. UNCHANGED <<issue, pending>>
    BY <1>1, <1>4 DEF Reconciled
  <2> QED
    BY <1>1, <1>2, <1>4, <2>1, StartedQueue
<1>5. CASE issue.status = "REPAIRING" /\ Store(issue, "REPAIR")
  <2>1. issue' = issue /\ pending' = "REPAIR"
    BY <1>5 DEF Store
  <2>2. Queued(issue, "REPAIR") /\ "REPAIR" # None
    BY <1>5 DEF Queued, None
  <2> QED
    BY <1>1, <1>2, <2>1, <2>2, StartedQueue
<1>6. CASE /\ InterruptedOperation(issue) # None
           /\ Store([issue EXCEPT !.revision = @ + 1], InterruptedOperation(issue))
  <2> DEFINE next == [issue EXCEPT !.revision = @ + 1]
  <2>1. issue' = next /\ pending' = InterruptedOperation(issue)
    BY <1>6 DEF Store
  <2>2. /\ SameRepair(issue, next) /\ next.status = issue.status
        /\ next.delivery = issue.delivery /\ next.review = issue.review
        /\ next.pause = issue.pause /\ next.request = issue.request
    BY <1>1 DEF SameRepair, Issue
  <2> HIDE DEF next
  <2>3. Queued(issue, InterruptedOperation(issue))
    BY <1>1, InterruptedOperationQueued
  <2>4. Equipped(next) /\ Queued(next, InterruptedOperation(issue))
    BY <1>1, <2>2, <2>3
    DEF SameRepair, Equipped, Toward, Unassessed, Unrepaired, Assessed, Queued
  <2> QED
    BY <1>1, <1>2, <1>6, <2>1, <2>2, <2>4, StartedQueue
<1>7. CASE /\ pending = None /\ InterruptedOperation(issue) = None
           /\ UNCHANGED <<issue, pending>>
  <2>1. Dependable => ~Waits(issue, binding)
    BY <1>1, <1>2, <1>7, InterruptedOperationQueued DEF Waits, Working
  <2> QED
    BY <1>1, <1>2, <1>7, <2>1, StartedQueue
<1> QED
  BY <1>1, <1>3, <1>4, <1>5, <1>6, <1>7 DEF Reconciled

(* stop() and the end of the process: what is queued remains. *)
LEMMA EndQueue ==
  ASSUME IInv, QueueInv, Stop \/ CancelAgents \/ Stopped \/ Crash
  PROVE  QueueInv'
<1>1. UNCHANGED <<issue, pending, binding>> /\ Equipped(issue) /\ Queued(issue, pending)
      /\ op \in Op
  BY QueueFacts DEF Stop, CancelAgents, Stopped, Crash, durable
<1>2. CASE Stopped \/ Crash
  <2>1. op' = NoOp /\ asleep' = FALSE /\ mode' = "down"
    BY <1>2 DEF Stopped, Crash, ProcessEnds
  <2> QED
    BY <1>1, <2>1, StartedQueue
<1>3. CASE Stop \/ CancelAgents
  <2>1. /\ mode' \in {"stopping", "draining"} /\ asleep' = asleep
        /\ op' = op \/ op' = Interrupted(op, "RUNTIME_STOPPING")
    BY <1>3 DEF Stop, CancelAgents
  <2>2. /\ op'.pc = op.pc /\ op'.kind = op.kind /\ op'.snap = op.snap
        /\ op'.aborted = op.aborted
    BY <1>1, <2>1 DEF Interrupted, Op
  <2>3. Equipping'
    BY <1>1, <2>2 DEF QueueInv, Equipping, Claimed
  <2>4. Dependable => Served'
    BY <1>1, <2>1, <2>2 DEF QueueInv, Served, Claimed, Active, Current
  <2> QED
    BY <1>1, <2>3, <2>4 DEF QueueInv, Dependable
<1> QED
  BY <1>2, <1>3

-----------------------------------------------------------------------------
(* Together.                                                               *)

(* The rows the model starts from carry what they need. *)
LEMMA InitQueue == ASSUME Init PROVE QueueInv
<1>1. op = NoOp /\ asleep = FALSE
  BY DEF Init
<1>2. ~Claimed /\ ~Active /\ op.pc = "idle" /\ op.kind = None
  BY <1>1 DEF NoOp, Claimed, Active
<1>3. Equipping
  BY <1>2 DEF Equipping, None
<1>4. CASE CreatedRow
  <2>1. /\ issue.status = "RECEIVED" /\ issue.path = FALSE /\ pending = "PREPARE"
        /\ mode = "up"
    BY <1>4 DEF CreatedRow, NewIssue
  <2>2. Equipped(issue) /\ Queued(issue, pending)
    BY <2>1 DEF Equipped, Toward, Unassessed, Unrepaired, Terminal, Queued
  <2>3. Served
    BY <1>1, <1>2, <2>1 DEF Served, None
  <2> QED
    BY <1>3, <2>2, <2>3 DEF QueueInv
<1>5. CASE RecoveringRow \/ UnboundRow
  <2> DEFINE bug == [verdict |-> "BUG", duplicate |-> FALSE]
  <2>1. /\ issue.path = TRUE /\ issue.session = TRUE /\ issue.assessment = bug
        /\ issue.iteration = 1 /\ mode = "down"
        /\ \/ issue.status = "FINALIZATION_RECOVERY" /\ pending \in {None, "RECOVER_FINALIZATION"}
           \/ issue.status = "REPAIRING" /\ pending \in {None, "REPAIR"}
    BY <1>5 DEF RecoveringRow, UnboundRow, RepairedIssue, NewIssue
  <2>2. bug # NoAssessment
    BY DEF NoAssessment, None
  <2> HIDE DEF bug
  <2>3. Equipped(issue) /\ Queued(issue, pending)
    BY <2>1, <2>2
    DEF Equipped, Toward, Unassessed, Unrepaired, Assessed, Terminal, Queued, None
  <2>4. Served
    BY <1>1, <1>2, <2>1 DEF Served
  <2> QED
    BY <1>3, <2>3, <2>4 DEF QueueInv
<1> QED
  BY <1>4, <1>5 DEF Init

(* No step of the Runtime, of a user or of the process breaks it. *)
LEMMA NextQueue == ASSUME IInv, QueueInv, [Next]_vars PROVE QueueInv'
<1>1. CASE Next
  BY <1>1, WorkerNextQueue, WorkspaceNextQueue, CommandNextQueue, PauserNextQueue,
     RecoverWorkspacesQueue, ReconcileInterruptedQueue, EndQueue
  DEF Next, OperationNext, StartNext, LifecycleNext
<1>2. CASE UNCHANGED vars
  BY <1>2
  DEF vars, durable, QueueInv, Equipping, Served, Claimed, Active, Current, Dependable
<1> QED
  BY <1>1, <1>2

(* In every reachable state a row carries what its status stands for, a    *)
(* queued operation finds its status and, with dependable workspaces, an   *)
(* issue at work is served.                                                *)
THEOREM QueueInvariance == Spec => []QueueInv
<1>1. Init => QueueInv
  BY InitQueue
<1>2. IInv /\ QueueInv /\ [Next]_vars => QueueInv'
  BY NextQueue
<1> QED
  BY <1>1, <1>2, Invariance, PTL DEF Spec

(* What is queued can be performed: the pump never takes an operation that *)
(* finds another status or lacks its context, whatever fails, is repeated  *)
(* or interrupted, and whatever a user does meanwhile.                     *)
THEOREM PendingIsFit == Spec => []PendingFits
<1>1. Equipped(issue) /\ Queued(issue, pending) => PendingFits
  <2> SUFFICES ASSUME Equipped(issue), Queued(issue, pending) PROVE PendingFits
    OBVIOUS
  <2>1. pending = "REPAIR" => RepairContext(issue) /\ issue.path
    BY DEF Equipped, Queued, Toward, Unassessed, Unrepaired, Assessed, Terminal, RepairContext
  <2>2. pending = "CAPTURE_EVIDENCE" => CaptureContext(issue) /\ issue.path
    BY DEF Equipped, Queued, Toward, Unassessed, Unrepaired, Assessed, Terminal, CaptureContext
  <2>3. pending = "EVIDENCE" => issue.delivery > 0
    BY DEF Equipped, Queued
  <2> QED
    BY <2>1, <2>2, <2>3 DEF PendingFits, Queued
<1> QED
  BY <1>1, QueueInvariance, PTL DEF QueueInv

(* Where no input joins an issue at work and neither a clean-up nor the    *)
(* recovery of a workspace fails, a ready Runtime never leaves an issue    *)
(* that waits for it without an operation that runs or that it will see:   *)
(* not after a lost result, a pause that fails, a crash or a stop.         *)
THEOREM NothingStranded ==
  ASSUME Faults \cap {"input", "cleanup", "provider"} = {}
  PROVE  Spec => []NotStranded
<1>1. QueueInv => NotStranded
  BY DEF QueueInv, Dependable, Served, Waits, Working, Halted, Terminal, Claimed, Active,
         Automatic, NotStranded
<1> QED
  BY <1>1, QueueInvariance, PTL

-----------------------------------------------------------------------------
(* What a row offers the human.                                            *)

(* The Agent's session is gone. *)
Unavailable(i) == i.failure.code = "AGENT_SESSION_UNAVAILABLE"

(* What the row that waits for the human is offered with: a review with    *)
(* its choices, a request with the operation that asked, and a session     *)
(* that is gone only where it can be rebuilt.                              *)
Offering(i) ==
  /\ i.status = "REVIEW_REQUIRED" => i.review \in Reviews
  /\ i.status = "PERMISSION_REQUIRED" => i.request.operation \in AgentOperations
  /\ Unavailable(i) => CanReplaceAgentSession(i)

(* ... and a pause is not ready while pauseIssue has not returned. *)
OfferInv == Offering(issue) /\ (Pausing => ~CanResume(issue))

(* A row that is neither reviewed nor asks for a grant has nothing to      *)
(* carry but its failure.                                                  *)
LEMMA PlainOffers ==
  ASSUME NEW n, n.status \notin {"REVIEW_REQUIRED", "PERMISSION_REQUIRED"}, ~Unavailable(n)
  PROVE  Offering(n)
BY DEF Offering

(* A failure that is cleared is not that of a session. *)
LEMMA ClearedFailure == NoFailure.code # "AGENT_SESSION_UNAVAILABLE"
BY DEF NoFailure, None

(* The session of an issue that has not failed there is. *)
LEMMA SessionThere ==
  ASSUME NEW i, Offering(i), i.status \notin {"ASSESSMENT_FAILED", "REPAIR_FAILED"}
  PROVE  ~Unavailable(i)
BY DEF Offering, CanReplaceAgentSession

(* A version that changes nothing a human is offered. *)
LEMMA SameOffers ==
  ASSUME NEW i, NEW n, Offering(i), n.status = i.status, n.review = i.review,
         n.request = i.request, n.failure = i.failure, n.session = i.session
  PROVE  Offering(n)
BY DEF Offering, Unavailable, CanReplaceAgentSession

(* A failed stage: a session that is gone can be rebuilt after an          *)
(* assessment and a repair that had one.                                   *)
LEMMA FailedOffers ==
  ASSUME NEW i \in Issue, NEW action, NEW stage, NEW code,
         Failed(i, action, stage, code).status = Target[action],
         \/ action = "ASSESSMENT_ERRORED" /\ stage = "ASSESSMENT"
         \/ action = "REPAIR_ERRORED" /\ stage = "REPAIR"
         \/ /\ action \in {"EVIDENCE_ERRORED", "FINALIZATION_ERRORED",
                           "FINALIZATION_RECOVERY_ERRORED"}
            /\ code # "AGENT_SESSION_UNAVAILABLE",
         code = "AGENT_SESSION_UNAVAILABLE" => i.session
  PROVE  Offering(Failed(i, action, stage, code))
<1> DEFINE n == Failed(i, action, stage, code)
<1>1. n.failure = [stage |-> stage, code |-> code] /\ n.session = i.session
  BY DEF Failed, Transition, Moved, Issue
<1>2. n.failure.stage = stage /\ n.failure.code = code
  BY <1>1
<1>3. \/ n.status = "ASSESSMENT_FAILED" /\ stage = "ASSESSMENT"
      \/ n.status = "REPAIR_FAILED" /\ stage = "REPAIR"
      \/ /\ n.status \in {"EVIDENCE_FAILED", "FINALIZATION_FAILED"}
         /\ code # "AGENT_SESSION_UNAVAILABLE"
  BY DEF Target
<1> HIDE DEF n
<1>4. Offering(n)
  BY <1>1, <1>2, <1>3 DEF Offering, Unavailable, CanReplaceAgentSession
<1> QED
  BY <1>4 DEF n

(* A review is shown with one of the kinds there are. *)
LEMMA ReviewOffersIt ==
  ASSUME NEW i \in Issue, NEW kind \in Reviews
  PROVE  Offering(RequestReview(i, kind))
<1> DEFINE n == RequestReview(i, kind)
<1>1. n.status = "REVIEW_REQUIRED"
  BY RequestReviewAdvances
<1>2. n.review = kind /\ n.failure = NoFailure
  BY DEF RequestReview, Moved, Issue
<1> HIDE DEF n
<1>3. Offering(n)
  BY <1>1, <1>2, ClearedFailure DEF Offering, Unavailable
<1> QED
  BY <1>3 DEF n

(* A request is shown with the operation that asked. *)
LEMMA RequestOffersIt ==
  ASSUME NEW i \in Issue, NEW o \in AgentOperations, NEW c \in SUBSET Capabilities
  PROVE  Offering(RecordCapabilityRequest(i, o, c))
<1> DEFINE n == RecordCapabilityRequest(i, o, c)
<1>1. n.status = "PERMISSION_REQUIRED"
  BY RecordCapabilityRequestAdvances
<1>2. n.request = [operation |-> o, capabilities |-> c \ i.grants] /\ n.failure = NoFailure
  BY DEF RecordCapabilityRequest, Moved, Issue
<1>3. n.request.operation = o
  BY <1>2
<1> HIDE DEF n
<1>4. Offering(n)
  BY <1>1, <1>2, <1>3, ClearedFailure DEF Offering, Unavailable
<1> QED
  BY <1>4 DEF n

(* Work that goes on has left its failure behind. *)
LEMMA WorkingOffers ==
  ASSUME NEW n, n.failure = NoFailure,
         n.status \notin {"REVIEW_REQUIRED", "PERMISSION_REQUIRED"}
  PROVE  Offering(n)
BY ClearedFailure, PlainOffers DEF Unavailable

(* queueEvidenceCapture, with retries left and without *)
LEMMA CaptureOffers ==
  ASSUME NEW i \in Issue, i.status \in {"EVIDENCE_CAPTURE", "EVIDENCE_CHECK"}
  PROVE  /\ Offering(RequeuedCapture(i))
         /\ Offering(RecordEvidenceFailure(i, "EVIDENCE_RETRY_LIMIT_REACHED"))
<1> DEFINE n == RequeuedCapture(i)
           base == IF i.status = "EVIDENCE_CHECK" THEN RecordEvidenceRejection(i) ELSE i
<1>1. n.status = "EVIDENCE_CAPTURE"
  BY RequeuedCaptureAdvances
<1>2. base \in Issue
  BY RecordEvidenceRejectionAdvances DEF Advances
<1>3. n = [base EXCEPT !.retries = i.retries + 1, !.delivery = 0, !.failure = NoFailure,
                       !.revision = i.revision + 1]
  BY DEF RequeuedCapture
<1> HIDE DEF base, n
<1>4. n.failure = NoFailure
  BY <1>2, <1>3 DEF Issue
<1>5. Offering(n)
  BY <1>1, <1>4, WorkingOffers
<1>6. CanTransition(i, "EVIDENCE_ERRORED")
  BY DEF CanTransition, Transitions
<1>7. Offering(RecordEvidenceFailure(i, "EVIDENCE_RETRY_LIMIT_REACHED"))
  BY <1>6, FailedOffers, RecordEvidenceFailureAdvances
  DEF RecordEvidenceFailure, FailureCodes, Target
<1> QED
  BY <1>5, <1>7 DEF n

-----------------------------------------------------------------------------
(* The steps of an operation.                                              *)

(* A result that counts was computed from the row as it is. *)
LEMMA CompletedOffers ==
  ASSUME IInv, Offering(issue), Claimed, NEW next, NEW operation,
         Complete(op.snap, next, operation), op.snap = issue => Offering(next)
  PROVE  Offering(issue')
BY DEF IInv, SnapshotCurrent, Complete, Store

(* What a step of an operation may assume of its snapshot. *)
LEMMA SnapOffers ==
  ASSUME IInv, QueueInv, Offering(issue), Claimed
  PROVE  /\ op.snap \in Issue /\ op.snap.status \in ClaimedStatus(op)
         /\ op.snap.status \in Working
         /\ op.snap = issue => ~Unavailable(op.snap)
BY SnapshotFacts, SessionThere DEF QueueInv, Equipping, Working

(* queueEvidenceCapture *)
LEMMA QueuedCaptureOffers ==
  ASSUME IInv, QueueInv, Offering(issue), Claimed,
         op.snap.status \in {"EVIDENCE_CAPTURE", "EVIDENCE_CHECK"},
         QueueEvidenceCapture(op.snap)
  PROVE  Offering(issue')
<1>1. op.snap \in Issue
  BY SnapOffers
<1> QED
  BY <1>1, CaptureOffers, CompletedOffers DEF QueueEvidenceCapture

(* The claim of an assessment. *)
LEMMA ClaimOffers ==
  ASSUME NEW i \in Issue, Offering(i), i.status \in {"RECEIVED", "ASSESSING"}
  PROVE  Offering(ClaimedAssessment(i))
<1> DEFINE w == IF i.session THEN i ELSE RecordAgentSession(i)
           n == ClaimedAssessment(i)
<1>1. w \in Issue /\ w.failure = i.failure
  BY RecordAgentSessionAdvances DEF Advances, RecordAgentSession, Issue
<1> HIDE DEF w
<1>2. StartAssessment(w).failure = w.failure
  BY <1>1 DEF StartAssessment, Transition, Moved, Issue
<1>3. n.failure = i.failure
  BY <1>1, <1>2 DEF ClaimedAssessment, w
<1>4. n.status = "ASSESSING"
  BY ClaimedAssessmentAdvances
<1> HIDE DEF n
<1>5. Offering(n)
  BY <1>3, <1>4, SessionThere, PlainOffers DEF Unavailable
<1> QED
  BY <1>5 DEF n

(* assess, and its failure before there is a turn. *)
LEMMA AssessOffers ==
  ASSUME IInv, Offering(issue), NEW snapshot,
         BeginAssessment(snapshot) \/ FailPendingAssessment(snapshot)
  PROVE  Offering(issue')
<1>1. issue \in Issue
  BY DEF IInv, TypeOK
<1>2. CASE BeginAssessment(snapshot)
  BY <1>1, <1>2, ClaimOffers DEF BeginAssessment, Store
<1>3. CASE FailPendingAssessment(snapshot)
  <2> DEFINE a == IF issue.status = "RECEIVED" THEN StartAssessment(issue) ELSE issue
  <2>1. CASE issue' = issue
    BY <2>1
  <2>2. CASE /\ issue.status \in {"RECEIVED", "ASSESSING"}
             /\ issue' = RecordAssessmentFailure(a, "AGENT_FAILURE")
    <3>1. issue.status = "RECEIVED" => CanTransition(issue, "START_ASSESSMENT")
      BY DEF CanTransition, Transitions
    <3>2. a \in Issue /\ a.status = "ASSESSING"
      BY <1>1, <2>2, <3>1, StartAssessmentAdvances DEF Advances
    <3> HIDE DEF a
    <3>3. RecordAssessmentFailure(a, "AGENT_FAILURE").status = "ASSESSMENT_FAILED"
      BY <3>2, RecordAssessmentFailureAdvances DEF FailureCodes
    <3>4. Offering(RecordAssessmentFailure(a, "AGENT_FAILURE"))
      BY <3>2, <3>3, FailedOffers DEF RecordAssessmentFailure, Target
    <3> QED
      BY <2>2, <3>4
  <2> QED
    BY <1>3, <2>1, <2>2 DEF FailPendingAssessment, Store
<1> QED
  BY <1>2, <1>3

(* recordAssessmentFailure and recordRepairFailure of an Agent that had a  *)
(* session.                                                                *)
LEMMA StageOffers ==
  ASSUME NEW i \in Issue, NEW code \in FailureCodes,
         code = "AGENT_SESSION_UNAVAILABLE" => i.session
  PROVE  /\ i.status = "ASSESSING" => Offering(RecordAssessmentFailure(i, code))
         /\ i.status = "REPAIRING" => Offering(RecordRepairFailure(i, code))
<1>1. ASSUME i.status = "ASSESSING" PROVE Offering(RecordAssessmentFailure(i, code))
  BY <1>1, FailedOffers, RecordAssessmentFailureAdvances DEF RecordAssessmentFailure, Target
<1>2. ASSUME i.status = "REPAIRING" PROVE Offering(RecordRepairFailure(i, code))
  BY <1>2, FailedOffers, RecordRepairFailureAdvances DEF RecordRepairFailure, Target
<1> QED
  BY <1>1, <1>2

(* A failed repair, outside its turn. *)
LEMMA RepairFailedOffers ==
  ASSUME IInv, QueueInv, Offering(issue), Claimed, op.snap.status = "REPAIRING",
         NEW code \in {"AGENT_FAILURE", "EVIDENCE_INTAKE_FAILED"},
         Complete(op.snap, RecordRepairFailure(op.snap, code), None)
  PROVE  Offering(issue')
<1>1. op.snap \in Issue
  BY SnapOffers
<1>2. Offering(RecordRepairFailure(op.snap, code))
  BY <1>1, StageOffers DEF FailureCodes
<1> QED
  BY <1>2, CompletedOffers

(* Every other error of a turn. *)
LEMMA FailTurnOffers ==
  ASSUME IInv, QueueInv, Offering(issue), op.pc \in Turning,
         NEW code \in {"AGENT_FAILURE", "AGENT_SESSION_UNAVAILABLE"}, FailTurn(code)
  PROVE  Offering(issue')
<1>1. Claimed
  BY DEF Claimed, Turning
<1>2. op.snap \in Issue /\ op.snap.status \in ClaimedStatus(op)
  BY <1>1, SnapOffers
<1>3. code \in FailureCodes
  BY DEF FailureCodes
<1>4. CASE op.kind = "ASSESS"
  <2>1. op.snap.status = "ASSESSING" /\ op.snap.session
    BY <1>2, <1>4 DEF ClaimedStatus, QueueInv, Equipping
  <2>2. Complete(op.snap, RecordAssessmentFailure(op.snap, code), None)
    BY <1>4 DEF FailTurn
  <2> QED
    BY <1>1, <1>2, <1>3, <2>1, <2>2, StageOffers, CompletedOffers
<1>5. CASE op.kind = "REPAIR"
  <2>1. op.snap.status = "REPAIRING"
    BY <1>2, <1>5 DEF ClaimedStatus, Turning
  <2>2. Complete(op.snap, RecordRepairFailure(op.snap, code), None)
    BY <1>5 DEF FailTurn
  <2>3. op.snap = issue => op.snap.session
    BY <2>1 DEF QueueInv, Equipped, Unassessed, Assessed, Toward, Terminal
  <2>4. op.snap = issue => Offering(RecordRepairFailure(op.snap, code))
    BY <1>2, <1>3, <2>1, <2>3, StageOffers
  <2> QED
    BY <1>1, <2>2, <2>4, CompletedOffers
<1>6. CASE op.kind = "CAPTURE_EVIDENCE"
  <2>1. op.snap.status = "EVIDENCE_CAPTURE"
    BY <1>2, <1>6 DEF ClaimedStatus
  <2>2. issue' = issue \/ QueueEvidenceCapture(op.snap)
    BY <1>6 DEF FailTurn
  <2> QED
    BY <1>1, <2>1, <2>2, QueuedCaptureOffers
<1>7. CASE op.kind \notin {"ASSESS", "REPAIR", "CAPTURE_EVIDENCE"}
  BY <1>7 DEF FailTurn
<1> QED
  BY <1>4, <1>5, <1>6, <1>7

(* An interrupted turn is queued as it was, or has failed. *)
LEMMA InterruptedOffers ==
  ASSUME IInv, QueueInv, Offering(issue), TurnInterrupted
  PROVE  Offering(issue')
<1>1. op.pc \in Turning /\ Claimed
  BY DEF TurnInterrupted, Claimed, Turning
<1>2. op.snap \in Issue
  BY <1>1, SnapOffers
<1> DEFINE n == [op.snap EXCEPT !.revision = @ + 1]
<1>3. CASE Complete(op.snap, n, op.kind)
  <2>1. /\ n.status = op.snap.status /\ n.review = op.snap.review
        /\ n.request = op.snap.request /\ n.failure = op.snap.failure
        /\ n.session = op.snap.session
    BY <1>2 DEF Issue
  <2> HIDE DEF n
  <2>2. op.snap = issue => Offering(n)
    BY <2>1, SameOffers
  <2> QED
    BY <1>1, <1>3, <2>2, CompletedOffers
<1>4. CASE FailTurn("AGENT_FAILURE")
  BY <1>1, <1>4, FailTurnOffers
<1> QED
  BY <1>3, <1>4 DEF TurnInterrupted

(* A turn that is over, with an assessment, a request or an error. *)
LEMMA TurnOffers ==
  ASSUME IInv, QueueInv, Offering(issue),
         \/ \E assessment \in AgentAssessments : AssessmentReturned(assessment)
         \/ \E capabilities \in SUBSET Capabilities : CapabilityRequired(capabilities)
         \/ \E code \in {"AGENT_FAILURE", "AGENT_SESSION_UNAVAILABLE"} : TurnFailed(code)
  PROVE  Offering(issue')
<1>1. op.pc \in Turning /\ Claimed
  BY DEF AssessmentReturned, CapabilityRequired, TurnFailed, InTurn, Claimed, Turning
<1>2. op.snap \in Issue /\ op.snap.status \in ClaimedStatus(op) /\ op.kind \in AgentOperations
  BY <1>1, SnapOffers DEF IInv, OperationFits
<1>3. ASSUME NEW assessment \in AgentAssessments, AssessmentReturned(assessment)
      PROVE  Offering(issue')
  <2> DEFINE r == RecordAssessment(op.snap, assessment)
  <2>1. op.kind = "ASSESS" /\ op.snap.status = "ASSESSING"
    BY <1>1, <1>2, <1>3 DEF AssessmentReturned, InTurn, ClaimedStatus
  <2>2. assessment \in Assessment
    BY AssessmentAssumption
  <2>3. r \in Issue
    BY <1>2, <2>1, <2>2, RecordAssessmentAdvances DEF Advances
  <2>4. Complete(op.snap, RequestReview(r, "assessment"), None)
    BY <1>3 DEF AssessmentReturned
  <2> HIDE DEF r
  <2> QED
    BY <1>1, <2>3, <2>4, ReviewOffersIt, CompletedOffers DEF Reviews
<1>4. ASSUME NEW capabilities \in SUBSET Capabilities, CapabilityRequired(capabilities)
      PROVE  Offering(issue')
  <2>1. issue' = issue
        \/ Complete(op.snap, RecordCapabilityRequest(op.snap, op.kind, capabilities), None)
    BY <1>4 DEF CapabilityRequired
  <2> QED
    BY <1>1, <1>2, <2>1, RequestOffersIt, CompletedOffers
<1>5. ASSUME NEW code \in {"AGENT_FAILURE", "AGENT_SESSION_UNAVAILABLE"}, TurnFailed(code)
      PROVE  Offering(issue')
  BY <1>1, <1>5, FailTurnOffers DEF TurnFailed
<1> QED
  BY <1>3, <1>4, <1>5

(* The rest of a repair, and of an evidence capture. *)
LEMMA RepairOffers ==
  ASSUME IInv, QueueInv, Offering(issue),
         \/ RepairNotObserved \/ IntakeFailed \/ HostCaptureFailed \/ RepairInvalid
         \/ BusinessDecisionRequired \/ ImplementationReady \/ DeliveryImported
         \/ DeliveryNotImported
  PROVE  Offering(issue')
<1>1. Claimed
  BY DEF RepairNotObserved, IntakeFailed, HostCaptureFailed, RepairInvalid,
         BusinessDecisionRequired, ImplementationReady, DeliveryImported,
         DeliveryNotImported, At, Claimed
<1>2. op.snap \in Issue /\ op.snap.status \in ClaimedStatus(op)
  BY <1>1, SnapOffers
<1>3. CASE RepairNotObserved \/ RepairInvalid
  <2>1. op.kind = "REPAIR" /\ op.pc # "importing"
    BY <1>3 DEF RepairNotObserved, RepairInvalid, At
  <2>2. op.snap.status = "REPAIRING"
    BY <1>2, <2>1 DEF ClaimedStatus
  <2>3. Complete(op.snap, RecordRepairFailure(op.snap, "AGENT_FAILURE"), None)
    BY <1>3 DEF RepairNotObserved, RepairInvalid
  <2> QED
    BY <1>1, <2>2, <2>3, RepairFailedOffers
<1>4. CASE IntakeFailed
  <2>1. op.kind \in {"REPAIR", "CAPTURE_EVIDENCE"} /\ op.pc = "intake"
    BY <1>4 DEF IntakeFailed, At
  <2>2. CASE op.kind = "REPAIR"
    <3>1. op.snap.status = "REPAIRING"
      BY <1>2, <2>1, <2>2 DEF ClaimedStatus
    <3>2. Complete(op.snap, RecordRepairFailure(op.snap, "EVIDENCE_INTAKE_FAILED"), None)
      BY <1>4, <2>2 DEF IntakeFailed
    <3> QED
      BY <1>1, <3>1, <3>2, RepairFailedOffers
  <2>3. CASE op.kind = "CAPTURE_EVIDENCE"
    <3>1. op.snap.status = "EVIDENCE_CAPTURE"
      BY <1>2, <2>3 DEF ClaimedStatus
    <3>2. QueueEvidenceCapture(op.snap)
      BY <1>4, <2>3 DEF IntakeFailed
    <3> QED
      BY <1>1, <3>1, <3>2, QueuedCaptureOffers
  <2> QED
    BY <2>1, <2>2, <2>3
<1>5. CASE HostCaptureFailed \/ DeliveryNotImported
  <2>1. op.kind = "CAPTURE_EVIDENCE" \/ (op.kind = "REPAIR" /\ op.pc = "importing")
    BY <1>5 DEF HostCaptureFailed, DeliveryNotImported, At
  <2>2. op.snap.status = "EVIDENCE_CAPTURE"
    BY <1>2, <2>1 DEF ClaimedStatus
  <2>3. QueueEvidenceCapture(op.snap)
    BY <1>5 DEF HostCaptureFailed, DeliveryNotImported
  <2> QED
    BY <1>1, <2>2, <2>3, QueuedCaptureOffers
<1>6. CASE BusinessDecisionRequired
  <2>1. Complete(op.snap, RequestReview(op.snap, "business-merge-conflict"), None)
    BY <1>6 DEF BusinessDecisionRequired
  <2>2. Offering(RequestReview(op.snap, "business-merge-conflict"))
    BY <1>2, ReviewOffersIt DEF Reviews
  <2> QED
    BY <1>1, <2>1, <2>2, CompletedOffers
<1>7. CASE ImplementationReady
  <2> DEFINE n == RecordImplementationDraft(op.snap)
  <2>1. op.kind = "REPAIR" /\ op.pc = "validating"
    BY <1>7 DEF ImplementationReady, At
  <2>2. op.snap.status = "REPAIRING"
    BY <1>2, <2>1 DEF ClaimedStatus
  <2>3. n.status = "EVIDENCE_CAPTURE"
    BY <1>2, <2>2, RecordImplementationDraftAdvances
  <2>4. n.failure = NoFailure
    BY <1>2 DEF RecordImplementationDraft, Transition, Moved, Issue
  <2>5. issue' = n \/ Complete(op.snap, n, "CAPTURE_EVIDENCE")
    BY <1>7 DEF ImplementationReady, Store
  <2> HIDE DEF n
  <2>6. Offering(n)
    BY <2>3, <2>4, WorkingOffers
  <2> QED
    BY <1>1, <2>5, <2>6, CompletedOffers
<1>8. CASE DeliveryImported
  <2> DEFINE n == RecordDelivery(op.snap)
  <2>1. op.kind = "CAPTURE_EVIDENCE" \/ (op.kind = "REPAIR" /\ op.pc = "importing")
    BY <1>8 DEF DeliveryImported, At
  <2>2. op.snap.status = "EVIDENCE_CAPTURE"
    BY <1>2, <2>1 DEF ClaimedStatus
  <2>3. n.status = "EVIDENCE_CHECK"
    BY <1>2, <2>2, RecordDeliveryAdvances
  <2>4. n.failure = NoFailure
    BY <1>2 DEF RecordDelivery, Transition, Moved, Issue
  <2>5. Complete(op.snap, n, "EVIDENCE")
    BY <1>8 DEF DeliveryImported
  <2> HIDE DEF n
  <2>6. Offering(n)
    BY <2>3, <2>4, WorkingOffers
  <2> QED
    BY <1>1, <2>5, <2>6, CompletedOffers
<1> QED
  BY <1>3, <1>4, <1>5, <1>6, <1>7, <1>8

(* The evidence check: a review of the delivery, or another capture. *)
LEMMA EvidenceOffers ==
  ASSUME IInv, QueueInv, Offering(issue), EvidenceReviewable \/ EvidenceNotReviewable
  PROVE  Offering(issue')
<1>1. Claimed /\ op.kind = "EVIDENCE"
  BY DEF EvidenceReviewable, EvidenceNotReviewable, At, Claimed
<1>2. op.snap \in Issue /\ op.snap.status = "EVIDENCE_CHECK"
  BY <1>1, SnapOffers DEF ClaimedStatus
<1>3. CASE EvidenceReviewable
  <2>1. RecordEvidenceAcceptance(op.snap) \in Issue
    BY <1>2, RecordEvidenceAcceptanceAdvances DEF Advances
  <2>2. Offering(RequestReview(RecordEvidenceAcceptance(op.snap), "delivery"))
    BY <2>1, ReviewOffersIt DEF Reviews
  <2> QED
    BY <1>1, <1>3, <2>2, CompletedOffers DEF EvidenceReviewable
<1>4. CASE EvidenceNotReviewable
  BY <1>1, <1>2, <1>4, QueuedCaptureOffers DEF EvidenceNotReviewable
<1> QED
  BY <1>3, <1>4

(* The Agent's plugin is not installed. *)
LEMMA AgentUnavailableOffers ==
  ASSUME IInv, QueueInv, Offering(issue), AgentUnavailable
  PROVE  Offering(issue')
<1>1. issue \in Issue
  BY DEF IInv, TypeOK
<1>2. CASE FailPendingAssessment(issue)
  BY <1>2, AssessOffers
<1>3. CASE pending = "REPAIR" /\ issue' = RecordRepairFailure(issue, "AGENT_FAILURE")
  <2>1. issue.status = "REPAIRING"
    BY <1>3 DEF QueueInv, Queued
  <2> QED
    BY <1>1, <1>3, <2>1, StageOffers DEF FailureCodes
<1>4. CASE issue' = issue
  BY <1>4
<1> QED
  BY <1>2, <1>3, <1>4 DEF AgentUnavailable, Store

(* No step of the worker leaves a row that offers what is not there. *)
LEMMA WorkerNextOffers ==
  ASSUME IInv, QueueInv, Offering(issue), WorkerNext
  PROVE  Offering(issue')
<1>1. CASE \/ Repair \/ RepairObserved \/ CaptureEvidence \/ IntakePrepared \/ TurnCorrected
           \/ EvidenceReturned \/ HostCaptureAborted \/ IntakeRemoved \/ IntakeNotRemoved
           \/ InspectEvidence \/ RecoverFinalization
           \/ \E result \in {"business", "evidence", "noEvidence"} : RepairReturned(result)
           \/ \E result \in {"resolved", "unsafe"} : RecoveryReturned(result)
  <2>1. issue' = issue
    BY <1>1
    DEF Repair, RepairObserved, CaptureEvidence, IntakePrepared, TurnCorrected,
        EvidenceReturned, HostCaptureAborted, IntakeRemoved, IntakeNotRemoved,
        InspectEvidence, RecoverFinalization, RepairReturned, RecoveryReturned, Store
  <2> QED
    BY <2>1
<1>2. CASE Assess \/ SessionCreated \/ SessionNotCreated
  <2>1. \/ issue' = issue
        \/ BeginAssessment(issue) \/ BeginAssessment(op.snap)
        \/ FailPendingAssessment(op.snap)
    BY <1>2 DEF Assess, SessionCreated, SessionNotCreated
  <2> QED
    BY <2>1, AssessOffers
<1>3. CASE \/ RepairNotObserved \/ IntakeFailed \/ HostCaptureFailed \/ RepairInvalid
           \/ BusinessDecisionRequired \/ ImplementationReady \/ DeliveryImported
           \/ DeliveryNotImported
  BY <1>3, RepairOffers
<1>4. CASE \/ \E assessment \in AgentAssessments : AssessmentReturned(assessment)
           \/ \E capabilities \in SUBSET Capabilities : CapabilityRequired(capabilities)
           \/ \E code \in {"AGENT_FAILURE", "AGENT_SESSION_UNAVAILABLE"} : TurnFailed(code)
  BY <1>4, TurnOffers
<1> QED
  BY <1>1, <1>2, <1>3, <1>4, InterruptedOffers, EvidenceOffers, AgentUnavailableOffers
  DEF WorkerNext

-----------------------------------------------------------------------------
(* The workspace stages.                                                   *)

(* A workspace is acquired, or not. *)
LEMMA AcquiringOffers ==
  ASSUME IInv, QueueInv, Offering(issue), WorkspaceAcquired \/ WorkspaceNotAcquired
  PROVE  Offering(issue')
<1>1. Claimed
  BY DEF WorkspaceAcquired, WorkspaceNotAcquired, At, Claimed
<1>2. op.snap \in Issue
  BY <1>1, SnapOffers
<1> DEFINE n == [op.snap EXCEPT !.path = TRUE, !.revision = @ + 1]
<1>3. /\ n.status = op.snap.status /\ n.review = op.snap.review
      /\ n.request = op.snap.request /\ n.failure = op.snap.failure
      /\ n.session = op.snap.session
  BY <1>2 DEF Issue
<1>4. issue' = issue \/ Complete(op.snap, n, "ASSESS")
  BY DEF WorkspaceAcquired, WorkspaceNotAcquired, Complete, Store
<1> HIDE DEF n
<1>5. op.snap = issue => Offering(n)
  BY <1>3, SameOffers
<1> QED
  BY <1>1, <1>4, <1>5, CompletedOffers

(* A publication is over. *)
LEMMA PublishingOffers ==
  ASSUME IInv, QueueInv, Offering(issue), BaseStale \/ NotPublished \/ Released
  PROVE  Offering(issue')
<1>1. Claimed /\ op.pc \in {"publishing", "releasing"}
  BY DEF BaseStale, NotPublished, Released, At, Claimed
<1>2. op.snap \in Issue /\ op.snap.status = "FINALIZING"
  BY <1>1, SnapOffers DEF IInv, OperationFits, ClaimedStatus
<1>3. CASE BaseStale
  <2> DEFINE n == RecordBaseIntegrationStale(op.snap)
  <2>1. n.status = "REPAIRING"
    BY <1>2, RecordBaseIntegrationStaleAdvances
  <2>2. n.failure = NoFailure
    BY <1>2 DEF RecordBaseIntegrationStale, ReopenedForRepair, Transition, Moved, Issue
  <2> HIDE DEF n
  <2>3. Offering(n)
    BY <2>1, <2>2, WorkingOffers
  <2> QED
    BY <1>1, <1>3, <2>3, CompletedOffers DEF BaseStale, n
<1>4. CASE NotPublished
  <2> DEFINE f == Failed(op.snap, "FINALIZATION_ERRORED", "FINALIZATION_RECOVERY", "PUBLISH_FAILED")
             n == PublicationFailed(op.snap)
  <2>1. CanTransition(op.snap, "FINALIZATION_ERRORED")
    BY <1>2 DEF CanTransition, Transitions
  <2>2. f \in Issue /\ f.status = "FINALIZATION_FAILED"
    BY <1>2, <2>1, FailedAdvances DEF Advances, Stages, FailureCodes, Target
  <2>3. f.failure = [stage |-> "FINALIZATION_RECOVERY", code |-> "PUBLISH_FAILED"]
    BY <1>2 DEF Failed, Transition, Moved, Issue
  <2>4. f.failure.code = "PUBLISH_FAILED"
    BY <2>3
  <2> HIDE DEF f
  <2>5. n.status = "FINALIZATION_FAILED" /\ n.failure = f.failure
    BY <2>2 DEF PublicationFailed, f, Issue
  <2> HIDE DEF n
  <2>6. Offering(n)
    BY <2>4, <2>5, PlainOffers DEF Unavailable
  <2> QED
    BY <1>1, <1>4, <2>6, CompletedOffers DEF NotPublished, n
<1>5. CASE Released
  <2> DEFINE t == Transition(op.snap, "COMPLETE_DELIVERY")
             n == CompleteDelivery(op.snap)
  <2>1. CanTransition(op.snap, "COMPLETE_DELIVERY")
    BY <1>2 DEF CanTransition, Transitions
  <2>2. n.status = "COMPLETED" /\ t \in Issue
    BY <1>2, <2>1, CompleteDeliveryAdvances, TransitionAdvances DEF Advances
  <2> HIDE DEF t
  <2>3. n.failure = NoFailure
    BY <2>2 DEF CompleteDelivery, Ended, t, Issue
  <2> HIDE DEF n
  <2>4. Offering(n)
    BY <2>2, <2>3, WorkingOffers
  <2> QED
    BY <1>1, <1>5, <2>4, CompletedOffers DEF Released, n
<1> QED
  BY <1>3, <1>4, <1>5

(* A finalization recovery is judged. *)
LEMMA RecoveryOffers ==
  ASSUME IInv, QueueInv, Offering(issue),
         \/ RecoveryUnchanged \/ RecoveryUnsafe \/ RecoveryDeliveryBound
         \/ RecoveryDeliveryNotBound
  PROVE  Offering(issue')
<1>1. Claimed /\ op.kind = "RECOVER_FINALIZATION"
  BY DEF RecoveryUnchanged, RecoveryUnsafe, RecoveryDeliveryBound, RecoveryDeliveryNotBound,
         At, Claimed
<1>2. op.snap \in Issue /\ op.snap.status = "FINALIZATION_RECOVERY"
  BY <1>1, SnapOffers DEF ClaimedStatus
<1> DEFINE u == RecordRecoveryUnchanged(op.snap)
           c == RecordRecoveryChanged(op.snap)
           f == RecordRecoveryUnsafe(op.snap)
<1>3. /\ u.status = "FINALIZING" /\ c.status = "EVIDENCE_CAPTURE"
      /\ f.status = "FINALIZATION_FAILED"
  BY <1>2, RecordRecoveryUnchangedAdvances, RecordRecoveryChangedAdvances,
     RecordRecoveryUnsafeAdvances
<1>4. u.failure = NoFailure
  BY <1>2 DEF RecordRecoveryUnchanged, Transition, Moved, Issue
<1>5. c.failure = NoFailure
  BY <1>2 DEF RecordRecoveryChanged, Transition, Moved, Issue
<1>6. Offering(f)
  BY <1>2, <1>3, FailedOffers DEF RecordRecoveryUnsafe, Target
<1>7. \/ Complete(op.snap, u, "FINALIZE")
      \/ Complete(op.snap, c, "CAPTURE_EVIDENCE")
      \/ Complete(op.snap, f, None)
  BY DEF RecoveryUnchanged, RecoveryUnsafe, RecoveryDeliveryBound, RecoveryDeliveryNotBound,
         Judged
<1> HIDE DEF u, c, f
<1>8. Offering(u) /\ Offering(c)
  BY <1>3, <1>4, <1>5, WorkingOffers
<1> QED
  BY <1>1, <1>6, <1>7, <1>8, CompletedOffers

(* Nor does a step of the workspace coordinator. *)
LEMMA WorkspaceNextOffers ==
  ASSUME IInv, QueueInv, Offering(issue), WorkspaceNext
  PROVE  Offering(issue')
<1>1. CASE Prepare \/ Finalize \/ Published \/ RecoveryChanged
  <2>1. issue' = issue
    BY <1>1 DEF Prepare, Finalize, Published, RecoveryChanged
  <2> QED
    BY <2>1
<1> QED
  BY <1>1, AcquiringOffers, PublishingOffers, RecoveryOffers DEF WorkspaceNext

(* An operation makes no pause, and a pause that is there stays as it is. *)
LEMMA OperationNextOffers ==
  ASSUME IInv, QueueInv, OfferInv, OperationNext
  PROVE  OfferInv'
<1>1. Offering(issue)'
  BY WorkerNextOffers, WorkspaceNextOffers DEF OfferInv, OperationNext
<1>2. pauser' = pauser /\ (issue' = issue \/ issue'.status # "PAUSED")
  BY WorkerNextStep, WorkspaceNextStep DEF OperationNext, WorkerStep, Worked
<1>3. Pausing' => ~CanResume(issue)'
  BY <1>2 DEF OfferInv, Pausing, CanResume
<1> QED
  BY <1>1, <1>3 DEF OfferInv

-----------------------------------------------------------------------------
(* The commands, and the process.                                          *)

(* submitReview leaves no failure, and the review behind. *)
LEMMA SubmittedOffers ==
  ASSUME NEW i \in Issue, NEW choice \in ReviewChoices(i)
  PROVE  Offering(SubmitReview(i, choice))
<1> DEFINE m == Moved(i, choice.resume)
           selected == [m EXCEPT
             !.resolution = IF choice.resolution = None THEN @ ELSE choice.resolution,
             !.review = None, !.failure = NoFailure]
           n == SubmitReview(i, choice)
<1>1. n.status \in {"ASSESSING", "REPAIRING", "FINALIZING", "CLOSED"}
  BY SubmitReviewAdvances, ReviewChoicesFit
<1>2. m \in Issue
  BY ReviewChoicesFit, MovedAdvances DEF Advances
<1> HIDE DEF m
<1> DEFINE resolution == IF choice.resolution = None THEN m.resolution ELSE choice.resolution
<1>3. selected \in Issue /\ selected.failure = NoFailure
  <2>1. resolution \in Resolutions \cup {None}
    BY <1>2, ReviewChoicesFit DEF Issue
  <2>2. selected = [m EXCEPT !.resolution = resolution, !.review = None, !.failure = NoFailure]
    OBVIOUS
  <2> HIDE DEF resolution, selected
  <2>3. selected \in Issue
    BY <1>2, <2>1, <2>2, Cleared DEF Issue
  <2>4. selected.failure = NoFailure
    BY <1>2, <2>2 DEF Issue
  <2> QED
    BY <2>3, <2>4
<1>4. n \in
        { selected,
          [selected EXCEPT !.iteration = @ + 1, !.retries = 0, !.draft = 0, !.delivery = 0],
          [selected EXCEPT !.assessment = NoAssessment],
          [selected EXCEPT !.iteration = @ + 1],
          [selected EXCEPT !.recovery = "ARMED"],
          [selected EXCEPT !.grants = {}, !.request = NoRequest, !.recovery = None] }
  BY DEF SubmitReview, selected, m
<1> HIDE DEF n, selected
<1>5. n.failure = NoFailure
  BY <1>3, <1>4 DEF Issue
<1>6. Offering(n)
  BY <1>1, <1>5, WorkingOffers
<1> QED
  BY <1>6 DEF n

(* retryIssue, rebuildAgentSession, approveDelivery of a failed issue:     *)
(* the failure is forgotten.                                               *)
LEMMA RetriedOffers ==
  ASSUME IInv, Retry \/ RepairFinalization \/ RebuildAgentSession
  PROVE  Offering(issue') /\ issue'.status # "PAUSED"
<1>1. issue \in Issue
  BY DEF IInv, TypeOK
<1> DEFINE a == RetryAssessment(issue)
           r == RetryRepair(issue)
           e == RetryEvidence(issue)
           f == RetryFinalizationAsRepair(issue)
           s == ReplaceAgentSession(issue)
<1>2. a.failure = NoFailure /\ r.failure = NoFailure
  BY <1>1 DEF RetryAssessment, RetryRepair, Transition, Moved, Issue
<1>3. e.failure = NoFailure /\ f.failure = NoFailure
  BY <1>1
  DEF RetryEvidence, RetryFinalizationAsRepair, ReopenedForRepair, Transition, Moved, Issue
<1>4. s.failure = NoFailure
  BY <1>1 DEF ReplaceAgentSession, RetryAssessment, RetryRepair, Transition, Moved, Issue
<1>5. issue.status = "ASSESSMENT_FAILED" => a.status = "ASSESSING"
  BY <1>1, RetryAssessmentAdvances DEF CanTransition, Transitions
<1>6. issue.status = "REPAIR_FAILED" => r.status = "REPAIRING"
  BY <1>1, RetryRepairAdvances DEF CanTransition, Transitions
<1>7. issue.status = "EVIDENCE_FAILED" => e.status = "EVIDENCE_CAPTURE"
  BY <1>1, RetryEvidenceAdvances
<1>8. issue.status = "FINALIZATION_FAILED" => f.status = "REPAIRING"
  BY <1>1, RetryFinalizationAsRepairAdvances
<1>9. CanReplaceAgentSession(issue) => s.status \in {"ASSESSING", "REPAIRING"}
  BY <1>1, ReplaceAgentSessionAdvances
<1>10. \/ issue.status = "ASSESSMENT_FAILED" /\ issue' = a
       \/ issue.status = "REPAIR_FAILED" /\ issue' = r
       \/ issue.status = "EVIDENCE_FAILED" /\ issue' = e
       \/ issue.status = "FINALIZATION_FAILED" /\ issue' = f
       \/ CanReplaceAgentSession(issue) /\ issue' = s
  BY DEF Retry, RepairFinalization, CanRepairFinalization, RebuildAgentSession, CanRebuild,
         Queue, Store
<1> HIDE DEF a, r, e, f, s
<1> QED
  BY <1>2, <1>3, <1>4, <1>5, <1>6, <1>7, <1>8, <1>9, <1>10, WorkingOffers

(* grantIssueCapabilities and resumeIssue take the stage up again. *)
LEMMA ResumedOffers ==
  ASSUME IInv, Offering(issue), GrantCapabilities \/ ResumeIssue
  PROVE  Offering(issue') /\ issue'.status # "PAUSED"
<1>1. issue \in Issue
  BY DEF IInv, TypeOK
<1> DEFINE g == GrantCapabilityRequest(issue)
           r == Resume(issue)
<1>2. g.failure = issue.failure
  BY <1>1 DEF GrantCapabilityRequest, Moved, Issue
<1>3. r.failure = issue.failure
  BY <1>1 DEF Resume, Moved, Issue
<1>4. CASE GrantCapabilities
  <2>1. /\ issue.status = "PERMISSION_REQUIRED" /\ issue.request.operation # None
        /\ issue' = g
    BY <1>4 DEF GrantCapabilities, CanGrant, Queue, Store
  <2>2. g.status \in {"ASSESSING", "REPAIRING", "EVIDENCE_CAPTURE", "FINALIZATION_RECOVERY"}
    BY <1>1, <2>1, GrantCapabilityRequestAdvances, ResumeTargets
  <2> HIDE DEF g
  <2> QED
    BY <1>2, <2>1, <2>2, SessionThere, PlainOffers DEF Unavailable
<1>5. CASE ResumeIssue
  <2>1. issue.status = "PAUSED" /\ issue' = r
    BY <1>5 DEF ResumeIssue, CanResume, Queue, Store
  <2>2. issue.pause.operation \in AgentOperations
    BY <2>1 DEF IInv, RowFits
  <2>3. r.status \in {"ASSESSING", "REPAIRING", "EVIDENCE_CAPTURE", "FINALIZATION_RECOVERY"}
    BY <1>1, <2>2, ResumeAdvances, ResumeTargets
  <2> HIDE DEF r
  <2> QED
    BY <1>3, <2>1, <2>3, SessionThere, PlainOffers DEF Unavailable
<1> QED
  BY <1>4, <1>5

(* An input joins the issue. *)
LEMMA InputOffers ==
  ASSUME IInv, OfferInv, AppendInput
  PROVE  OfferInv'
<1> DEFINE n == [issue EXCEPT !.revision = @ + 1]
<1>1. issue \in Issue /\ issue' = n /\ pauser' = pauser
  BY DEF IInv, TypeOK, AppendInput
<1>2. /\ n.status = issue.status /\ n.review = issue.review /\ n.request = issue.request
      /\ n.failure = issue.failure /\ n.session = issue.session /\ n.pause = issue.pause
  BY <1>1 DEF Issue
<1> HIDE DEF n
<1>3. Offering(n)
  BY <1>2, SameOffers DEF OfferInv
<1> QED
  BY <1>1, <1>2, <1>3 DEF OfferInv, Pausing, CanResume

(* cancelIssue and pauseIssue. *)
LEMMA StopIssueOffers ==
  ASSUME IInv, OfferInv, CancelIssue \/ PauseIssue
  PROVE  OfferInv'
<1>1. issue \in Issue
  BY DEF IInv, TypeOK
<1>2. CASE CancelIssue
  <2> DEFINE t == [Transition(issue, "CANCEL") EXCEPT !.resolution = "CANCELED"]
             n == Cancel(issue)
  <2>1. CanTransition(issue, "CANCEL") /\ issue' = n
    BY <1>2 DEF CancelIssue, Store
  <2>2. n.status = "CANCELED"
    BY <1>1, <2>1, CancelAdvances
  <2>3. Transition(issue, "CANCEL") \in Issue
    BY <1>1, <2>1, TransitionAdvances DEF Advances
  <2>4. n.failure = NoFailure
    BY <2>3 DEF Cancel, Ended, Issue
  <2> HIDE DEF n
  <2> QED
    BY <2>1, <2>2, <2>4, WorkingOffers DEF OfferInv, CanResume
<1>3. CASE PauseIssue
  <2> DEFINE n == Pause(issue)
  <2>1. CanTransition(issue, "PAUSE") /\ issue' = n
    BY <1>3 DEF PauseIssue, Store
  <2>2. n.status = "PAUSED" /\ ~n.pause.ready
    BY <1>1, <2>1, PauseAdvances
  <2>3. n.failure = issue.failure
    BY <1>1 DEF Pause, Transition, Moved, Issue
  <2>4. issue.status \notin {"ASSESSMENT_FAILED", "REPAIR_FAILED"}
    BY <2>1 DEF CanTransition, Transitions
  <2> HIDE DEF n
  <2>5. Offering(n)
    BY <2>2, <2>3, <2>4, SessionThere, PlainOffers DEF OfferInv, Unavailable
  <2> QED
    BY <2>1, <2>2, <2>5 DEF OfferInv, CanResume
<1> QED
  BY <1>2, <1>3

(* No command leaves a row that offers what is not there. *)
LEMMA CommandNextOffers ==
  ASSUME IInv, OfferInv, CommandNext
  PROVE  OfferInv'
<1>1. issue \in Issue
  BY DEF IInv, TypeOK
<1>2. ASSUME NEW choice \in ReviewChoices(issue), SubmitReviewed(choice) PROVE OfferInv'
  <2>1. issue' = SubmitReview(issue, choice)
    BY <1>2 DEF SubmitReviewed, Store
  <2>2. SubmitReview(issue, choice).status \in {"ASSESSING", "REPAIRING", "FINALIZING", "CLOSED"}
    BY <1>1, SubmitReviewAdvances, ReviewChoicesFit
  <2>3. Offering(SubmitReview(issue, choice))
    BY <1>1, SubmittedOffers
  <2> QED
    BY <2>1, <2>2, <2>3 DEF OfferInv, CanResume
<1>3. CASE Retry \/ RepairFinalization \/ RebuildAgentSession
  BY <1>3, RetriedOffers DEF OfferInv, CanResume
<1>4. CASE GrantCapabilities \/ ResumeIssue
  BY <1>4, ResumedOffers DEF OfferInv, CanResume
<1> QED
  BY <1>2, <1>3, <1>4, InputOffers, StopIssueOffers DEF CommandNext

(* pauseIssue, after its first await: when the pause becomes ready it has  *)
(* returned.                                                               *)
LEMMA PauserNextOffers ==
  ASSUME IInv, OfferInv, PauserNext
  PROVE  OfferInv'
<1>1. issue \in Issue /\ pauser \in Pauser
  BY DEF IInv, TypeOK
<1>2. CASE PauseCanceled \/ PauseNotCanceled
  <2>1. issue' = issue /\ pauser.pc = "canceling"
    BY <1>2 DEF PauseCanceled, PauseNotCanceled
  <2> QED
    BY <2>1 DEF OfferInv, Pausing
<1>3. CASE PauseSettled
  <2> DEFINE n == CompleteIssuePause(issue)
  <2>1. pauser' = NoPauser /\ (issue' = issue \/ (MarksReady /\ issue' = n))
    BY <1>3 DEF PauseSettled, Store
  <2>2. ~Pausing'
    BY <2>1 DEF Pausing, NoPauser
  <2>3. n.status = issue.status /\ n.failure = issue.failure
    BY <1>1 DEF CompleteIssuePause, Issue
  <2> HIDE DEF n
  <2>4. MarksReady => Offering(n)
    BY <2>3, SessionThere, PlainOffers DEF OfferInv, MarksReady, Unavailable
  <2> QED
    BY <2>1, <2>2, <2>4 DEF OfferInv
<1> QED
  BY <1>2, <1>3 DEF PauserNext

(* The start of the Runtime: a failure that is migrated is not that of a   *)
(* session, and an issue that is queued again keeps what it offers.        *)
LEMMA StartNextOffers ==
  ASSUME IInv, OfferInv, StartNext
  PROVE  OfferInv'
<1>1. issue \in Issue
  BY DEF IInv, TypeOK
<1>2. CASE RecoverWorkspaces
  <2> DEFINE n == [issue EXCEPT !.path = TRUE, !.revision = @ + 1]
  <2>1. pauser' = pauser /\ (issue' = issue \/ issue' = n)
    BY <1>2 DEF RecoverWorkspaces, FailedRecovery, RestoredBinding, Store
  <2>2. /\ n.status = issue.status /\ n.review = issue.review /\ n.request = issue.request
        /\ n.failure = issue.failure /\ n.session = issue.session /\ n.pause = issue.pause
    BY <1>1 DEF Issue
  <2> HIDE DEF n
  <2>3. Offering(n)
    BY <2>2, SameOffers DEF OfferInv
  <2> QED
    BY <2>1, <2>2, <2>3 DEF OfferInv, Pausing, CanResume
<1>3. CASE ReconcileInterrupted
  <2> DEFINE n == [issue EXCEPT !.revision = @ + 1]
             m == MigratedFailure(issue)
  <2>1. /\ pauser' = pauser
        /\ issue' = issue \/ issue' = n \/ (LegacyFailure(issue) /\ issue' = m)
    BY <1>3 DEF ReconcileInterrupted, Reconciled, Store
  <2>2. /\ n.status = issue.status /\ n.review = issue.review /\ n.request = issue.request
        /\ n.failure = issue.failure /\ n.session = issue.session /\ n.pause = issue.pause
    BY <1>1 DEF Issue
  <2>3. m.status = "EVIDENCE_FAILED" /\ m.failure.code = issue.failure.code
    BY <1>1 DEF MigratedFailure, Issue, Failure
  <2>4. LegacyFailure(issue) => ~Unavailable(m)
    BY <2>3 DEF LegacyFailure, LegacyEvidenceFailureCodes, Unavailable
  <2> HIDE DEF n, m
  <2>5. Offering(n)
    BY <2>2, SameOffers DEF OfferInv
  <2>6. LegacyFailure(issue) => Offering(m)
    BY <2>3, <2>4, PlainOffers
  <2> QED
    BY <2>1, <2>2, <2>3, <2>5, <2>6 DEF OfferInv, Pausing, CanResume
<1>4. CASE Stop \/ CancelAgents \/ Stopped \/ Crash
  <2>1. issue' = issue /\ (pauser' = pauser \/ pauser' = NoPauser)
    BY <1>4 DEF Stop, CancelAgents, Stopped, Crash, ProcessEnds, durable
  <2> QED
    BY <2>1 DEF OfferInv, Pausing, NoPauser
<1> QED
  BY <1>2, <1>3, <1>4 DEF StartNext, LifecycleNext

(* The rows the model starts from are at work and have not failed. *)
LEMMA InitOffers == ASSUME Init PROVE OfferInv
<1>1. /\ NewIssue.failure = NoFailure /\ NewIssue.status = "RECEIVED"
      /\ NewIssue \in Issue
  BY NoOpType DEF NewIssue
<1>2. RepairedIssue.failure = NoFailure /\ DOMAIN RepairedIssue = DOMAIN NewIssue
  BY <1>1 DEF RepairedIssue, Issue
<1>3. CASE CreatedRow
  BY <1>1, <1>3, WorkingOffers DEF CreatedRow, OfferInv, CanResume
<1>4. CASE RecoveringRow
  <2>1. issue.failure = NoFailure /\ issue.status = "FINALIZATION_RECOVERY"
    BY <1>1, <1>2, <1>4 DEF RecoveringRow, Issue
  <2> QED
    BY <2>1, WorkingOffers DEF OfferInv, CanResume
<1>5. CASE UnboundRow
  <2>1. issue.failure = NoFailure /\ issue.status = "REPAIRING"
    BY <1>1, <1>2, <1>5 DEF UnboundRow, Issue
  <2> QED
    BY <2>1, WorkingOffers DEF OfferInv, CanResume
<1> QED
  BY <1>3, <1>4, <1>5 DEF Init

(* No step of the Runtime, of a user or of the process breaks it. *)
LEMMA NextOffers ==
  ASSUME IInv, QueueInv, OfferInv, [Next]_vars
  PROVE  OfferInv'
<1>1. CASE Next
  BY <1>1, OperationNextOffers, StartNextOffers, CommandNextOffers, PauserNextOffers DEF Next
<1>2. CASE UNCHANGED vars
  BY <1>2 DEF vars, durable, OfferInv, Pausing
<1> QED
  BY <1>1, <1>2

(* In every reachable state a row carries what it is offered with, and a   *)
(* pause that is ready is nobody's any more.                               *)
THEOREM OfferInvariance == Spec => []OfferInv
<1>1. Init => OfferInv
  BY InitOffers
<1>2. IInv /\ QueueInv /\ OfferInv /\ [Next]_vars => OfferInv'
  BY NextOffers
<1> QED
  BY <1>1, <1>2, Invariance, QueueInvariance, PTL DEF Spec

-----------------------------------------------------------------------------
(* The buttons of the window.                                              *)

(* The identifiers of the choices: none of them is that of another button. *)
LEMMA ChoiceNames ==
  ASSUME NEW i, NEW choice \in ReviewChoices(i)
  PROVE  choice.id \in {"implement", "not-a-bug", "duplicate", "reassess", "accept",
                        "request-changes", "business"}
<1>1. CASE i.review = "assessment"
  <2>1. choice \in AssessmentChoices(i)
    BY <1>1 DEF ReviewChoices
  <2>2. \/ choice = Choice("implement", "REPAIRING", "REPAIR", None)
        \/ choice = Choice("not-a-bug", "CLOSED", None, "NOT_A_BUG")
        \/ choice = Choice("duplicate", "CLOSED", None, "DUPLICATE")
        \/ choice = Choice("reassess", "ASSESSING", "ASSESS", None)
    BY <2>1 DEF AssessmentChoices
  <2> QED
    BY <2>2 DEF Choice
<1>2. CASE i.review = "delivery"
  <2>1. choice \in DeliveryChoices(i)
    BY <1>2 DEF ReviewChoices
  <2> QED
    BY <2>1 DEF DeliveryChoices, Choice
<1>3. CASE i.review = "business-merge-conflict"
  <2>1. choice \in BusinessChoices
    BY <1>3 DEF ReviewChoices
  <2> QED
    BY <2>1 DEF BusinessChoices, Choice
<1> QED
  BY <1>1, <1>2, <1>3 DEF ReviewChoices

(* A review is never shown without a choice. *)
LEMMA ReviewHasOffer ==
  ASSUME issue.review \in Reviews
  PROVE  ReviewOffers # {}
<1>1. CASE issue.review = "assessment"
  <2> DEFINE choice == Choice("reassess", "ASSESSING", "ASSESS", None)
  <2>1. choice \in ReviewChoices(issue)
    BY <1>1 DEF ReviewChoices, AssessmentChoices
  <2>2. choice.id = "reassess"
    BY DEF Choice
  <2> HIDE DEF choice
  <2> QED
    BY <2>1, <2>2 DEF ReviewOffers
<1>2. CASE issue.review = "delivery"
  <2> DEFINE choice == Choice("request-changes", "REPAIRING", "REPAIR", None)
  <2>1. choice \in ReviewChoices(issue)
    BY <1>2 DEF ReviewChoices, DeliveryChoices
  <2>2. choice.id = "request-changes"
    BY DEF Choice
  <2> HIDE DEF choice
  <2> QED
    BY <2>1, <2>2 DEF ReviewOffers
<1>3. CASE issue.review = "business-merge-conflict"
  <2> DEFINE choice == Choice("business", "REPAIRING", "REPAIR", None)
  <2>1. choice \in ReviewChoices(issue)
    BY <1>3 DEF ReviewChoices, BusinessChoices
  <2>2. choice.id = "business"
    BY DEF Choice
  <2> HIDE DEF choice
  <2> QED
    BY <2>1, <2>2 DEF ReviewOffers
<1> QED
  BY <1>1, <1>2, <1>3 DEF Reviews

(* Every choice of a review that is shown is one the Runtime takes. *)
LEMMA ReviewTaken ==
  ASSUME issue.status = "REVIEW_REQUIRED", NEW offer \in ReviewOffers
  PROVE  Taken(offer)
<1>1. PICK choice \in ReviewChoices(issue) : choice.id = offer
  BY DEF ReviewOffers
<1>2. offer \notin {"cancel", "pause", "resume", "grant", "repair", "rebuild", "retry"}
  BY <1>1, ChoiceNames
<1> QED
  BY <1>1, <1>2 DEF Taken, CanReview

(* So is every other way forward, but the rebuild of a session whose name  *)
(* is taken.                                                               *)
LEMMA ForwardTaken ==
  ASSUME IInv, QueueInv, OfferInv, issue.status \notin TerminalOrPublishing,
         NEW offer \in Forward
  PROVE  Taken(offer) \/ (offer = "rebuild" /\ Unrebuildable)
<1>1. issue \in Issue /\ issue.status \in Statuses
  BY DEF IInv, TypeOK, Issue
<1>2. CASE issue.status = "REVIEW_REQUIRED" /\ issue.review # None
  <2>1. Forward = ReviewOffers
    BY <1>2 DEF Forward, Pauseable
  <2> QED
    BY <1>2, <2>1, ReviewTaken
<1>3. CASE issue.status = "PERMISSION_REQUIRED" /\ issue.request # NoRequest
  <2>1. Forward = {"grant"}
    BY <1>3 DEF Forward, Pauseable
  <2>2. issue.request.operation # None
    BY <1>3, NoneIsNoOperation DEF OfferInv, Offering
  <2> QED
    BY <1>3, <2>1, <2>2 DEF Taken, CanGrant
<1>4. CASE issue.status \in Pauseable
  <2>1. offer = "pause"
    BY <1>4 DEF Forward, Pauseable
  <2>2. CanTransition(issue, "PAUSE")
    BY <1>4 DEF Pauseable, CanTransition, Transitions
  <2> QED
    BY <2>1, <2>2 DEF Taken
<1>5. CASE issue.status = "PAUSED"
  <2>1. offer \in PausedOffers
    BY <1>5 DEF Forward, Pauseable
  <2>2. offer = "resume" /\ issue.pause.ready
    BY <2>1 DEF PausedOffers
  <2>3. ~Pausing /\ CanResume(issue)
    BY <1>5, <2>2 DEF OfferInv, CanResume
  <2> QED
    BY <2>2, <2>3 DEF Taken
<1>6. CASE issue.status = "FINALIZATION_FAILED"
  <2>1. offer = "repair"
    BY <1>6 DEF Forward, Pauseable
  <2> QED
    BY <1>6, <2>1 DEF Taken, CanRepairFinalization
<1>7. CASE offer \in FailureOffers
  <2>1. CASE issue.failure.code = "AGENT_SESSION_UNAVAILABLE"
    <3>1. offer = "rebuild" /\ CanReplaceAgentSession(issue)
      BY <1>7, <2>1 DEF FailureOffers, OfferInv, Offering, Unavailable
    <3> QED
      BY <3>1 DEF Taken, CanRebuild, Unrebuildable
  <2>2. CASE issue.failure.code # "AGENT_SESSION_UNAVAILABLE"
    <3>1. /\ offer = "retry"
          /\ issue.status \in {"ASSESSMENT_FAILED", "REPAIR_FAILED", "EVIDENCE_FAILED"}
      BY <1>7, <2>2 DEF FailureOffers
    <3>2. issue.status = "EVIDENCE_FAILED" => issue.draft > 0
      BY DEF QueueInv, Equipped, Toward
    <3> QED
      BY <3>1, <3>2 DEF Taken, CanRetry
  <2> QED
    BY <2>1, <2>2
<1> QED
  BY <1>2, <1>3, <1>4, <1>5, <1>6, <1>7 DEF Forward

(* An issue that waits for the human has a way forward. *)
LEMMA ForwardThere ==
  ASSUME IInv, OfferInv, ~Automatic, issue.status \notin Terminal, ~Unprepared
  PROVE  Forward # {} \/ (issue.status = "PAUSED" /\ ~issue.pause.ready)
<1>1. issue.status \in Statuses
  BY DEF IInv, TypeOK, Issue
<1>2. issue.status \in
        {"ASSESSMENT_FAILED", "EVIDENCE_FAILED", "REPAIR_FAILED", "PERMISSION_REQUIRED",
         "REVIEW_REQUIRED", "FINALIZATION_FAILED", "PAUSED"}
  BY <1>1 DEF Statuses, Transitions, Automatic, Terminal, Unprepared
<1>3. CASE issue.status = "REVIEW_REQUIRED"
  <2>1. issue.review \in Reviews /\ issue.review # None
    BY <1>3 DEF OfferInv, Offering, Reviews, None
  <2> QED
    BY <1>3, <2>1, ReviewHasOffer DEF Forward
<1>4. CASE issue.status = "PERMISSION_REQUIRED"
  <2>1. issue.request # NoRequest
    BY <1>4, NoneIsNoOperation DEF OfferInv, Offering, NoRequest
  <2> QED
    BY <1>4, <2>1 DEF Forward
<1>5. CASE issue.status = "PAUSED"
  <2>1. Forward = PausedOffers
    BY <1>5 DEF Forward, Pauseable
  <2> QED
    BY <1>5, <2>1 DEF PausedOffers
<1>6. CASE issue.status = "FINALIZATION_FAILED"
  <2>1. Forward = {"repair"}
    BY <1>6 DEF Forward, Pauseable
  <2> QED
    BY <2>1
<1>7. CASE issue.status \in {"ASSESSMENT_FAILED", "EVIDENCE_FAILED", "REPAIR_FAILED"}
  <2>1. Forward = FailureOffers
    BY <1>7 DEF Forward, Pauseable
  <2> QED
    BY <1>7, <2>1 DEF FailureOffers
<1> QED
  BY <1>2, <1>3, <1>4, <1>5, <1>6, <1>7

(* The window never offers what the Runtime refuses, leaves nobody whose   *)
(* move it is with nothing but giving up, and the tray calls for attention *)
(* exactly then: whatever failed, was paused, migrated or repeated before, *)
(* and whether or not the Agent names a session anew, except that an Agent *)
(* that does not leaves the rebuild of a session offered and refused.      *)
THEOREM OffersAreTaken == Spec => []OffersAreHonoured
<1>1. IInv /\ QueueInv /\ OfferInv => OffersAreHonoured
  <2> SUFFICES ASSUME IInv, QueueInv, OfferInv PROVE OffersAreHonoured
    OBVIOUS
  <2>1. issue.status \in Statuses
    BY DEF IInv, TypeOK, Issue
  <2>2. ASSUME NEW offer \in Offered
        PROVE  \/ Taken(offer)
               \/ offer = "cancel" /\ issue.status \in Pauseable
               \/ offer = "rebuild" /\ Unrebuildable
    <3>1. issue.status \notin TerminalOrPublishing /\ (offer = "cancel" \/ offer \in Forward)
      BY <2>2 DEF Offered
    <3>2. issue.status \in Pauseable \/ CanTransition(issue, "CANCEL")
      BY <2>1, <3>1
      DEF Statuses, Transitions, CanTransition, Pauseable, TerminalOrPublishing, Terminal
    <3>3. CASE offer = "cancel"
      BY <3>2, <3>3 DEF Taken
    <3>4. CASE offer \in Forward
      BY <3>1, <3>4, ForwardTaken
    <3> QED
      BY <3>1, <3>3, <3>4
  <2>3. ASSUME ~Automatic, issue.status \notin Terminal, ~Unprepared
        PROVE  \/ \E offer \in Forward : Taken(offer)
               \/ issue.status = "PAUSED" /\ ~issue.pause.ready
               \/ Unrebuildable
    <3>1. issue.status \notin TerminalOrPublishing
      BY <2>3 DEF Automatic, TerminalOrPublishing
    <3>2. Forward # {} \/ (issue.status = "PAUSED" /\ ~issue.pause.ready)
      BY <2>3, ForwardThere
    <3>3. CASE Forward # {}
      <4>1. PICK offer \in Forward : TRUE
        BY <3>3
      <4> QED
        BY <3>1, <4>1, ForwardTaken
    <3> QED
      BY <3>2, <3>3
  <2>4. issue.status \in TrayAttention <=>
          ~Automatic /\ issue.status \notin Terminal /\ ~Unprepared
    BY <2>1 DEF TrayAttention, Automatic, Terminal, Unprepared, Statuses, Transitions
  <2>5. issue.status \in TrayProcessing <=> Automatic \/ Unprepared
    BY <2>1 DEF TrayProcessing, Automatic, Unprepared
  <2> QED
    BY <2>2, <2>3, <2>4, <2>5 DEF OffersAreHonoured
<1> QED
  BY <1>1, Invariance, QueueInvariance, OfferInvariance, PTL
=============================================================================
