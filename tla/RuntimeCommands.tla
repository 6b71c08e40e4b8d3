--------------------------- MODULE RuntimeCommands ---------------------------
(***************************************************************************)
(* RuntimeCommands: what the user and the integrations ask of one Issue.   *)
(* Each command is a transaction on the current row; a command that is     *)
(* refused throws and changes nothing, so it has no step.                  *)
(***************************************************************************)
EXTENDS RuntimeState

(* assertAccepting, and the bound on what is asked. *)
Commanded == mode = "up" /\ issue.revision < MaxRevision

(* What a command asks of the row, besides what its recorder asks.         *)
CanReview(i) == i.status = "REVIEW_REQUIRED"

CanRetry(i) ==
  \/ i.status \in {"ASSESSMENT_FAILED", "REPAIR_FAILED"}
  \/ i.status = "EVIDENCE_FAILED" /\ i.draft > 0

CanRepairFinalization(i) == i.status = "FINALIZATION_FAILED"

CanGrant(i) == i.status = "PERMISSION_REQUIRED" /\ i.request.operation # None

(* A session's name is the primary key of its row, a session that is       *)
(* replaced keeps its row, and the Codex adapter, as codexAgent makes it,  *)
(* names every session of an issue after the issue.                        *)
SessionNameFree(i) == FreshSessions \/ ~i.session

CanRebuild(i) == CanReplaceAgentSession(i) /\ SessionNameFree(i)

(* wake: the pump is kicked and looks at every pending operation again.    *)
Wake == asleep' = FALSE

(* change with a pending operation *)
Queue(next, operation) ==
  /\ Store(next, operation)
  /\ Wake
  /\ UNCHANGED <<reviewed, binding, mode, op, pauser, history>>

SubmitReviewed(choice) ==
  LET next == SubmitReview(issue, choice)
  IN  /\ Commanded
      /\ CanReview(issue)
      /\ Store(next, choice.operation)
      /\ reviewed' = IF choice.operation = "REPAIR" THEN next.revision ELSE reviewed
      /\ accepted' = IF choice.id = "accept" THEN issue.iteration ELSE accepted
      /\ asleep' = IF choice.operation = None THEN asleep ELSE FALSE
      /\ UNCHANGED <<binding, mode, op, pauser, published>>

(* retryIssue *)
Retry ==
  /\ Commanded
  /\ CanRetry(issue)
  /\ \/ issue.status = "ASSESSMENT_FAILED" /\ Queue(RetryAssessment(issue), "ASSESS")
     \/ issue.status = "REPAIR_FAILED" /\ Queue(RetryRepair(issue), "REPAIR")
     \/ issue.status = "EVIDENCE_FAILED" /\ Queue(RetryEvidence(issue), "CAPTURE_EVIDENCE")

(* approveDelivery of an issue that could not be finalized *)
RepairFinalization ==
  /\ Commanded
  /\ CanRepairFinalization(issue)
  /\ Queue(RetryFinalizationAsRepair(issue), "REPAIR")

(* The revision is checked before the session is created and again after,  *)
(* so nothing that happens in between is overwritten.  When the store      *)
(* refuses the new session's row, the whole transaction is rolled back.    *)
RebuildAgentSession ==
  /\ Commanded
  /\ CanRebuild(issue)
  /\ Queue(ReplaceAgentSession(issue),
           IF issue.status = "ASSESSMENT_FAILED" THEN "ASSESS" ELSE "REPAIR")

GrantCapabilities ==
  /\ Commanded
  /\ CanGrant(issue)
  /\ Queue(GrantCapabilityRequest(issue), issue.request.operation)

(* acceptIntegrationInput of an input that joins this issue's group.       *)
AppendInput ==
  /\ Commanded
  /\ "input" \in Faults
  /\ issue.status \notin Terminal
  /\ issue' = [issue EXCEPT !.revision = @ + 1]
  /\ UNCHANGED <<pending, reviewed, binding, mode, op, pauser, asleep, history>>

-----------------------------------------------------------------------------
(* Mutant: the cancellation leaves the queued operation alone. *)
CancelIssueOnly ==
  /\ Commanded
  /\ CanTransition(issue, "CANCEL")
  /\ Store(Cancel(issue), pending)
  /\ op' = IF issue.session THEN Interrupted(op, "USER_CANCELED") ELSE op
  /\ UNCHANGED <<reviewed, binding, mode, pauser, asleep, history>>

(* cancelIssue: the turn is aborted, its result no longer counts.          *)
CancelIssue ==
  /\ Commanded
  /\ CanTransition(issue, "CANCEL")
  /\ Store(Cancel(issue), None)
  /\ op' = IF issue.session THEN Interrupted(op, "USER_CANCELED") ELSE op
  /\ UNCHANGED <<reviewed, binding, mode, pauser, asleep, history>>

(* pauseIssue up to its first await: the issue is paused, the operation's  *)
(* signal is aborted and so is the turn's, if one is under way.            *)
PauseIssue ==
  /\ Commanded
  /\ CanTransition(issue, "PAUSE")
  /\ Store(Pause(issue), None)
  /\ op' = IF Active
             THEN [(IF issue.session THEN Interrupted(op, "USER_PAUSED") ELSE op)
                     EXCEPT !.aborted = TRUE]
             ELSE op
  /\ pauser' = [pc     |-> IF issue.session /\ op.pc \in Turning THEN "canceling" ELSE "waiting",
                awaits |-> Active,
                at     |-> issue.revision + 1]
  /\ UNCHANGED <<reviewed, binding, mode, asleep, history>>

PauserFrame == UNCHANGED <<reviewed, binding, mode, op, asleep, history>>

(* AgentAdapter.cancel resolves when the turn it has aborted is over.      *)
PauseCanceled ==
  /\ pauser.pc = "canceling"
  /\ op.pc \notin Turning \/ op.interrupt = None
  /\ pauser' = [pauser EXCEPT !.pc = "waiting"]
  /\ UNCHANGED <<issue, pending>> /\ PauserFrame

(* The cancellation is rejected or outlives its deadline.                  *)
PauseNotCanceled ==
  /\ "cancel" \in Faults
  /\ pauser.pc = "canceling" /\ Active
  /\ pauser' = [pauser EXCEPT !.pc = "background"]
  /\ UNCHANGED <<issue, pending>> /\ PauserFrame

(* Mutant: the pause is recognized by the revision instead of pausedAt. *)
MarksReadyOfRevision ==
  /\ ~(pauser.awaits /\ asleep)
  /\ issue.status = "PAUSED" /\ issue.revision = pauser.at /\ ~issue.pause.ready

(* markPauseReady, unless the operation that was awaited has rejected.     *)
MarksReady ==
  /\ ~(pauser.awaits /\ asleep)
  /\ issue.status = "PAUSED" /\ issue.pause.at = pauser.at /\ ~issue.pause.ready

(* Mutant: the cancellation of the turn is awaited, the operation is not. *)
PauseSettledEarly ==
  /\ pauser.pc \in {"waiting", "background"}
  /\ pauser' = NoPauser
  /\ IF MarksReady THEN Store(CompleteIssuePause(issue), None) ELSE UNCHANGED <<issue, pending>>
  /\ PauserFrame

PauseSettled ==
  /\ pauser.pc \in {"waiting", "background"}
  /\ ~Active
  /\ pauser' = NoPauser
  /\ IF MarksReady THEN Store(CompleteIssuePause(issue), None) ELSE UNCHANGED <<issue, pending>>
  /\ PauserFrame

ResumeIssue ==
  /\ Commanded
  /\ ~Pausing
  /\ CanResume(issue)
  /\ Queue(Resume(issue), issue.pause.operation)

CommandNext ==
  \/ \E choice \in ReviewChoices(issue) : SubmitReviewed(choice)
  \/ Retry \/ RepairFinalization \/ RebuildAgentSession \/ GrantCapabilities \/ AppendInput
  \/ CancelIssue \/ PauseIssue \/ ResumeIssue

PauserNext == PauseCanceled \/ PauseNotCanceled \/ PauseSettled
=============================================================================
