---------------------------- MODULE IssueRuntime ----------------------------
(***************************************************************************)
(* One Issue in the Runtime: the worker, the workspace coordinator, the    *)
(* commands and the life of the process acting on the same row.            *)
(***************************************************************************)
EXTENDS WorkspaceCoordinator, RuntimeCommands, RuntimeLifecycle

CONSTANT Origins    \* the kinds of row the model starts from

ASSUME OriginsAssumption == Origins \subseteq {"created", "recovering", "unbound"}

(* acceptIntegrationInput created the issue in a running Runtime.          *)
CreatedRow ==
  /\ issue = NewIssue /\ pending = "PREPARE" /\ binding = None
  /\ mode = "up" /\ accepted = 0

RepairedIssue ==
  [NewIssue EXCEPT !.path = TRUE, !.session = TRUE, !.iteration = 1,
                   !.assessment = [verdict |-> "BUG", duplicate |-> FALSE]]

(* A row an earlier version left in the middle of a finalization recovery. *)
RecoveringRow ==
  /\ issue = [RepairedIssue EXCEPT
                !.status = "FINALIZATION_RECOVERY", !.resolution = "FIXED",
                !.draft = 1, !.delivery = 1, !.recovery = "STARTED"]
  /\ pending \in {None, "RECOVER_FINALIZATION"} /\ binding = "READY"
  /\ mode = "down" /\ accepted = 1

(* A row from before there were workspace bindings.                        *)
UnboundRow ==
  /\ issue = [RepairedIssue EXCEPT !.status = "REPAIRING"]
  /\ pending \in {None, "REPAIR"} /\ binding = None
  /\ mode = "down" /\ accepted = 0

Init ==
  /\ \/ "created" \in Origins /\ CreatedRow
     \/ "recovering" \in Origins /\ RecoveringRow
     \/ "unbound" \in Origins /\ UnboundRow
  /\ reviewed = 0
  /\ op = NoOp
  /\ pauser = NoPauser
  /\ asleep = FALSE
  /\ published = 0

OperationNext == WorkerNext \/ WorkspaceNext
StartNext == RecoverWorkspaces \/ LifecycleNext
Next == OperationNext \/ StartNext \/ CommandNext \/ PauserNext

(* An Agent, a provider and a capture end in some way, and the event loop  *)
(* runs what is ready.  Nothing obliges a user, or a fault, to act.        *)
Fairness ==
  /\ WF_vars(OperationNext)
  /\ WF_vars(PauserNext)
  /\ WF_vars(RecoverWorkspaces)
  /\ WF_vars(ReconcileInterrupted)
  /\ WF_vars(CancelAgents)
  /\ WF_vars(Stopped)

Spec == Init /\ [][Next]_vars
FairSpec == Spec /\ Fairness

-----------------------------------------------------------------------------
(* A result is stored when the revision of the issue it was computed from  *)
(* is still the stored one.  That is sound: no write keeps the revision    *)
(* and changes the issue while an operation holds a snapshot of it.        *)
Claimed == op.pc \notin {"idle", "cleanup", "unwinding"}

SnapshotCurrent ==
  Claimed => /\ op.snap.revision <= issue.revision
             /\ Current(op.snap) => op.snap = issue

Respectful ==
  /\ issue.status = "PAUSED" =>
       \/ issue'.status \in {"PAUSED", "CANCELED"}
       \/ /\ issue.pause.ready /\ ~Pausing /\ mode = "up"
          /\ issue'.status = ResumeStatus[issue.pause.operation]
          /\ pending' = issue.pause.operation
  /\ issue.status \in Terminal => issue' = issue

(* Once an issue is paused, only resumeIssue (of a ready pause) and        *)
(* cancelIssue move it on; a terminal issue never changes again.  A late   *)
(* result, a restart and a pause that completes late do not.               *)
HumanHasTheWord == [][Respectful]_vars

(* A pause is ready only when nothing runs for the issue any more: its     *)
(* workspace is the user's until it is resumed.                            *)
ReadyMeansQuiet == issue.status = "PAUSED" /\ issue.pause.ready => ~Active

(* Nothing is published, and no issue completed, whose current iteration   *)
(* a human has not accepted; what is published carries the evidence of     *)
(* that iteration.                                                         *)
HumanGate ==
  /\ issue.status \in {"FINALIZING", "FINALIZATION_RECOVERY", "COMPLETED"} =>
       accepted = issue.iteration
  /\ op.pc \in {"publishing", "releasing"} =>
       accepted = op.snap.iteration /\ op.snap.delivery = accepted
  /\ issue.status = "COMPLETED" => published = issue.iteration

(* Evidence is captured for, checked and shown as that of the iteration    *)
(* that was implemented last: drafts and deliveries of an earlier one that *)
(* an issue still carries are not taken for it.                            *)
EvidenceOfThisIteration ==
  /\ \/ issue.status \in {"EVIDENCE_CAPTURE", "EVIDENCE_CHECK", "EVIDENCE_FAILED"}
     \/ issue.status = "PAUSED" /\ issue.pause.operation = "CAPTURE_EVIDENCE"
     => issue.draft = issue.iteration
  /\ \/ issue.status \in {"EVIDENCE_CHECK", "FINALIZING", "FINALIZATION_RECOVERY"}
     \/ issue.review = "delivery"
     => issue.delivery = issue.iteration

(* A queued operation finds the status and the context it demands; one     *)
(* that does not throws, and the issue has failed in the pump.             *)
PendingFits ==
  CASE pending = "PREPARE"  -> issue.status = "RECEIVED" /\ ~issue.path
    [] pending = "ASSESS"   -> issue.status \in {"RECEIVED", "ASSESSING"} /\ issue.path
    [] pending = "REPAIR"   -> issue.status = "REPAIRING" /\ RepairContext(issue) /\ issue.path
    [] pending = "CAPTURE_EVIDENCE" -> CaptureContext(issue) /\ issue.path
    [] pending = "EVIDENCE" -> issue.status = "EVIDENCE_CHECK" /\ issue.delivery > 0
    [] pending = "FINALIZE" -> issue.status = "FINALIZING"
    [] pending = "RECOVER_FINALIZATION" -> issue.status = "FINALIZATION_RECOVERY"
    [] OTHER -> TRUE

(* Statuses in which the Runtime, not the human, has the next move.        *)
Automatic ==
  \/ issue.status \in {"ASSESSING", "REPAIRING", "EVIDENCE_CAPTURE", "EVIDENCE_CHECK",
                       "FINALIZING", "FINALIZATION_RECOVERY"}
  \/ issue.status = "RECEIVED" /\ binding # "FAILED"

(* In a ready Runtime an issue that waits for the Runtime has an operation *)
(* running or queued, and the pump will see the queued one.                *)
NotStranded == mode = "up" /\ Automatic => Active \/ (pending # None /\ ~asleep)

-----------------------------------------------------------------------------
(* Unless the process keeps ending, every stage the Runtime runs by itself *)
(* ends with the human's move: the automatic evidence retries are bounded, *)
(* no step is waited for that nothing performs, and what a shutdown or a   *)
(* crash interrupts is taken up again.                                     *)
ReachesHuman == <>[](mode = "up") => []<>~Automatic

(* A paused issue becomes resumable.                                       *)
PauseBecomesReady ==
  issue.status = "PAUSED" /\ ~issue.pause.ready ~> issue.status # "PAUSED" \/ issue.pause.ready

(* As long as the Runtime lives, a pause becomes resumable: a turn that    *)
(* ignores its cancellation, an input that joins the issue, a failing      *)
(* intake and a stop do not keep pauseIssue from completing.  An operation *)
(* that rejects does.                                                      *)
PauseCompletes ==
  issue.status = "PAUSED" /\ ~issue.pause.ready /\ pauser.pc # "idle"
    ~> issue.status # "PAUSED" \/ issue.pause.ready \/ mode = "down" \/ asleep

(* stop() completes whatever the operation and the pause are doing.        *)
StopCompletes == mode = "stopping" ~> mode = "down"
=============================================================================
