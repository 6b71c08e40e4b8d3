---------------------------- MODULE IssueOffers ----------------------------
(***************************************************************************)
(* What the window offers the user to do with the Issue it shows           *)
(* (issue-actions.tsx, review-panel.tsx, capability-request-panel.tsx),    *)
(* where the tray lists it (tray-task-model.ts), and the command of the    *)
(* Runtime each offer ends in.  The window shows the stored row: one that  *)
(* shows an older row is DesktopRuntime's subject.                         *)
(***************************************************************************)
EXTENDS IssueRuntime

(* pauseable and terminalOrPublishing *)
Pauseable == {"ASSESSING", "REPAIRING", "EVIDENCE_CAPTURE", "FINALIZATION_RECOVERY"}
TerminalOrPublishing == {"FINALIZING"} \cup Terminal

(* The button says so while it waits for the pause to complete.            *)
PausedOffers == IF issue.pause.ready THEN {"resume"} ELSE {}

(* Mutant: the session can be rebuilt after every failure of a stage. *)
FailureOffersRebuild ==
  IF issue.status \in {"ASSESSMENT_FAILED", "REPAIR_FAILED", "EVIDENCE_FAILED"} THEN {"rebuild"} ELSE {}

FailureOffers ==
  IF issue.failure.code = "AGENT_SESSION_UNAVAILABLE" THEN {"rebuild"}
  ELSE IF issue.status \in {"ASSESSMENT_FAILED", "REPAIR_FAILED", "EVIDENCE_FAILED"} THEN {"retry"}
  ELSE {}

(* ReviewPanel: a duplicate is a choice when the Agent has suggested one.  *)
ReviewOffers == {choice.id : choice \in {c \in ReviewChoices(issue) :
                                           c.id = "duplicate" => issue.assessment.duplicate}}

(* IssueActions: the first panel that applies.                             *)
Forward ==
  CASE issue.status = "REVIEW_REQUIRED" /\ issue.review # None -> ReviewOffers
    [] issue.status = "PERMISSION_REQUIRED" /\ issue.request # NoRequest -> {"grant"}
    [] issue.status \in Pauseable -> {"pause"}
    [] issue.status = "PAUSED" -> PausedOffers
    [] issue.status = "FINALIZATION_FAILED" -> {"repair"}
    [] OTHER -> FailureOffers

Offered == IF issue.status \in TerminalOrPublishing THEN {} ELSE {"cancel"} \cup Forward

(* The command a button ends in takes the issue as it is: what CancelIssue, *)
(* PauseIssue, ..., SubmitReviewed ask of it.                              *)
Taken(offer) ==
  CASE offer = "cancel"  -> CanTransition(issue, "CANCEL")
    [] offer = "pause"   -> CanTransition(issue, "PAUSE")
    [] offer = "resume"  -> ~Pausing /\ CanResume(issue)
    [] offer = "grant"   -> CanGrant(issue)
    [] offer = "repair"  -> CanRepairFinalization(issue)
    [] offer = "rebuild" -> CanRebuild(issue)
    [] offer = "retry"   -> CanRetry(issue)
    [] OTHER -> CanReview(issue) /\ \E choice \in ReviewChoices(issue) : choice.id = offer

(* classifyTrayStatus *)
TrayAttention ==
  {"REVIEW_REQUIRED", "PERMISSION_REQUIRED", "ASSESSMENT_FAILED", "EVIDENCE_FAILED",
   "REPAIR_FAILED", "FINALIZATION_FAILED", "PAUSED"}
TrayProcessing ==
  {"RECEIVED", "ASSESSING", "REPAIRING", "EVIDENCE_CAPTURE", "EVIDENCE_CHECK",
   "FINALIZING", "FINALIZATION_RECOVERY"}

(* The workspace of a new issue could not be prepared: it can only be given up. *)
Unprepared == issue.status = "RECEIVED" /\ binding = "FAILED"

(* The session is gone and its name is taken: the button to rebuild it is  *)
(* the only way forward the window has, and the store refuses it.          *)
Unrebuildable == CanReplaceAgentSession(issue) /\ ~SessionNameFree(issue)

(* Nobody is left with a button that the Runtime refuses or, when it is    *)
(* the human's move, with nothing but giving up: every offer but the       *)
(* cancellation of a running stage ends in a command that takes the issue  *)
(* as it is, an issue that waits for the human has one that leads on (a    *)
(* pause, once it is ready), and the tray calls for attention exactly then. *)
(* The exception is the rebuild of a session by an Agent that would name   *)
(* the new one as the old one: it is offered, alone, and never taken.      *)
OffersAreHonoured ==
  mode = "up" =>
    /\ \A offer \in Offered :
         \/ Taken(offer)
         \/ offer = "cancel" /\ issue.status \in Pauseable
         \/ offer = "rebuild" /\ Unrebuildable
    /\ ~Automatic /\ issue.status \notin Terminal /\ ~Unprepared =>
         \/ \E offer \in Forward : Taken(offer)
         \/ issue.status = "PAUSED" /\ ~issue.pause.ready
         \/ Unrebuildable
    /\ issue.status \in TrayAttention <=>
         ~Automatic /\ issue.status \notin Terminal /\ ~Unprepared
    /\ issue.status \in TrayProcessing <=> Automatic \/ Unprepared
=============================================================================
