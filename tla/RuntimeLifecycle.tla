-------------------------- MODULE RuntimeLifecycle --------------------------
(***************************************************************************)
(* OhMyBugRuntime.start and stop, the reconciliation of interrupted Issues *)
(* and the end of the process.  stop() whose drain rejects leaves the store *)
(* open; the process ends either way, so both are Stopped here.            *)
(***************************************************************************)
EXTENDS RuntimeState

LegacyEvidenceFailureCodes == {"EVIDENCE_INTAKE_FAILED", "EVIDENCE_RETRY_LIMIT_REACHED"}

(* migrateLegacyFailure: evidence failures once were Repair failures.      *)
LegacyFailure(i) ==
  /\ i.status = "REPAIR_FAILED"
  /\ i.failure.stage = "REPAIR"
  /\ i.failure.code \in LegacyEvidenceFailureCodes
  /\ i.delivery > 0

(* A missing draft is given the delivery's summary: it describes what that *)
(* iteration implemented, although its label is the current iteration.     *)
MigratedFailure(i) ==
  [i EXCEPT !.status = "EVIDENCE_FAILED",
            !.draft = IF i.draft = 0 THEN i.delivery ELSE i.draft,
            !.failure.stage = "EVIDENCE",
            !.revision = @ + 1]

(* Mutant: an interrupted evidence check is not taken up again. *)
InterruptedOperationUnchecked(i) ==
  CASE i.status = "FINALIZATION_RECOVERY" /\ i.recovery = "STARTED" -> "RECOVER_FINALIZATION"
    [] i.status = "ASSESSING"                         -> "ASSESS"
    [] i.status = "REPAIRING"                         -> "REPAIR"
    [] i.status = "EVIDENCE_CAPTURE" /\ i.draft > 0   -> "CAPTURE_EVIDENCE"
    [] OTHER                                          -> None

(* interruptedOperation *)
InterruptedOperation(i) ==
  CASE i.status = "FINALIZATION_RECOVERY" /\ i.recovery = "STARTED" -> "RECOVER_FINALIZATION"
    [] i.status = "ASSESSING"                         -> "ASSESS"
    [] i.status = "REPAIRING"                         -> "REPAIR"
    [] i.status = "EVIDENCE_CAPTURE" /\ i.draft > 0   -> "CAPTURE_EVIDENCE"
    [] i.status = "EVIDENCE_CHECK" /\ i.delivery > 0  -> "EVIDENCE"
    [] OTHER                                          -> None

(* A Repair a human has just ordered is queued again as it was; any other  *)
(* interrupted operation is queued with a RUNTIME_INTERRUPTED event.       *)
Reconciled ==
  IF LegacyFailure(issue) THEN Store(MigratedFailure(issue), None)
  ELSE IF pending # None THEN UNCHANGED <<issue, pending>>
  ELSE IF issue.status = "REPAIRING" /\ reviewed = issue.revision THEN Store(issue, "REPAIR")
  ELSE IF InterruptedOperation(issue) # None
    THEN Store([issue EXCEPT !.revision = @ + 1], InterruptedOperation(issue))
  ELSE UNCHANGED <<issue, pending>>

(* The end of start(): the Runtime is ready and the pump is kicked.        *)
ReconcileInterrupted ==
  /\ mode = "recovered"
  /\ mode' = "up"
  /\ Reconciled
  /\ UNCHANGED <<reviewed, binding, op, pauser, asleep, history>>

(* stop() refuses commands and starts nothing; the integrations stop first. *)
Stop ==
  /\ "shutdown" \in Faults
  /\ mode = "up" /\ issue.revision < MaxRevision
  /\ mode' = "stopping"
  /\ UNCHANGED <<durable, op, pauser, asleep, history>>

(* One pass over the sessions: a turn that starts later is not aborted.    *)
CancelAgents ==
  /\ mode = "stopping"
  /\ mode' = "draining"
  /\ op' = IF issue.session THEN Interrupted(op, "RUNTIME_STOPPING") ELSE op
  /\ UNCHANGED <<durable, pauser, asleep, history>>

ProcessEnds == op' = NoOp /\ pauser' = NoPauser /\ asleep' = FALSE /\ mode' = "down"

(* Mutant: the drain waits for everything that is queued, too. *)
StoppedWhenEmpty ==
  /\ mode = "draining"
  /\ ~Active /\ pending = None
  /\ pauser = NoPauser
  /\ ProcessEnds
  /\ UNCHANGED <<durable, history>>

(* A pauseIssue that awaits the operation returns in the same turn of the  *)
(* event loop the operation ends in, before the drain does.                *)
Stopped ==
  /\ mode = "draining"
  /\ ~Active
  /\ pauser = NoPauser
  /\ ProcessEnds
  /\ UNCHANGED <<durable, history>>

(* The process dies; what a transaction has written remains.               *)
Crash ==
  /\ "crash" \in Faults
  /\ mode # "down" /\ issue.revision < MaxRevision
  /\ ProcessEnds
  /\ UNCHANGED <<durable, history>>

LifecycleNext == ReconcileInterrupted \/ Stop \/ CancelAgents \/ Stopped \/ Crash
=============================================================================
