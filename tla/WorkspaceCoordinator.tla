------------------------ MODULE WorkspaceCoordinator ------------------------
(***************************************************************************)
(* WorkspaceCoordinator: acquiring an Issue's workspace, publishing an     *)
(* accepted Delivery and releasing the workspace, judging what a legacy    *)
(* finalization recovery left behind, and restoring workspaces at startup. *)
(* The provider (local or Git) answers every call with success or failure. *)
(***************************************************************************)
EXTENDS RuntimeWorker

-----------------------------------------------------------------------------
(* prepare.  The operation stays pending until the provider has answered.  *)

Prepare ==
  /\ Dispatched("PREPARE")
  /\ Started("acquiring", "PREPARE", issue)
  /\ binding' = "PREPARING"
  /\ UNCHANGED <<issue, pending, asleep>> /\ OperationFrame

(* completeAcquire; the CONCURRENT_UPDATE it throws ends the operation.    *)
WorkspaceAcquired ==
  /\ At("acquiring", {"PREPARE"})
  /\ IF Current(op.snap)
       THEN /\ Store([op.snap EXCEPT !.path = TRUE, !.revision = @ + 1], "ASSESS")
            /\ binding' = "READY"
       ELSE UNCHANGED <<issue, pending, binding>>
  /\ Settle
  /\ OperationFrame

WorkspaceNotAcquired ==
  /\ At("acquiring", {"PREPARE"})
  /\ IF Current(op.snap)
       THEN Store(issue, None) /\ binding' = "FAILED"
       ELSE UNCHANGED <<issue, pending, binding>>
  /\ Settle
  /\ OperationFrame

-----------------------------------------------------------------------------
(* finalize.  FINALIZE, too, stays pending while it runs.                  *)

Finalize ==
  /\ Dispatched("FINALIZE")
  /\ IF issue.status = "FINALIZING"
       THEN Started("publishing", "FINALIZE", issue)
       ELSE op' = op
  /\ UNCHANGED <<issue, pending, binding, asleep>> /\ OperationFrame

BaseStale ==
  /\ At("publishing", {"FINALIZE"})
  /\ binding = "READY"
  /\ Complete(op.snap, RecordBaseIntegrationStale(op.snap), "REPAIR")
  /\ Settle
  /\ UNCHANGED binding /\ OperationFrame

Published ==
  /\ At("publishing", {"FINALIZE"})
  /\ binding = "READY"
  /\ published' = op.snap.iteration
  /\ Goto("releasing")
  /\ UNCHANGED <<issue, pending, reviewed, binding, mode, pauser, asleep, accepted>>

(* persistPublicationFailure *)
PublicationFailed(i) ==
  [Failed(i, "FINALIZATION_ERRORED", "FINALIZATION_RECOVERY", "PUBLISH_FAILED")
     EXCEPT !.recovery = None]

NotPublished ==
  /\ op.pc \in {"publishing", "releasing"}
  /\ Complete(op.snap, PublicationFailed(op.snap), None)
  /\ Settle
  /\ UNCHANGED binding /\ OperationFrame

(* completeRelease *)
Released ==
  /\ At("releasing", {"FINALIZE"})
  /\ Complete(op.snap, CompleteDelivery(op.snap), None)
  /\ binding' = IF Current(op.snap) THEN "RELEASED" ELSE binding
  /\ Settle
  /\ OperationFrame

-----------------------------------------------------------------------------
(* validateFinalizationRecovery, after its first check.  Its final update  *)
(* throws when the issue has changed: inside the turn's try block that is  *)
(* caught, and judged again as not current; outside it the operation fails.*)
Judged(next, operation) ==
  /\ Complete(op.snap, next, operation)
  /\ IF Current(op.snap) \/ op.result # "failed" THEN Settle ELSE Reject
  /\ UNCHANGED binding /\ OperationFrame

RecoveryUnchanged ==
  /\ At("validating", {"RECOVER_FINALIZATION"})
  /\ binding = "READY" /\ op.result = "resolved"
  /\ Judged(RecordRecoveryUnchanged(op.snap), "FINALIZE")

RecoveryUnsafe ==
  /\ At("validating", {"RECOVER_FINALIZATION"})
  /\ Judged(RecordRecoveryUnsafe(op.snap), None)

RecoveryChanged ==
  /\ At("validating", {"RECOVER_FINALIZATION"})
  /\ binding = "READY"
  /\ Goto("binding")
  /\ UNCHANGED <<issue, pending, binding, asleep>> /\ OperationFrame

RecoveryDeliveryBound ==
  /\ At("binding", {"RECOVER_FINALIZATION"})
  /\ Judged(RecordRecoveryChanged(op.snap), "CAPTURE_EVIDENCE")

RecoveryDeliveryNotBound ==
  /\ At("binding", {"RECOVER_FINALIZATION"})
  /\ Judged(RecordRecoveryUnsafe(op.snap), None)

-----------------------------------------------------------------------------
(* recover *)

RecoveryOperation(i) ==
  CASE i.status = "FINALIZATION_RECOVERY" -> "RECOVER_FINALIZATION"
    [] i.status = "FINALIZING"            -> "FINALIZE"
    [] i.status \notin {"FINALIZATION_RECOVERY", "FINALIZING"}
       /\ pending \in {"ASSESS", "REPAIR"} -> pending
    [] OTHER -> IF i.status = "RECEIVED" THEN "ASSESS" ELSE None

(* restoreBinding and recoverLegacyLocal: a workspace found again stays    *)
(* where it was; one the issue has no path of yet gets one.                *)
RestoredBinding ==
  LET restored == IF issue.path THEN issue
                  ELSE [issue EXCEPT !.path = TRUE, !.revision = @ + 1]
  IN  Store(restored, RecoveryOperation(restored)) /\ binding' = "READY"

(* failRecovery *)
FailedRecovery == Store(issue, None) /\ UNCHANGED binding

NeverPrepared ==
  binding = None /\ issue.status = "RECEIVED" /\ ~issue.path /\ pending # "ASSESS"

RecoverWorkspaces ==
  /\ mode = "down"
  /\ mode' = "recovered"
  /\ IF issue.status \in Terminal THEN UNCHANGED <<issue, pending, binding>>
     ELSE IF NeverPrepared THEN Store(issue, "PREPARE") /\ UNCHANGED binding
     ELSE \/ "provider" \in Faults /\ FailedRecovery
          \/ IF binding = "READY" /\ issue.path
               THEN Store(issue, RecoveryOperation(issue)) /\ UNCHANGED binding
               ELSE RestoredBinding
  /\ UNCHANGED <<reviewed, op, pauser, asleep, history>>

WorkspaceNext ==
  \/ Prepare \/ WorkspaceAcquired \/ WorkspaceNotAcquired
  \/ Finalize \/ BaseStale \/ Published \/ NotPublished \/ Released
  \/ RecoveryUnchanged \/ RecoveryUnsafe \/ RecoveryChanged
  \/ RecoveryDeliveryBound \/ RecoveryDeliveryNotBound
=============================================================================
