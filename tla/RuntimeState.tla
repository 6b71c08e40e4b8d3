---------------------------- MODULE RuntimeState ----------------------------
(***************************************************************************)
(* The state the Runtime's parts share: one Issue's durable row (storage), *)
(* its workspace binding, the operation the worker runs for it             *)
(* (IssueOperationCoordinator, AgentAdapter turn), a pauseIssue call in    *)
(* progress and the Runtime's own phase.                                   *)
(*                                                                         *)
(* A step of the model is what the Runtime's one JavaScript thread does    *)
(* between two awaits that give control away; a database transaction is    *)
(* synchronous, so it is part of one step.                                 *)
(***************************************************************************)
EXTENDS IssueWorkflow

CONSTANTS
    HostCapture,    \* does the project configure commands.evidenceCapture?
    FreshSessions,  \* does the Agent give a session a new name each time?  Codex does not
    Faults,         \* which unusual events the environment may produce
    MaxRevision     \* bound: users and the environment act below this revision only

ASSUME HostCaptureAssumption == HostCapture \in BOOLEAN
ASSUME FreshSessionsAssumption == FreshSessions \in BOOLEAN
ASSUME FaultsAssumption ==
  Faults \subseteq {"crash", "shutdown", "input", "intake", "cleanup", "cancel", "provider"}
ASSUME MaxRevisionAssumption == MaxRevision \in Nat

VARIABLES
    issue,      \* issues.data_json
    pending,    \* issues.pending_operation
    reviewed,   \* revision of the last REVIEW_SUBMITTED event that queued a REPAIR
    binding,    \* workspace_bindings.status
    mode,       \* phase of the Runtime
    op,         \* the Issue's active operation
    pauser,     \* a pauseIssue call that has not returned
    asleep,     \* the pump ended after the operation rejected; nobody has woken it since
    accepted,   \* history: the Repair iteration a human accepted last
    published   \* history: the Repair iteration published last

durable == <<issue, pending, reviewed, binding>>
history == <<accepted, published>>
vars == <<durable, mode, op, pauser, asleep, history>>

-----------------------------------------------------------------------------
Bindings == {None, "PREPARING", "READY", "FAILED", "RELEASED"}

(* "recovered" lies between reconcileWorkspaceIssues and                   *)
(* reconcileInterruptedIssues; "draining" follows the cancellation pass of *)
(* stop().                                                                 *)
Modes == {"down", "recovered", "up", "stopping", "draining"}

(* Where an operation awaits.  "correcting" is the Agent's second and last *)
(* turn of a stage; "unwinding" is a finally block with an exception under *)
(* way.                                                                    *)
Turning == {"turn", "correcting"}
Phases == {"idle", "acquiring", "creating", "observing", "intake", "capturing",
           "validating", "importing", "inspecting", "binding", "publishing",
           "releasing", "cleanup", "unwinding"} \cup Turning

Interruptions == {"USER_PAUSED", "USER_CANCELED", "RUNTIME_STOPPING"}

(* What an Agent turn returned, until the workspace has validated it.      *)
(* "failed" is the unsafeRecoveryResult built outside the turn's try block.*)
Results == {"business", "evidence", "noEvidence", "resolved", "unsafe", "failed"}

NoOp == [pc |-> "idle", kind |-> None, snap |-> NewIssue, result |-> None,
         aborted |-> FALSE, interrupt |-> None]

Op == [pc        : Phases,
       kind      : Operations \cup {None},
       snap      : Issue,                \* the issue the operation claimed
       result    : Results \cup {None},
       aborted   : BOOLEAN,              \* IssueOperationCoordinator's signal
       interrupt : Interruptions \cup {None}]  \* reason of the turn's own signal

(* "canceling" awaits AgentAdapter.cancel, "waiting" the operation itself, *)
(* "background" the same after pauseIssue has returned.                    *)
NoPauser == [pc |-> "idle", awaits |-> FALSE, at |-> 0]
Pauser == [pc     : {"idle", "canceling", "waiting", "background"},
           awaits : BOOLEAN,     \* an operation was active when the issue was paused
           at     : Nat]         \* pauseContext.pausedAt

TypeOK ==
  /\ issue \in Issue
  /\ pending \in Operations \cup {None}
  /\ reviewed \in Nat
  /\ binding \in Bindings
  /\ mode \in Modes
  /\ op \in Op
  /\ pauser \in Pauser
  /\ asleep \in BOOLEAN
  /\ accepted \in Nat
  /\ published \in Nat

-----------------------------------------------------------------------------
Active == op.pc # "idle"

(* pauseIssue has not returned: resumeIssue answers ISSUE_PAUSE_IN_PROGRESS. *)
Pausing == pauser.pc \in {"canceling", "waiting"}

(* updateIssue: the write of a transaction that has read the current row.  *)
Store(next, operation) == issue' = next /\ pending' = operation

(* complete: the result of an operation counts only while the issue is     *)
(* still the one it was computed from.                                     *)
Current(previous) == issue.revision = previous.revision

(* Mutant: the result counts whatever has happened since. *)
CompleteAnyway(previous, next, operation) == Store(next, operation)

Complete(previous, next, operation) ==
  IF Current(previous) THEN Store(next, operation) ELSE UNCHANGED <<issue, pending>>

(* A signal keeps the reason it was aborted with first.                    *)
Interrupted(o, reason) ==
  IF o.pc \in Turning /\ o.interrupt = None THEN [o EXCEPT !.interrupt = reason] ELSE o
=============================================================================
