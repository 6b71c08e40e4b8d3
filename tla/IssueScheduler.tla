--------------------------- MODULE IssueScheduler ---------------------------
(***************************************************************************)
(* The pump of RuntimeWorker over several Issues: kick, runUntilIdle,      *)
(* waitForProgress, finishPump, drain and beginShutdown, with              *)
(* IssueOperationCoordinator.run inside.  What an operation does is left   *)
(* out: it settles, well or with an unexpected error, and may leave its    *)
(* Issue with another operation pending.                                   *)
(***************************************************************************)
EXTENDS Naturals, FiniteSets

CONSTANTS
    Issues,                 \* numbers, in the order listPendingOperations returns
    MaxConcurrentIssues,
    Failing,                \* the Issues whose operations may reject
    Stoppable,              \* may beginShutdown be called?
    MaxOperations           \* bound: how many operations an Issue gets

ASSUME SchedulerAssumption ==
  /\ Issues \subseteq Nat /\ IsFiniteSet(Issues)
  /\ MaxConcurrentIssues \in Nat \ {0}
  /\ Failing \subseteq Issues
  /\ Stoppable \in BOOLEAN
  /\ MaxOperations \in Nat

VARIABLES
    pending,        \* issues with a pending operation
    active,         \* runUntilIdle's map: "running", or settled and not consumed
    failedInPump,
    pump,           \* where the pump is
    woken,          \* the promise waitForProgress races with has been resolved
    wakeRequested,
    accepting,
    drainer,        \* a drain() call
    started,        \* how many operations each issue got
    kicked          \* history: issues queued with a kick and not started since

vars == <<pending, active, failedInPump, pump, woken, wakeRequested, accepting,
          drainer, started, kicked>>

(* A drain() that awaits the pump; "failing" once a pump has rejected.     *)
Awaiting == {"awaiting", "failing"}

(* "starting" is the microtask kick has queued, "waiting" the race, and    *)
(* "ending" lies between the end of the loop and finishPump.               *)
TypeOK ==
  /\ pending \subseteq Issues /\ failedInPump \subseteq Issues /\ kicked \subseteq Issues
  /\ active \in [Issues -> {"no", "running", "ok", "failed"}]
  /\ pump \in {"none", "starting", "waiting", "ending"}
  /\ woken \in BOOLEAN /\ wakeRequested \in BOOLEAN /\ accepting \in BOOLEAN
  /\ drainer \in {"none", "resolved", "rejected"} \cup Awaiting
  /\ started \in [Issues -> Nat]

Init ==
  /\ pending = {} /\ failedInPump = {} /\ kicked = {}
  /\ active = [i \in Issues |-> "no"]
  /\ pump = "none"
  /\ woken = FALSE /\ wakeRequested = FALSE /\ accepting = TRUE
  /\ drainer = "none"
  /\ started = [i \in Issues |-> 0]

-----------------------------------------------------------------------------
InMap == {i \in Issues : active[i] # "no"}

(* Mutant: a kick leaves the waiting pump alone. *)
KickUnheard ==
  IF accepting
    THEN /\ wakeRequested' = TRUE
         /\ pump' = IF pump = "none" THEN "starting" ELSE pump
         /\ woken' = woken
    ELSE UNCHANGED <<wakeRequested, pump, woken>>

Kick ==
  IF accepting
    THEN /\ wakeRequested' = TRUE
         /\ pump' = IF pump = "none" THEN "starting" ELSE pump
         /\ woken' = (woken \/ pump = "waiting")
    ELSE UNCHANGED <<wakeRequested, pump, woken>>

(* A command queues an operation and wakes the worker.  The operation the  *)
(* issue still runs may have written its last result already.              *)
Enqueue(i) ==
  /\ accepting
  /\ i \notin pending /\ started[i] < MaxOperations
  /\ pending' = pending \cup {i}
  /\ kicked' = kicked \cup {i}
  /\ Kick
  /\ UNCHANGED <<active, failedInPump, accepting, drainer, started>>

(* Operations are started in store order until the slots are taken.        *)
Eligible(failed, map) == {i \in pending : i \notin failed /\ i \notin map}

FirstOf(eligible, slots) ==
  {i \in eligible : Cardinality({j \in eligible : j < i}) < slots}

Selected(failed, map) ==
  IF accepting
    THEN FirstOf(Eligible(failed, map), MaxConcurrentIssues - Cardinality(map))
    ELSE {}

(* Mutant: the loop waits even when nothing is left in the map. *)
RoundUnended(failed, current) ==
  LET map      == {i \in Issues : current[i] # "no"}
      selected == Selected(failed, map)
  IN  /\ active' = [i \in Issues |-> IF i \in selected THEN "running" ELSE current[i]]
      /\ pending' = pending \ selected
      /\ kicked' = kicked \ selected
      /\ started' = [i \in Issues |-> IF i \in selected THEN started[i] + 1 ELSE started[i]]
      /\ wakeRequested' = IF accepting THEN FALSE ELSE wakeRequested
      /\ failedInPump' = failed
      /\ pump' = "waiting"
      /\ woken' = FALSE

(* One round of the loop of runUntilIdle, the map being given.             *)
Round(failed, current) ==
  LET map      == {i \in Issues : current[i] # "no"}
      selected == Selected(failed, map)
  IN  /\ active' = [i \in Issues |-> IF i \in selected THEN "running" ELSE current[i]]
      /\ pending' = pending \ selected
      /\ kicked' = kicked \ selected
      /\ started' = [i \in Issues |-> IF i \in selected THEN started[i] + 1 ELSE started[i]]
      /\ wakeRequested' = IF accepting THEN FALSE ELSE wakeRequested
      /\ failedInPump' = failed
      /\ pump' = IF map \cup selected = {} THEN "ending" ELSE "waiting"
      /\ woken' = FALSE

PumpStarts ==
  /\ pump = "starting"
  /\ Round({}, active)
  /\ UNCHANGED <<accepting, drainer>>

Woken ==
  /\ pump = "waiting" /\ woken
  /\ Round(failedInPump, active)
  /\ UNCHANGED <<accepting, drainer>>

(* Mutant: a settled operation is marked, not removed from the map. *)
SettledKept(i) ==
  /\ pump = "waiting"
  /\ active[i] \in {"ok", "failed"}
  /\ Round(IF active[i] = "failed" THEN failedInPump \cup {i} ELSE failedInPump,
           [active EXCEPT ![i] = "consumed"])
  /\ UNCHANGED <<accepting, drainer>>

Settled(i) ==
  /\ pump = "waiting"
  /\ active[i] \in {"ok", "failed"}
  /\ Round(IF active[i] = "failed" THEN failedInPump \cup {i} ELSE failedInPump,
           [active EXCEPT ![i] = "no"])
  /\ UNCHANGED <<accepting, drainer>>

(* Mutant: a kick that came after the last round is forgotten. *)
FinishPumpDeaf ==
  /\ pump = "ending"
  /\ pump' = "none"
  /\ wakeRequested' = (accepting /\ wakeRequested)
  /\ drainer' = IF drainer = "awaiting" /\ failedInPump # {} THEN "failing" ELSE drainer
  /\ UNCHANGED <<pending, active, failedInPump, woken, accepting, started, kicked>>

(* The pump rejects with its first failure; a drain that awaits it goes on *)
(* with the next pump, if there is one.                                    *)
FinishPump ==
  /\ pump = "ending"
  /\ pump' = IF accepting /\ wakeRequested THEN "starting" ELSE "none"
  /\ wakeRequested' = (accepting /\ wakeRequested)
  /\ drainer' = IF drainer = "awaiting" /\ failedInPump # {} THEN "failing" ELSE drainer
  /\ UNCHANGED <<pending, active, failedInPump, woken, accepting, started, kicked>>

-----------------------------------------------------------------------------
(* An operation settles; it may have left its issue's next one pending.    *)
OperationEnds(i) ==
  /\ active[i] = "running"
  /\ \/ active' = [active EXCEPT ![i] = "ok"]
     \/ i \in Failing /\ active' = [active EXCEPT ![i] = "failed"]
  /\ \/ pending' = pending
     \/ started[i] < MaxOperations /\ pending' = pending \cup {i}
  /\ UNCHANGED <<failedInPump, pump, woken, wakeRequested, accepting, drainer, started, kicked>>

BeginShutdown ==
  /\ Stoppable
  /\ accepting' = FALSE
  /\ UNCHANGED <<pending, active, failedInPump, pump, woken, wakeRequested, drainer,
                 started, kicked>>

Drain ==
  /\ drainer = "none"
  /\ drainer' = "awaiting"
  /\ Kick
  /\ UNCHANGED <<pending, active, failedInPump, accepting, started, kicked>>

(* Mutant: drain awaits one pump only. *)
DrainReturnsOnce ==
  /\ drainer \in Awaiting /\ pump \in {"none", "starting"}
  /\ drainer' = IF drainer = "failing" THEN "rejected" ELSE "resolved"
  /\ UNCHANGED <<pending, active, failedInPump, pump, woken, wakeRequested, accepting,
                 started, kicked>>

(* drain looks at this.running after every pump it has awaited.            *)
DrainReturns ==
  /\ drainer \in Awaiting /\ pump = "none"
  /\ drainer' = IF drainer = "failing" THEN "rejected" ELSE "resolved"
  /\ UNCHANGED <<pending, active, failedInPump, pump, woken, wakeRequested, accepting,
                 started, kicked>>

PumpNext == PumpStarts \/ Woken \/ FinishPump \/ \E i \in Issues : Settled(i)

Next ==
  \/ PumpNext
  \/ \E i \in Issues : Enqueue(i) \/ OperationEnds(i)
  \/ BeginShutdown \/ Drain \/ DrainReturns

(* Operations settle and the event loop runs the pump's microtasks.        *)
Fairness ==
  /\ WF_vars(PumpNext)
  /\ \A i \in Issues : WF_vars(OperationEnds(i))
  /\ WF_vars(DrainReturns)

Spec == Init /\ [][Next]_vars
FairSpec == Spec /\ Fairness

-----------------------------------------------------------------------------
(* Never more operations than slots, and no slot is left free at a wait    *)
(* while an issue that could be started is pending: whatever queues an     *)
(* operation also brings the pump round again.                             *)
WorkConserving ==
  /\ Cardinality(InMap) <= MaxConcurrentIssues
  /\ pump = "waiting" /\ accepting /\ ~woken
       /\ {i \in Issues : active[i] \in {"ok", "failed"}} = {} =>
       \/ Cardinality(InMap) = MaxConcurrentIssues
       \/ pending \subseteq failedInPump \cup InMap

DrainReturned == drainer \in Awaiting /\ drainer' \notin Awaiting

(* drain returns, well or with an error, only at quiescence: nothing the   *)
(* pump started is still running, and in a worker that still accepts       *)
(* nothing is left pending that had not failed in the pump.                *)
DrainIsQuiescent ==
  [][ DrainReturned => InMap = {} /\ (accepting => pending \subseteq failedInPump) ]_vars

(* An Issue whose own operations never reject is served, whatever the      *)
(* other Issues' operations do and whenever its operation was queued.      *)
UnrelatedServed ==
  \A i \in Issues \ Failing : i \in pending ~> i \notin pending \/ ~accepting

(* A drain returns.                                                        *)
DrainEnds == drainer \in Awaiting ~> drainer \notin Awaiting

(* An Issue queued with a kick is started: the running pump sees newly     *)
(* queued work when it fills a slot, a later kick makes a fresh one.       *)
KickIsHeard == \A i \in Issues : i \in kicked ~> i \notin kicked \/ ~accepting
=============================================================================
