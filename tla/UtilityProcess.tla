--------------------------- MODULE UtilityProcess ---------------------------
(***************************************************************************)
(* The utility process the Runtime lives in, and the UtilitySupervisor of  *)
(* the Electron main process that starts it, restarts it once, and ends it *)
(* when the application quits.                                             *)
(***************************************************************************)
EXTENDS Naturals, FiniteSets

CONSTANTS
    ProcessRestarts,    \* restartLimit
    Faults,             \* what may go wrong
    MaxFaults           \* bound: how many things go wrong

ASSUME ProcessAssumption ==
  /\ ProcessRestarts \in Nat /\ MaxFaults \in Nat \ {0}
  /\ Faults \subseteq {"exit", "start", "slow", "quit", "request", "intake", "keychain", "retention", "refusal"}

VARIABLES
    process,        \* what each utility process does
    child, launching, shown, restartCount, quitting,    \* the supervisor's fields
    faults          \* how many things have gone wrong

supervisor == <<process, child, launching, shown, restartCount, quitting>>

none == 0
Processes == 1 .. ProcessRestarts + 1

Fault(kind) == kind \in Faults /\ faults < MaxFaults /\ faults' = faults + 1

(* client(): the supervisor gives a client to a window's request. *)
Connected == shown = "ready" /\ child # none
Serving == child # none /\ process[child] = "serving"

InitProcess(spent) ==
  /\ process = [p \in Processes |-> IF p = 1 THEN "starting" ELSE "none"]
  /\ child = 1 /\ launching = 1 /\ shown = "starting" /\ restartCount = 0 /\ quitting = FALSE
  /\ faults = spent

-----------------------------------------------------------------------------
(* launch() waits for one child; what comes of another is not looked at.   *)
LaunchEnds(p, state) ==
  IF launching = p THEN launching' = none /\ shown' = state ELSE UNCHANGED <<launching, shown>>

(* The Runtime has started, and its sources with it. *)
Started(p) ==
  /\ process[p] = "starting"
  /\ process' = [process EXCEPT ![p] = "serving"]
  /\ LaunchEnds(p, IF quitting THEN shown ELSE "ready")
  /\ UNCHANGED <<child, restartCount, quitting, faults>>

(* It has not: the process says so and ends by itself. *)
StartFails(p) ==
  /\ process[p] = "starting" /\ Fault("start")
  /\ process' = [process EXCEPT ![p] = "broken"]
  /\ LaunchEnds(p, "disconnected")
  /\ UNCHANGED <<child, restartCount, quitting>>

StartupTimeout(p) ==
  /\ process[p] = "starting" /\ launching = p /\ Fault("slow")
  /\ LaunchEnds(p, "disconnected")
  /\ UNCHANGED <<process, child, restartCount, quitting>>

(* handleExit; a launch that waited for the process fails after it.        *)
HandleExit(p) ==
  IF quitting \/ restartCount = ProcessRestarts
    THEN /\ process' = [process EXCEPT ![p] = "gone"]
         /\ child' = none /\ launching' = none
         /\ shown' = IF quitting THEN shown ELSE "disconnected"
         /\ UNCHANGED restartCount
    ELSE /\ process' = [process EXCEPT ![p] = "gone", ![p + 1] = "starting"]
         /\ child' = p + 1 /\ launching' = p + 1 /\ restartCount' = restartCount + 1
         /\ shown' = IF launching = p THEN "disconnected" ELSE "restarting"

Exits(p) ==
  /\ \/ process[p] = "broken" /\ UNCHANGED faults
     \/ process[p] \in {"starting", "serving"} /\ Fault("exit")
  /\ HandleExit(p)
  /\ UNCHANGED quitting

(* shutdown(): the Runtime is asked to stop, and killed when it has        *)
(* answered or has not in time.                                            *)
Quit ==
  /\ ~quitting /\ Fault("quit")
  /\ quitting' = TRUE /\ shown' = "stopping"
  /\ UNCHANGED <<process, child, launching, restartCount>>

Killed ==
  /\ quitting /\ shown # "stopped"
  /\ process' = [p \in Processes |-> IF p = child THEN "gone" ELSE process[p]]
  /\ child' = none /\ launching' = none /\ shown' = "stopped"
  /\ UNCHANGED <<restartCount, quitting, faults>>
=============================================================================
