---------------------------- MODULE EvidenceHost ----------------------------
(***************************************************************************)
(* captureEvidence of the RuntimeWorker from the intake directory to the   *)
(* stored evidence: a project's own capture, or a file the Agent delivers, *)
(* is imported, and what was made on the way is removed.                   *)
(***************************************************************************)
EXTENDS EvidenceCapture

CONSTANT MaxOperations     \* bound: how many operations begin

ASSUME OperationsAssumption == MaxOperations \in Nat

VARIABLES
    operations, \* how many have begun
    work,       \* where the operation is
    litter      \* history: the intake directories an end or a failure has left

hostVars == <<process, iteration, storeVars, captureVars, faults, operations, work, litter>>

InitHost ==
  /\ process = 0 /\ iteration = 1 /\ faults = 0
  /\ InitStore /\ InitCapture
  /\ work = "idle" /\ operations = 0 /\ litter = {}

HostFrame == UNCHANGED <<process, iteration, operations, litter>>

(* The operation begins, for the same iteration or the next.               *)
Begin ==
  /\ work = "idle" /\ work' = "preparing"
  /\ operations < MaxOperations /\ operations' = operations + 1
  /\ iteration' \in {iteration, iteration + 1} \cap Iterations
  /\ MakeIntake
  /\ aborted' = FALSE
  /\ UNCHANGED <<process, mode, capture, alive, excused, faults, litter>>

Prepared ==
  /\ work = "preparing" /\ work' = "prepared"
  /\ MarkIntake
  /\ HostFrame /\ UNCHANGED <<captureVars, faults>>

(* The directory of an operation that is over is left.                     *)
IntakeStays ==
  /\ work' = "idle"
  /\ litter' = litter \cup {intake}
  /\ StoreLosesProcess /\ UNCHANGED <<names, durable>>
  /\ UNCHANGED <<process, iteration, operations, captureVars>>

PrepareFails == work = "preparing" /\ Fault("disk") /\ IntakeStays

(* captureWithHost *)
Capture ==
  /\ work = "prepared" /\ mode # "agent" /\ work' = "capturing"
  /\ StartCapture
  /\ HostFrame

Captured ==
  /\ work = "capturing" /\ capture.pc = "ended"
  /\ work' = IF Outcome = "artifact" THEN "importing" ELSE "cleaning"
  /\ CaptureOver
  /\ HostFrame /\ UNCHANGED <<aborted, storeVars, faults>>

(* The Agent records something in the directory; its turn ends, and a      *)
(* recorder it has not stopped goes on.                                    *)
AgentRecords ==
  /\ work = "prepared" /\ mode = "agent" /\ work' = "recording"
  /\ \E kind \in Kinds : file' = [NoFile EXCEPT !.kind = kind]
  /\ HostFrame /\ UNCHANGED <<intakes, intake, import, names, durable, probes, kept, captureVars, faults>>

AgentDelivers ==
  /\ work = "recording"
  /\ work' \in (IF aborted THEN {"cleaning"} ELSE {"importing", "cleaning"})
  /\ HostFrame /\ UNCHANGED <<storeVars, captureVars, faults>>

(* importDelivery *)
Import ==
  /\ work = "importing"
  /\ (StoreNext /\ UNCHANGED faults) \/ StoreFails
  /\ HostFrame /\ UNCHANGED <<captureVars, work>>

Imported ==
  /\ work = "importing" /\ import.pc \in {"done", "failed"} /\ work' = "cleaning"
  /\ import' = NoImport
  /\ HostFrame /\ UNCHANGED <<intakes, intake, file, names, durable, probes, kept, captureVars, faults>>

Clean ==
  /\ work = "cleaning" /\ work' = "idle"
  /\ RemoveIntake
  /\ HostFrame /\ UNCHANGED <<captureVars, faults>>

(* cleanup() rejects, and with it the operation.                           *)
CleanFails == work = "cleaning" /\ Fault("disk") /\ IntakeStays

(* The Issue is paused or canceled, or the Runtime stops.                  *)
Abort ==
  /\ work # "idle" /\ ~aborted /\ Fault("abort") /\ aborted' = TRUE
  /\ HostFrame /\ UNCHANGED <<storeVars, mode, capture, alive, excused, work>>

(* The process ends, alone or with the machine.                            *)
Ends ==
  /\ \/ Fault("exit") /\ UNCHANGED <<names, durable>>
     \/ Fault("power") /\ NamesLost
  /\ process' = process + 1 /\ work' = "idle"
  /\ litter' = IF intake = none THEN litter ELSE litter \cup {intake}
  /\ StoreLosesProcess /\ CaptureOver
  /\ UNCHANGED <<iteration, operations, aborted>>

HostNext ==
  \/ Begin \/ Prepared \/ PrepareFails \/ Capture \/ Captured \/ AgentRecords \/ AgentDelivers
  \/ Import \/ Imported \/ Clean \/ CleanFails \/ Abort \/ Ends
  \/ CaptureNext /\ HostFrame /\ UNCHANGED work
=============================================================================
