----------------------------- MODULE AgentStage -----------------------------
(***************************************************************************)
(* A stage of the RuntimeWorker as the user comes to see it: the evidence  *)
(* it captures for an Issue, what the Terminal shows of its turns, or what *)
(* the Agent may do and asks to be allowed.  A behaviour follows one of    *)
(* the three.                                                              *)
(***************************************************************************)
EXTENDS EvidenceHost, AgentActivity, StagePermissions

VARIABLE follows        \* which of the three

vars == <<hostVars, activityVars, permissionVars, follows>>

Init ==
  /\ follows \in {"evidence", "activity", "permission"}
  /\ InitHost /\ InitActivity /\ InitPermission
  /\ follows # "evidence" => mode = "agent"
  /\ follows # "permission" => permissionMode = "full-access"

Evidence ==
  follows = "evidence" /\ HostNext /\ UNCHANGED <<activityVars, permissionVars, follows>>

Permission ==
  follows = "permission" /\ PermissionNext /\ UNCHANGED <<hostVars, activityVars, follows>>

Turn ==
  /\ follows = "activity"
  /\ \/ BeginTurn \/ AppendUpdate \/ Settle
     \/ \E kind \in CommandKinds : StartCommand(kind)
     \/ \E id \in 1 .. Len(commands) :
          \/ \E delta \in Deltas : Output(id, delta) \/ Prints(id, delta)
          \/ \E state \in {"completed", "failed"} : EndCommand(id, state)
     \/ \E type \in {"AGENT_TURN_COMPLETED", "AGENT_ERROR"} : EndTurn(type)
  /\ UNCHANGED <<hostVars, permissionVars, follows>>

Stage ==
  /\ follows = "activity"
  /\ PauseIssue \/ EndStage \/ NextStage \/ Interrupted
  /\ UNCHANGED <<hostVars, permissionVars, follows>>

(* Bound: the process ends once. *)
Exits ==
  /\ follows = "activity" /\ faults = 0 /\ Fault("exit") /\ ActivityLosesRuntime
  /\ UNCHANGED <<process, iteration, storeVars, captureVars, operations, work, litter, permissionVars,
                 follows>>

Next == Evidence \/ Turn \/ Stage \/ Permission \/ Exits

Spec == Init /\ [][Next]_vars

-----------------------------------------------------------------------------
(* The types of the state, and how it hangs together: the work on evidence *)
(* is where the import and the capture are, and a name that outlives the   *)
(* machine is a name; and the adapter keeps output only while a turn runs, *)
(* no more of a line than it may, and none of a command that is over.      *)
TypeOK ==
  /\ process \in 0 .. MaxFaults /\ iteration \in Iterations /\ faults \in 0 .. MaxFaults
  /\ intakes \subseteq [id : 1 .. MaxFaults + 1, marked : BOOLEAN]
  /\ intake = none \/ \E d \in intakes : d.id = intake
  /\ file \in Files /\ import.file \in Files
  /\ durable \subseteq names
  /\ probes \subseteq [owner : 0 .. process, marked : BOOLEAN, left : BOOLEAN]
  /\ mode \in {"browser", "electron", "command", "agent"}
  /\ alive \subseteq Group \cup Tree /\ excused \subseteq Group \cup Tree
  /\ work = "capturing" <=> capture.pc # "idle"
  /\ import.pc # "no" => work = "importing"
  /\ working \in BOOLEAN /\ stages \in 1 .. MaxTurns /\ turns \in 0 .. MaxTurns
  /\ run \in {"idle", "running", "ending", "aborted", "lost"}
  /\ run = "idle" => streams = NoStreams
  /\ \A id \in 1 .. MaxCommands :
       /\ Len(streams[id].buffer) <= Unterminated
       /\ streams[id].buffer # <<>> => commands[id].state = "running" /\ ~streams[id].discarding
  /\ permissionMode \in PermissionModes
  /\ {granted, request, attempt.has, attempt.may} \subseteq SUBSET AgentCapability
  /\ row.queued \in AgentStages \cup {nothing} /\ (row.queued # nothing => attempt = Idle0)

(* What an import has returned stays, whatever ends when: the Issue that   *)
(* names it is shown it, for its iteration and as the newest of its bytes. *)
(* A descriptor never stands without its bytes, and nothing is stored that *)
(* a recorder has not finished, though it still writes while it is read.   *)
EvidenceKept ==
  /\ \A k \in kept : Inspection(k.file, k.iteration) = [exists |-> TRUE, structured |-> TRUE]
  /\ \A n \in names : Finished(n.file) /\ (n.what = "descriptor" => Readable(n.file))

(* A capture that ends leaves no process in the worktree, whatever forked, *)
(* ended by itself or was aborted when, but what is excused by name: what  *)
(* the system could not end, or could not list, before the browser was     *)
(* closed or before it was signalled (the capture then fails with that),   *)
(* and helpers of a browser that had ended before they were listed.        *)
(* An operation leaves no intake directory and no probe's, but when it was *)
(* cut off or the removal failed itself; and the directories of a probe    *)
(* that was cut off go before the next one runs, if they can.              *)
CaptureLeavesNothing ==
  /\ capture.pc = "ended" => alive \subseteq excused
  /\ work = "idle" => {d.id : d \in intakes} = litter /\ \A d \in probes : d.owner # process \/ d.left
  /\ import.pc \in {"owned", "probing"} => \A d \in probes : ~Stale(d) \/ d.left

(* Whenever all that was reported has been appended, the Terminal shows    *)
(* the commands of the turn that runs and no other's, in order, each with  *)
(* its state, and line by line the output it has had; when no turn runs,   *)
(* it shows none as running.  Turns that were paused, failed or cut off    *)
(* while they were reported are never mixed into it.                       *)
TerminalFaithful ==
  updates = <<>> /\ run # "lost" =>
    IF working /\ run = "running"
      THEN /\ Len(Terminal) = Len(Shown)
           /\ \A k \in 1 .. Len(Shown) :
                Terminal[k].status = Shown[k].state /\ ShowsOutput(Terminal[k].output, Shown[k])
      ELSE \A k \in 1 .. Len(Terminal) : Terminal[k].status # "running"

(* What the prompt of a turn promises the Agent, its sandbox lets it do,   *)
(* and no more than what a human granted this Issue, the stage has anyway  *)
(* or the project allows; unrestricted host execution includes the         *)
(* network.  A human is asked only where the project wants that, always    *)
(* for something the stage lacks, and once for each capability at most; a  *)
(* turn that is told of a grant has it; and no stage takes a third turn.   *)
PermittedOnly ==
  /\ attempt.pc = "turn" =>
       /\ attempt.turns <= 2
       /\ attempt.has \subseteq attempt.may
       /\ "HOST_EXECUTION" \in attempt.may =>
            "HOST_EXECUTION" \in granted \/ attempt.mode = "full-access"
       /\ "NETWORK_ACCESS" \in attempt.may =>
            attempt.stage = "REPAIR" \/ granted # {} \/ attempt.mode = "full-access"
       /\ attempt.told = "CAPABILITY_GRANTED" => row.event.capabilities \subseteq attempt.has
  /\ attempt.pc = "asking" <=> request # {}
  /\ request # {} => attempt.mode = "request-approval" /\ request \cap attempt.has = {}
  /\ asked <= Cardinality(granted) + Cardinality({s \in {attempt.pc} : s = "asking"})
=============================================================================
