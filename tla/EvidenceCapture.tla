--------------------------- MODULE EvidenceCapture ---------------------------
(***************************************************************************)
(* PlaywrightEvidenceCaptureProvider: one capture, the processes it starts *)
(* and how it ends them.  The start command, or the capture command, and   *)
(* its children are a process group; the browser (or Electron) and its     *)
(* helpers are a tree that is listed by parent.                            *)
(***************************************************************************)
EXTENDS EvidenceStore

VARIABLES
    mode,       \* capture.mode, or "agent" for a project without one
    capture,    \* the capture under way
    aborted,    \* the operation's signal
    alive,      \* the processes of captures that run
    excused     \* history: those that may: see CaptureLeavesNothing

captureVars == <<mode, capture, aborted, alive, excused>>

Group == {"command", "child"}
Tree == {"browser", "helper"}

Idle == [pc |-> "idle", error |-> "no", cleanup |-> "no", tracked |-> {}]

InitCapture ==
  /\ mode \in {"browser", "electron", "command", "agent"}
  /\ capture = Idle /\ aborted = FALSE /\ alive = {} /\ excused = {}

CaptureFrame == UNCHANGED <<mode, storeVars>>
Goes(pc) == capture' = [capture EXCEPT !.pc = pc]
FailsWith(error, pc) == capture' = [capture EXCEPT !.error = error, !.pc = pc]

(* Where a capture goes on when its work has ended: what it has launched,  *)
(* whether it still runs or not, is closed, and its command is stopped.    *)
CleanupOf == IF capture.pc = "shooting" THEN "listing" ELSE "stopping"

-----------------------------------------------------------------------------
(* capture: the command is spawned as a group, Electron is launched.       *)
StartCapture ==
  /\ IF aborted THEN capture' = [Idle EXCEPT !.pc = "ended", !.error = "reason"] /\ UNCHANGED alive
     ELSE /\ capture' = [Idle EXCEPT !.pc = CASE mode = "browser" -> "waiting"
                                              [] mode = "electron" -> "launching"
                                              [] mode = "command" -> "running"]
          /\ alive' = IF mode = "electron" THEN alive ELSE alive \cup {"command"}
  /\ UNCHANGED <<mode, aborted, excused, storeVars, faults>>

(* waitForReady: the page answers, or does not in time.                    *)
Ready ==
  /\ capture.pc = "waiting" /\ ~aborted
  /\ Goes("launching")
  /\ CaptureFrame /\ UNCHANGED <<aborted, alive, excused, faults>>

(* A launch cannot be aborted: the signal is looked at after it.           *)
Launched ==
  /\ capture.pc = "launching"
  /\ alive' = alive \cup {"browser"}
  /\ IF aborted THEN FailsWith("reason", "listing") ELSE Goes("shooting")
  /\ CaptureFrame /\ UNCHANGED <<aborted, excused, faults>>

(* The screenshot, or the file the capture command writes.                 *)
Shoots ==
  /\ capture.pc \in {"shooting", "running"} \/ (mode = "agent" /\ intake # none)
  /\ Writes
  /\ UNCHANGED <<captureVars, faults>>

(* The host writes the screenshot: the browser may have ended by then.     *)
Shot ==
  /\ capture.pc = "shooting" /\ ~aborted /\ Whole(file)
  /\ Goes("listing")
  /\ CaptureFrame /\ UNCHANGED <<aborted, alive, excused, faults>>

(* The capture command exits, having written the file or not; its children *)
(* may go on.                                                              *)
CommandExits ==
  /\ capture.pc = "running" /\ "command" \in alive
  /\ alive' = alive \ {"command"}
  /\ \E code \in {"no", IF aborted THEN "reason" ELSE "failed"} : FailsWith(code, "stopping")
  /\ CaptureFrame /\ UNCHANGED <<aborted, excused, faults>>

(* The target cannot be reached, launched or shot in time, or at all: it   *)
(* cannot when the browser has ended.                                      *)
TargetFails ==
  /\ \/ capture.pc \in {"waiting", "launching", "shooting", "running"} /\ Fault("target")
     \/ capture.pc = "shooting" /\ "browser" \notin alive /\ UNCHANGED faults
  /\ FailsWith(IF aborted THEN "reason" ELSE "failed", CleanupOf)
  /\ CaptureFrame /\ UNCHANGED <<aborted, alive, excused>>

(* abortable and throwIfAborted: what is awaited is not awaited longer.    *)
CaptureAborted ==
  /\ capture.pc \in {"waiting", "shooting", "running"} /\ aborted
  /\ FailsWith("reason", CleanupOf)
  /\ CaptureFrame /\ UNCHANGED <<aborted, alive, excused, faults>>

(* Processes have ended; a helper of a browser that has, and that was not  *)
(* listed before, has no parent to be found by any more.                   *)
Ended(gone) ==
  /\ alive' = alive \ gone
  /\ excused' = IF "browser" \in gone THEN excused \cup ((alive \cap Tree) \ (gone \cup capture.tracked))
                                      ELSE excused

(* The processes fork.  A new process is none of those that were listed.   *)
Forks ==
  /\ capture.pc \notin {"idle", "ended"}
  /\ \E p \in {"child", "helper"} :
       /\ p \notin alive /\ (IF p \in Group THEN "command" ELSE "browser") \in alive
       /\ alive' = alive \cup {p}
       /\ capture' = [capture EXCEPT !.tracked = @ \ {p}]
  /\ UNCHANGED <<mode, aborted, excused, storeVars, faults>>

(* A process ends by itself, at any time (CommandExits is what the capture *)
(* hears of its command's end).                                            *)
ProcessExits ==
  /\ capture.pc \notin {"idle", "ended"}
  /\ \E p \in alive : (capture.pc = "running" => p # "command") /\ Ended({p})
  /\ CaptureFrame /\ UNCHANGED <<capture, aborted, faults>>

-----------------------------------------------------------------------------
(* listDescendantPids: who descends from the browser at this moment.       *)
Descendants == IF "browser" \in alive THEN alive \cap Tree ELSE {}

(* closeManagedProcess lists what is to be closed first.                   *)
ListTree ==
  /\ capture.pc = "listing"
  /\ capture' = [capture EXCEPT !.tracked = {"browser"} \cup Descendants, !.pc = "closing"]
  /\ CaptureFrame /\ UNCHANGED <<aborted, alive, excused, faults>>

(* ps fails, before anything is closed or, when what was listed is to be   *)
(* signalled and is listed once more, before any signal is sent: the tree  *)
(* is left as it is.                                                       *)
ListFails ==
  /\ capture.pc \in {"listing", "forcing"} /\ Fault("listing")
  /\ capture' = [capture EXCEPT !.cleanup = "failed", !.pc = "stopping"]
  /\ excused' = excused \cup Tree
  /\ CaptureFrame /\ UNCHANGED <<aborted, alive>>

(* close() is answered, or not within two seconds; then some of those that *)
(* were listed may still be there.                                         *)
CloseTree ==
  /\ capture.pc = "closing"
  /\ \E gone \in SUBSET (capture.tracked \cap alive) :
       /\ Ended(gone)
       /\ IF capture.tracked \cap alive \subseteq gone
            THEN Goes("stopping") ELSE Goes("forcing")
  /\ CaptureFrame /\ UNCHANGED <<aborted, faults>>

(* forceStopManagedProcessTree: SIGTERM to those listed before and now.    *)
ForceTree ==
  /\ capture.pc = "forcing"
  /\ LET tracked == capture.tracked \cup Descendants
     IN  \E gone \in SUBSET (tracked \cap alive) :
           /\ alive' = alive \ gone
           /\ capture' = [capture EXCEPT !.tracked = tracked,
                            !.pc = IF tracked \cap alive \subseteq gone THEN "stopping" ELSE "killing"]
  /\ CaptureFrame /\ UNCHANGED <<aborted, excused, faults>>

(* SIGKILL; a process the system cannot end is left.                       *)
KillTree ==
  /\ capture.pc = "killing"
  /\ Ended(capture.tracked \cap alive)
  /\ Goes("stopping")
  /\ CaptureFrame /\ UNCHANGED <<aborted, faults>>

TreeNotKilled ==
  /\ capture.pc = "killing" /\ capture.tracked \cap alive # {} /\ Fault("stuck")
  /\ excused' = excused \cup Tree
  /\ capture' = [capture EXCEPT !.cleanup = "failed", !.pc = "stopping"]
  /\ CaptureFrame /\ UNCHANGED <<aborted, alive>>

(* owned.stop: SIGTERM to the group, then SIGKILL.                         *)
StopGroup ==
  /\ capture.pc = "stopping"
  /\ \E gone \in SUBSET (Group \cap alive) :
       /\ alive' = alive \ gone
       /\ Goes(IF Group \cap alive \subseteq gone THEN "ended" ELSE "stopKilling")
  /\ CaptureFrame /\ UNCHANGED <<aborted, excused, faults>>

(* Mutant: the group is not killed when it does not end by itself. *)
KillGroupNot ==
  /\ capture.pc = "stopKilling"
  /\ Goes("ended")
  /\ CaptureFrame /\ UNCHANGED <<aborted, alive, excused, faults>>

KillGroup ==
  /\ capture.pc = "stopKilling"
  /\ alive' = alive \ Group
  /\ Goes("ended")
  /\ CaptureFrame /\ UNCHANGED <<aborted, excused, faults>>

GroupNotKilled ==
  /\ capture.pc = "stopKilling" /\ Group \cap alive # {} /\ Fault("stuck")
  /\ excused' = excused \cup Group
  /\ capture' = [capture EXCEPT !.cleanup = "failed", !.pc = "ended"]
  /\ CaptureFrame /\ UNCHANGED <<aborted, alive>>

(* A cleanup that failed is what the capture fails with; else what stopped *)
(* it, a signal aborted since, or a file that is missing or empty.         *)
Outcome ==
  CASE capture.cleanup # "no" -> "failed"
    [] capture.error # "no" -> capture.error
    [] aborted -> "reason"
    [] file.written = 0 /\ ~file.cut -> "missing"
    [] OTHER -> "artifact"

CaptureOver == capture' = Idle /\ alive' = {} /\ excused' = {} /\ UNCHANGED mode

CaptureNext ==
  \/ Ready \/ Launched \/ Shoots \/ Shot \/ CommandExits \/ TargetFails \/ CaptureAborted \/ Forks
  \/ ProcessExits \/ ListTree \/ ListFails \/ CloseTree \/ ForceTree \/ KillTree \/ TreeNotKilled
  \/ StopGroup \/ KillGroup \/ GroupNotKilled
=============================================================================
