-------------------------- MODULE AgentStageProofs --------------------------
(***************************************************************************)
(* What holds of a stage for every value of the constants: the types, that *)
(* evidence that was returned stays, that a capture leaves nothing behind, *)
(* and that no turn may do more than was allowed.  What the Terminal shows *)
(* is what TLC checks alone: it is computed from the events by induction.  *)
(***************************************************************************)
EXTENDS AgentStage, TLAPS, FiniteSetTheorems, WellFoundedInduction

(* The types of the parts of the state. *)
Imports  == {"no", "failed", "probe", "owned", "probing", "bytes", "bytesNamed", "descriptor",
             "descriptorNamed", "done"}
Captures == {"idle", "waiting", "launching", "shooting", "running", "listing", "closing", "forcing",
             "killing", "stopping", "stopKilling", "ended"}
Works    == {"idle", "preparing", "prepared", "capturing", "recording", "importing", "cleaning"}
Stored   == [iteration : Iterations, file : Files, what : {"bytes", "descriptor"}]

HostTypes ==
  /\ process \in 0 .. faults /\ faults \in 0 .. MaxFaults /\ iteration \in Iterations
  /\ file \in Files /\ import \in [pc : Imports, file : Files]
  /\ mode \in {"browser", "electron", "command", "agent"}
  /\ capture \in [pc : Captures, error : {"no", "reason", "failed"}, cleanup : {"no", "failed"},
                  tracked : SUBSET Tree]
  /\ aborted \in BOOLEAN /\ alive \subseteq Group \cup Tree /\ excused \subseteq Group \cup Tree
  /\ work \in Works

(* The intake directories are numbered in the order in which they were made: those that
   were left come first, each once, and the last is that of the operation under way. *)
Numbered(n) ==
  LET last == IF work = "idle" THEN n ELSE n + 1 IN
  /\ litter = 1 .. n
  /\ IF work = "idle" THEN intake = none ELSE intake = last
  /\ intakes \subseteq [id : 1 .. last, marked : BOOLEAN]
  /\ \A k \in 1 .. last : \E d \in intakes : d.id = k
  /\ \A d, e \in intakes : d.id = e.id => d = e

(* Directories, of intakes and of the probe. *)
Directories ==
  /\ \E n \in 0 .. faults : Numbered(n)
  /\ probes \subseteq [owner : 0 .. process, marked : BOOLEAN, left : BOOLEAN]
  /\ \A d \in probes : d.owner = process /\ ~d.left => import.pc \in {"owned", "probing"}
  /\ import.pc \in {"owned", "probing"} => \A d \in probes : ~Stale(d) \/ d.left
  /\ import.pc # "no" => work = "importing"

(* The names of what is stored: whoever finds a descriptor finds the bytes, and an import
   that has returned has both, whatever the machine does. *)
As(n, what) == [n EXCEPT !.what = what]
Names ==
  /\ durable \subseteq names /\ names \subseteq Stored
  /\ \A n \in names : n.iteration <= iteration /\ Acceptable(n.file)
  /\ \A n \in names : n.what = "descriptor" => As(n, "bytes") \in durable
  /\ \A k \in kept : k.what = "bytes" /\ k \in durable /\ As(k, "descriptor") \in durable

(* How far the import under way has come: its file is whole, and the bytes were durable
   before the descriptor was written. *)
Placing ==
  /\ import.pc \notin {"no", "failed"} => Acceptable(import.file)
  /\ import.pc = "bytesNamed" => Entry("bytes") \in names
  /\ import.pc \in {"descriptor", "descriptorNamed", "done"} => Entry("bytes") \in durable
  /\ import.pc \in {"descriptorNamed", "done"} => Entry("descriptor") \in names

(* The processes of the capture under way.  While the browser lives, what it forked can be
   listed; when it does not, all that lives of its tree was listed, or is excused. *)
Processes ==
  /\ work = "capturing" <=> capture.pc # "idle"
  /\ capture.pc = "idle" => alive = {} /\ excused = {}
  /\ capture.pc \in {"waiting", "launching", "running"} => alive \cap Tree = {}
  /\ capture.pc \in {"waiting", "launching", "running", "shooting", "listing"} => capture.tracked = {}
  /\ capture.pc \in {"closing", "forcing", "killing"} => "browser" \in capture.tracked
  /\ capture.pc \in {"shooting", "listing", "closing", "forcing", "killing"} =>
       "browser" \in alive \/ alive \cap Tree \subseteq capture.tracked \cup excused
  /\ capture.pc \in {"stopping", "stopKilling", "ended"} =>
       alive \cap Tree \subseteq excused /\ ("browser" \notin alive \/ Tree \subseteq excused)
  /\ capture.pc = "ended" => alive \cap Group \subseteq excused

(* What holds of an Issue's evidence. *)
EvidenceInv == HostTypes /\ Directories /\ Names /\ Placing /\ Processes

(* What the row of an Issue and a stage under way may have. *)
Reasons == {nothing, "REVIEW_SUBMITTED", "CAPABILITY_GRANTED", "USER_RESUMED", "RUNTIME_INTERRUPTED"}
Rows == [revision : Nat, queued : AgentStages \cup {nothing},
         event : [reason : Reasons, revision : Nat, capabilities : SUBSET AgentCapability]]
Attempts == [pc : {"idle", "turn", "asking"}, stage : AgentStages \cup {nothing},
             mode : PermissionModes \cup {nothing}, has : SUBSET AgentCapability,
             may : SUBSET AgentCapability, told : Reasons, turns : 0 .. 2,
             outcome : {nothing, "result", "failed"}]

PermissionTypes ==
  /\ permissionMode \in PermissionModes
  /\ granted \subseteq AgentCapability /\ request \subseteq AgentCapability
  /\ row \in Rows /\ attempt \in Attempts /\ asked \in Nat

(* What the human granted is granted. *)
Granted == row.event.reason = "CAPABILITY_GRANTED" => row.event.capabilities \subseteq granted

(* The stage under way has what was available for it when it began. *)
Attempted ==
  /\ row.queued # nothing => attempt = Idle0
  /\ attempt.outcome # nothing => attempt.pc = "idle" /\ attempt.stage \in AgentStages
  /\ attempt.pc # "idle" =>
       /\ attempt.stage \in AgentStages /\ attempt.mode \in PermissionModes
       /\ attempt.has = Available(attempt.mode, granted, attempt.stage)
       /\ attempt.may = SandboxPolicy(Options(attempt.mode, granted, attempt.stage))
       /\ attempt.told = "CAPABILITY_GRANTED" => row.event.reason = "CAPABILITY_GRANTED"

(* What the human is asked for is new. *)
Asking ==
  /\ attempt.pc = "asking" <=> request # {}
  /\ request # {} => attempt.mode = "request-approval" /\ request \cap attempt.has = {}
  /\ asked <= Cardinality(granted) + (IF attempt.pc = "asking" THEN 1 ELSE 0)

(* What holds of what the Agent may do. *)
PermissionInv == PermissionTypes /\ Granted /\ Attempted /\ Asking

(* What a turn keeps of its commands and their output. *)
Text == Seq({"x", "n"})
Commands == [kind : CommandKinds, state : {"running", "completed", "failed"}, output : Text,
             late : BOOLEAN]
Streams == [buffer : Text, discarding : BOOLEAN, summaryOnly : BOOLEAN]

ActivityTypes ==
  /\ working \in BOOLEAN /\ stages \in 1 .. MaxTurns /\ turns \in 0 .. MaxTurns
  /\ run \in {"idle", "running", "ending", "aborted", "lost"}
  /\ commands \in Seq(Commands) /\ Len(commands) <= MaxCommands
  /\ streams \in [1 .. MaxCommands -> Streams]

(* What is kept of the output of a command. *)
Buffered(id) ==
  /\ Len(streams[id].buffer) <= Unterminated
  /\ streams[id].buffer # <<>> =>
       /\ id <= Len(commands) /\ commands[id].state = "running"
       /\ ~streams[id].discarding /\ ~streams[id].summaryOnly
  /\ run = "running" /\ id <= Len(commands) /\ commands[id].kind = "skill" => streams[id].summaryOnly

(* Nothing is kept when no turn runs. *)
ActivityInv ==
  /\ ActivityTypes
  /\ run \in {"idle", "lost"} => commands = <<>> /\ streams = NoStreams
  /\ \A id \in 1 .. MaxCommands : Buffered(id)

(* The three share nothing but the faults. *)
StageInv == EvidenceInv /\ PermissionInv /\ ActivityInv

-----------------------------------------------------------------------------
(* Numbers. *)

(* A set of numbers has a least one. *)
LEMMA HasMin ==
  ASSUME NEW S, S \subseteq Nat, S # {}
  PROVE  \E m \in S : \A s \in S : m <= s
<1> DEFINE R == OpToRel(<, Nat)
<1>1. IsWellFoundedOn(R, Nat)
  BY NatLessThanWellFounded
<1>2. \A x, y \in Nat : <<x, y>> \in R <=> x < y
  BY DEF OpToRel
<1> HIDE DEF R
<1>3. PICK m \in S : \A s \in S : ~(<<s, m>> \in R)
  BY <1>1, WFMin
<1>4. \A s \in S : ~(s < m)
  BY <1>2, <1>3
<1> QED BY <1>4
(* A set of numbers that has a bound has a greatest one. *)
LEMMA HasMax ==
  ASSUME NEW S, S \subseteq Nat, S # {}, NEW b \in Nat, \A s \in S : s <= b
  PROVE  \E m \in S : \A s \in S : s <= m
<1> DEFINE T == {b - s : s \in S}
<1>1. T \subseteq Nat /\ T # {}
  <2>1. \A s \in S : b - s \in Nat
    OBVIOUS
  <2>2. PICK s \in S : TRUE
    OBVIOUS
  <2>3. b - s \in T
    OBVIOUS
  <2>4. QED
    BY <2>1, <2>3
<1>2. PICK t \in T : \A u \in T : t <= u
  <2> HIDE DEF T
  <2> QED BY <1>1, HasMin
<1>3. PICK m \in S : t = b - m
  OBVIOUS
<1>4. \A s \in S : b - m <= b - s
  BY <1>2, <1>3
<1> QED BY <1>4

(* The kinds of recordings, each with so many elements. *)
LEMMA KindsListed ==
  /\ Kinds = {"png", "mp4", "streamed", "webm", "live"}
  /\ \A kind \in Kinds : Len(Recordings[kind]) \in Nat
<1>1. Kinds = {"png", "mp4", "streamed", "webm", "live"}
  BY DEF Kinds, Recordings
<1>2. /\ Len(Recordings["png"]) = 3 /\ Len(Recordings["mp4"]) = 7
      /\ Len(Recordings["streamed"]) = 6 /\ Len(Recordings["webm"]) = 10
      /\ Len(Recordings["live"]) = 7
  BY DEF Recordings
<1> QED
  BY <1>1, <1>2

(* A file that has just been created is a file. *)
LEMMA NewFiles ==
  /\ NoFile \in Files
  /\ \A kind \in Kinds : [NoFile EXCEPT !.kind = kind] \in Files
<1>1. \A kind \in Kinds : [kind |-> kind, written |-> 0, cut |-> FALSE] \in Files
  BY KindsListed DEF Files
<1>2. NoFile \in Files
  BY <1>1, KindsListed DEF NoFile
<1>3. ASSUME NEW kind \in Kinds PROVE [NoFile EXCEPT !.kind = kind] \in Files
  <2>1. NoFile \in [kind : Kinds, written : 0 .. 10, cut : BOOLEAN]
    BY <1>2 DEF Files
  <2> DEFINE f == [NoFile EXCEPT !.kind = kind]
  <2>3. f \in [kind : Kinds, written : 0 .. 10, cut : BOOLEAN]
    BY <2>1
  <2>4. f.kind = kind /\ f.written = NoFile.written /\ f.cut = NoFile.cut
    BY <2>1
  <2>5. NoFile.written = 0 /\ NoFile.cut = FALSE
    BY DEF NoFile
  <2> HIDE DEF f
  <2>6. f \in Files
    BY <2>3, <2>4, <2>5, KindsListed DEF Files
  <2> QED
    BY <2>6 DEF f
<1> QED
  BY <1>2, <1>3

-----------------------------------------------------------------------------
(* A fault is counted, and never more than the bound of them happen. *)
LEMMA FaultCounts ==
  ASSUME HostTypes, NEW kind, Fault(kind)
  PROVE  faults' = faults + 1 /\ faults' \in 0 .. MaxFaults /\ process \in 0 .. faults'
BY EvidenceAssumption DEF HostTypes, Fault

(* Faults are only added. *)
MoreFaults == faults' \in Nat /\ faults <= faults' /\ faults' <= MaxFaults

(* No step takes a fault back. *)
LEMMA FaultsGrow ==
  ASSUME HostTypes, UNCHANGED faults \/ \E kind \in Faults : Fault(kind)
  PROVE  MoreFaults
BY EvidenceAssumption DEF HostTypes, Fault, MoreFaults

(* A step that touches nothing of the store keeps all that is said of it, as long as
   the operation stays under way and an import stays its work. *)
LEMMA StoreKept ==
  ASSUME HostTypes, Directories, Names, Placing, MoreFaults,
         UNCHANGED <<process, iteration, litter, storeVars>>,
         work' \in Works, work = "idle" <=> work' = "idle",
         import.pc # "no" => work' = "importing"
  PROVE  Directories' /\ Names' /\ Placing'
<1> USE DEF storeVars
<1>1. Names'
  BY DEF Names, As
<1>2. Placing'
  BY DEF Placing, Entry
<1>3. PICK n \in 0 .. faults : Numbered(n)
  BY DEF Directories
<1>4. n \in 0 .. faults' /\ Numbered(n)'
  BY <1>3 DEF Numbered, MoreFaults, HostTypes, Works
<1>5. Directories'
  BY <1>4 DEF Directories, Stale
<1> QED
  BY <1>1, <1>2, <1>5

(* A step that touches nothing of the capture keeps what is said of its processes. *)
LEMMA CaptureKept ==
  ASSUME Processes, work' = "capturing" <=> work = "capturing",
         UNCHANGED <<capture, alive, excused>>
  PROVE  Processes'
BY DEF Processes

-----------------------------------------------------------------------------
(* What a step of an import leaves alone. *)
HostRest == UNCHANGED <<process, iteration, operations, litter, captureVars, work>>

(* A step of an import keeps the types. *)
LEMMA ImportTypes ==
  ASSUME HostTypes, work = "importing", (StoreNext /\ UNCHANGED faults) \/ StoreFails, HostRest
  PROVE  HostTypes'
<1> USE DEF HostRest, captureVars
<1>1. faults' \in 0 .. MaxFaults /\ process' \in 0 .. faults' /\ iteration' \in Iterations
  BY FaultCounts DEF HostTypes, StoreFails, RecoveryFails, ProbeFails, WriteFails
<1>2. file' = file
  BY DEF StoreNext, StoreFails, RecoveryFails, ProbeFails, WriteFails, ReadSource, RefuseSource,
         RecoverProbes, OwnProbe, EndProbe, Rename,
         SyncDirectory, StoreFrame
<1>3. ASSUME NEW pc \in Imports, At(pc) PROVE import' \in [pc : Imports, file : Files]
  BY <1>3 DEF HostTypes, At
<1>4. import' \in [pc : Imports, file : Files]
  <2>1. CASE ReadSource
    BY <2>1 DEF ReadSource, HostTypes, Imports
  <2>2. CASE RefuseSource
    BY <2>2, <1>3 DEF RefuseSource, Imports
  <2>3. CASE RecoverProbes
    BY <2>3, <1>3 DEF RecoverProbes, Imports
  <2>4. CASE OwnProbe
    BY <2>4, <1>3 DEF OwnProbe, Imports
  <2>5. CASE EndProbe
    BY <2>5, <1>3 DEF EndProbe, Imports
  <2>6. CASE Rename
    <3>1. After(import.pc) \in Imports
      BY <2>6 DEF Rename, After, Imports
    <3>2. QED
      BY <2>6, <3>1, <1>3 DEF Rename
  <2>7. CASE SyncDirectory
    <3>1. After(import.pc) \in Imports
      BY <2>7 DEF SyncDirectory, After, Imports
    <3>2. QED
      BY <2>7, <3>1, <1>3 DEF SyncDirectory
  <2>8. CASE StoreFails
    BY <2>8, <1>3 DEF StoreFails, RecoveryFails, ProbeFails, WriteFails, Imports
  <2>9. QED
    BY <2>1, <2>2, <2>3, <2>4, <2>5, <2>6, <2>7, <2>8 DEF StoreNext
<1>5. QED
  BY <1>1, <1>2, <1>4 DEF HostTypes

(* What a step of an import that only moves on leaves of it. *)
LEMMA ImportMoves ==
  ASSUME HostTypes, NEW pc, At(pc)
  PROVE  import'.pc = pc /\ import'.file = import.file
BY DEF HostTypes, At

(* A step that touches no intake directory keeps their numbers. *)
LEMMA IntakesKept ==
  ASSUME HostTypes, Directories, MoreFaults, UNCHANGED <<intakes, intake, litter>>,
         work = "idle" <=> work' = "idle"
  PROVE  \E n \in 0 .. faults' : Numbered(n)'
<1>1. PICK n \in 0 .. faults : Numbered(n)
  BY DEF Directories
<1>2. n \in 0 .. faults' /\ Numbered(n)'
  BY <1>1 DEF Numbered, MoreFaults, HostTypes
<1> QED
  BY <1>2

(* readSource: what is read whole is what is imported from then on. *)
LEMMA ReadSourceKeeps ==
  ASSUME HostTypes, Directories, Names, Placing, work = "importing", ReadSource, HostRest,
         UNCHANGED faults
  PROVE  Directories' /\ Names' /\ Placing'
<1> USE DEF HostRest, StoreFrame, ReadSource
<1>1. \E n \in 0 .. faults' : Numbered(n)'
  BY IntakesKept, FaultsGrow
<1>2. import'.pc \in {"failed", "bytes", "probe"} /\ import'.file = file
  OBVIOUS
<1>3. Directories'
  BY <1>1, <1>2 DEF Directories, Stale
<1>4. Names'
  BY DEF Names, As
<1>5. Placing'
  BY <1>2 DEF Placing
<1> QED
  BY <1>3, <1>4, <1>5

(* An import that fails leaves the names as they are. *)
LEMMA RefuseSourceKeeps ==
  ASSUME HostTypes, Directories, Names, Placing, work = "importing", HostRest, MoreFaults,
         RefuseSource \/ WriteFails
  PROVE  Directories' /\ Names' /\ Placing'
<1> USE DEF HostRest, StoreFrame, RefuseSource, WriteFails
<1>1. \E n \in 0 .. faults' : Numbered(n)'
  BY IntakesKept
<1>2. import'.pc = "failed" /\ import.pc \notin {"owned", "probing"}
  BY ImportMoves
<1>3. Directories'
  BY <1>1, <1>2 DEF Directories, Stale
<1>4. Names'
  BY DEF Names, As
<1>5. Placing'
  BY <1>2 DEF Placing
<1> QED
  BY <1>3, <1>4, <1>5

(* The probe's directories: its own is marked, and those of an earlier process are
   removed before it runs, or left because they cannot be. *)
LEMMA ProbeKeeps ==
  ASSUME HostTypes, Directories, Names, Placing, work = "importing", HostRest, MoreFaults,
         RecoverProbes \/ OwnProbe \/ EndProbe \/ RecoveryFails \/ ProbeFails
  PROVE  Directories' /\ Names' /\ Placing'
<1> USE DEF HostRest, StoreFrame
<1> DEFINE Probes == [owner : 0 .. process, marked : BOOLEAN, left : BOOLEAN]
<1>1. \E n \in 0 .. faults' : Numbered(n)'
  BY IntakesKept DEF RecoverProbes, OwnProbe, EndProbe, RecoveryFails, ProbeFails
<1>2. process' = process /\ Probes' = Probes /\ NewProbe \in Probes /\ ~Stale(NewProbe)
  BY DEF NewProbe, HostTypes, Stale
<1>3. probes \subseteq Probes
  BY DEF Directories
<1>4. \A d \in Probes :
        /\ Left(d) \in Probes /\ Left(d).left /\ Left(d).owner = d.owner
        /\ [d EXCEPT !.marked = TRUE] \in Probes /\ [d EXCEPT !.marked = TRUE].owner = d.owner
        /\ [d EXCEPT !.marked = TRUE].left = d.left
  BY DEF Left
<1> HIDE DEF Probes
<1>5. CASE RecoverProbes \/ RecoveryFails
  <2>1. import'.pc = "owned" /\ import'.file = import.file /\ import.pc = "probe"
    BY <1>5, ImportMoves DEF RecoverProbes, RecoveryFails
  <2>2. \A e \in probes' : \/ e = NewProbe
                           \/ e \in probes /\ ~Stale(e)
                           \/ \E d \in probes : e = Left(d)
    <3>1. CASE RecoverProbes
      <4>1. probes' = {d \in probes : ~Stale(d)} \cup {NewProbe}
        BY <3>1 DEF RecoverProbes
      <4>2. QED
        BY <4>1
    <3>2. CASE RecoveryFails
      <4>1. probes' = {IF Stale(d) THEN Left(d) ELSE d : d \in probes} \cup {NewProbe}
        BY <3>2 DEF RecoveryFails
      <4>2. \A e \in probes' : \/ e = NewProbe
                               \/ \E d \in probes : e = IF Stale(d) THEN Left(d) ELSE d
        BY <4>1
      <4>3. QED
        BY <4>2
    <3>3. QED
      BY <1>5, <3>1, <3>2
  <2>3. \A e \in probes' : e \in Probes /\ (~Stale(e) \/ e.left)
    <3> SUFFICES ASSUME NEW e \in probes' PROVE e \in Probes /\ (~Stale(e) \/ e.left)
      OBVIOUS
    <3>1. CASE e = NewProbe
      BY <3>1, <1>2
    <3>2. CASE e \in probes /\ ~Stale(e)
      BY <3>2, <1>3
    <3>3. CASE \E d \in probes : e = Left(d)
      BY <3>3, <1>3, <1>4
    <3>4. QED
      BY <2>2, <3>1, <3>2, <3>3
  <2>4. \A e \in probes' : (~Stale(e) \/ e.left)'
    BY <2>3, <1>2 DEF Stale
  <2>5. QED
    BY <1>1, <1>2, <1>5, <2>1, <2>3, <2>4
    DEF RecoverProbes, RecoveryFails, Directories, Names, As, Placing, Probes
<1>6. CASE OwnProbe
  <2>1. import'.pc = "probing" /\ import'.file = import.file /\ import.pc = "owned"
    BY <1>6, ImportMoves DEF OwnProbe
  <2>2. \A e \in probes' : \E d \in probes :
           \/ d.owner = process /\ e = [d EXCEPT !.marked = TRUE]
           \/ d.owner # process /\ e = d
    BY <1>6 DEF OwnProbe
  <2>3. probes' \subseteq Probes
    BY <2>2, <1>3, <1>4
  <2>4. \A e \in probes' : (~Stale(e) \/ e.left)'
    BY <2>1, <2>2, <1>2, <1>3, <1>4 DEF Stale, Directories
  <2>5. QED
    BY <1>1, <1>2, <1>6, <2>1, <2>3, <2>4 DEF OwnProbe, Directories, Names, As, Placing, Probes
<1>7. CASE EndProbe \/ ProbeFails
  <2>1. /\ import'.pc \in {"bytes", "failed"} /\ import'.file = import.file
        /\ import.pc \in {"owned", "probing"}
        /\ (import'.pc = "bytes" => import.pc = "probing")
    BY <1>7, ImportMoves DEF EndProbe, ProbeFails
  <2>2. \A e \in probes' : \/ e \in probes /\ (e.owner = process => e.left)
                           \/ \E d \in probes : e = Left(d)
    <3>1. CASE probes' = ProbeRemoved
      BY <3>1 DEF ProbeRemoved
    <3>2. CASE probes' = {IF d.owner = process THEN Left(d) ELSE d : d \in probes}
      <4>1. \A e \in probes' : \E d \in probes : e = IF d.owner = process THEN Left(d) ELSE d
        BY <3>2
      <4>2. QED
        BY <4>1
    <3>3. QED
      BY <1>7, <3>1, <3>2 DEF EndProbe, ProbeFails
  <2>3. \A e \in probes' : e \in Probes /\ (e.owner = process => e.left)
    <3> SUFFICES ASSUME NEW e \in probes' PROVE e \in Probes /\ (e.owner = process => e.left)
      OBVIOUS
    <3>1. CASE e \in probes /\ (e.owner = process => e.left)
      BY <3>1, <1>3
    <3>2. CASE \E d \in probes : e = Left(d)
      BY <3>2, <1>3, <1>4
    <3>3. QED
      BY <2>2, <3>1, <3>2
  <2>4. QED
    BY <1>1, <1>2, <1>7, <2>1, <2>3
    DEF EndProbe, ProbeFails, Directories, Names, As, Placing, Probes
<1> QED
  BY <1>5, <1>6, <1>7

(* A rename names the bytes before the descriptor. *)
LEMMA RenameKeeps ==
  ASSUME HostTypes, Directories, Names, Placing, work = "importing", HostRest, UNCHANGED faults,
         Rename
  PROVE  Directories' /\ Names' /\ Placing'
<1> USE DEF HostRest, StoreFrame, Rename
<1>1. \E n \in 0 .. faults' : Numbered(n)'
  BY IntakesKept, FaultsGrow
<1>2. import'.pc = After(import.pc) /\ import'.file = import.file
  BY ImportMoves
<1>3. \/ import.pc = "bytes" /\ import'.pc = "bytesNamed"
      \/ import.pc = "descriptor" /\ import'.pc = "descriptorNamed"
  BY <1>2 DEF After
<1>4. Directories'
  BY <1>1, <1>3 DEF Directories, Stale
<1>5. Entry("bytes")' = Entry("bytes") /\ Entry("descriptor")' = Entry("descriptor")
  BY <1>2 DEF Entry
<1>6. Acceptable(import.file)
  BY <1>3 DEF Placing
<1>7. Entry(import.pc) \in Stored
  BY <1>3 DEF Entry, Stored, HostTypes
<1>8. As(Entry("descriptor"), "bytes") = Entry("bytes")
  BY DEF As, Entry
<1>9. Names'
  <2>1. names' = names \cup {Entry(import.pc)} /\ durable' = durable /\ kept' = kept
    OBVIOUS
  <2>2. Entry(import.pc).iteration = iteration /\ Entry(import.pc).file = import.file
        /\ Entry(import.pc).what = import.pc
    BY DEF Entry
  <2>3. import.pc = "descriptor" => As(Entry(import.pc), "bytes") \in durable
    BY <1>8 DEF Placing
  <2>4. \A n \in names' : n.iteration <= iteration' /\ Acceptable(n.file)
    <3>1. iteration \in Nat
      BY EvidenceAssumption DEF HostTypes
    <3>2. QED
      BY <2>1, <2>2, <3>1, <1>6 DEF Names
  <2>5. \A n \in names' : n.what = "descriptor" => As(n, "bytes") \in durable'
    BY <2>1, <2>2, <2>3 DEF Names
  <2>6. QED
    BY <2>1, <2>4, <2>5, <1>7 DEF Names, As
<1>10. Placing'
  BY <1>2, <1>3, <1>5, <1>6 DEF Placing
<1> QED
  BY <1>4, <1>9, <1>10

(* What has been named is durable once its directory has been synced, and an import
   only returns then. *)
LEMMA SyncKeeps ==
  ASSUME HostTypes, Directories, Names, Placing, work = "importing", HostRest, UNCHANGED faults,
         SyncDirectory
  PROVE  Directories' /\ Names' /\ Placing'
<1> USE DEF HostRest, StoreFrame, SyncDirectory
<1>1. \E n \in 0 .. faults' : Numbered(n)'
  BY IntakesKept, FaultsGrow
<1>2. import'.pc = After(import.pc) /\ import'.file = import.file
  BY ImportMoves
<1>3. \/ import.pc = "bytesNamed" /\ import'.pc = "descriptor"
      \/ import.pc = "descriptorNamed" /\ import'.pc = "done"
  BY <1>2 DEF After
<1>4. Directories'
  BY <1>1, <1>3 DEF Directories, Stale
<1>5. Entry("bytes")' = Entry("bytes") /\ Entry("descriptor")' = Entry("descriptor")
  BY <1>2 DEF Entry
<1>6. \A what : Entry(what).iteration = iteration /\ Entry(what).what = what
  BY DEF Entry
<1>7. durable \subseteq durable' /\ durable' \subseteq names
  BY DEF Names
<1>8. \A what : Entry(what) \in names => Entry(what) \in durable'
  BY <1>6
<1>9. import.pc = "descriptorNamed" =>
        Entry("bytes") \in durable' /\ As(Entry("bytes"), "descriptor") \in durable'
  <2>1. As(Entry("bytes"), "descriptor") = Entry("descriptor")
    BY DEF As, Entry
  <2>2. QED
    BY <2>1, <1>7, <1>8 DEF Placing
<1>10. \A k \in kept' : k.what = "bytes" /\ k \in durable' /\ As(k, "descriptor") \in durable'
  BY <1>6, <1>7, <1>9 DEF Names
<1>11. Names'
  <2>1. \A k \in kept' : (k.what = "bytes" /\ k \in durable /\ As(k, "descriptor") \in durable)'
    BY <1>10 DEF As
  <2>2. \A n \in names' : (n.what = "descriptor" => As(n, "bytes") \in durable)'
    BY <1>7 DEF Names, As
  <2>3. QED
    BY <2>1, <2>2, <1>7 DEF Names
<1>12. Placing'
  BY <1>2, <1>3, <1>5, <1>7, <1>8 DEF Placing
<1> QED
  BY <1>4, <1>11, <1>12

(* An import keeps the invariant. *)
LEMMA ImportKeeps ==
  ASSUME EvidenceInv, Import
  PROVE  EvidenceInv'
<1>1. HostRest
  BY DEF Import, HostFrame, HostRest
<1>2. HostTypes'
  BY <1>1, ImportTypes DEF Import, EvidenceInv
<1>3. MoreFaults
  BY FaultsGrow DEF Import, EvidenceInv, StoreFails, RecoveryFails, ProbeFails, WriteFails, Fault
<1>4. Directories' /\ Names' /\ Placing'
  BY <1>1, <1>3, ReadSourceKeeps, RefuseSourceKeeps, ProbeKeeps, RenameKeeps, SyncKeeps
  DEF Import, EvidenceInv, StoreNext, StoreFails
<1>5. Processes'
  BY <1>1, CaptureKept DEF HostRest, captureVars, EvidenceInv
<1> QED
  BY <1>2, <1>4, <1>5 DEF EvidenceInv

-----------------------------------------------------------------------------
(* A step that touches nothing of the store keeps the invariant, if it keeps the types
   and what is said of the processes. *)
LEMMA StepRests ==
  ASSUME EvidenceInv, MoreFaults, UNCHANGED <<process, iteration, litter, storeVars>>,
         work' \in Works, work = "idle" <=> work' = "idle",
         import.pc # "no" => work' = "importing",
         HostTypes', Processes'
  PROVE  EvidenceInv'
BY StoreKept DEF EvidenceInv

(* A step of the capture keeps the types. *)
LEMMA CaptureTypes ==
  ASSUME HostTypes, HostFrame, UNCHANGED <<work, storeVars>>, CaptureNext, ~Shoots
  PROVE  HostTypes'
<1> USE DEF HostFrame, storeVars, CaptureFrame
<1>1. faults' \in 0 .. MaxFaults /\ process' \in 0 .. faults' /\ mode' = mode
  BY FaultCounts
  DEF HostTypes, CaptureNext, Ready, Launched, Shot, CommandExits, TargetFails, CaptureAborted, Forks, ProcessExits,
      ListTree, ListFails, CloseTree, ForceTree, KillTree, TreeNotKilled, StopGroup, KillGroup,
      GroupNotKilled
<1>2. aborted' = aborted
  BY DEF CaptureNext, Ready, Launched, Shot, CommandExits, TargetFails, CaptureAborted, Forks, ProcessExits,
      ListTree, ListFails, CloseTree, ForceTree, KillTree, TreeNotKilled, StopGroup, KillGroup,
      GroupNotKilled
<1>3. alive' \subseteq Group \cup Tree /\ excused' \subseteq Group \cup Tree
  BY DEF HostTypes, CaptureNext, Ready, Launched, Shot, CommandExits, TargetFails, CaptureAborted, Forks, ProcessExits,
      ListTree, ListFails, CloseTree, ForceTree, KillTree, TreeNotKilled, StopGroup, KillGroup,
      GroupNotKilled, Ended, Group, Tree
<1>4. capture' \in [pc : Captures, error : {"no", "reason", "failed"}, cleanup : {"no", "failed"},
                  tracked : SUBSET Tree]
  <2> DEFINE R == [pc : Captures, error : {"no", "reason", "failed"}, cleanup : {"no", "failed"},
                  tracked : SUBSET Tree]
  <2>1. capture \in R
    BY DEF HostTypes
  <2>2. ASSUME NEW pc \in Captures PROVE
            /\ [capture EXCEPT !.pc = pc] \in R
            /\ \A error \in {"no", "reason", "failed"} :
                  [capture EXCEPT !.error = error, !.pc = pc] \in R
            /\ [capture EXCEPT !.cleanup = "failed", !.pc = pc] \in R
            /\ \A t \in SUBSET Tree : [capture EXCEPT !.tracked = t, !.pc = pc] \in R
    BY <2>1
  <2> SUFFICES capture' \in R
    OBVIOUS
  <2> HIDE DEF R
  <2>3. CleanupOf \in Captures
    BY DEF CleanupOf, Captures
  <2>4. {"browser"} \cup Descendants \in SUBSET Tree
        /\ capture.tracked \cup Descendants \in SUBSET Tree
    BY <2>1 DEF R, Descendants, Tree
  <2>5. CASE Ready \/ Launched \/ Shot \/ CommandExits \/ TargetFails \/ CaptureAborted
    BY <2>2, <2>3, <2>5 DEF Ready, Launched, Shot, CommandExits, TargetFails, CaptureAborted,
       Goes, FailsWith, Captures
  <2>6. CASE Forks
    <3>1. PICK p : capture' = [capture EXCEPT !.tracked = @ \ {p}]
      BY <2>6 DEF Forks
    <3>2. QED
      BY <2>1, <3>1 DEF R
  <2>11. CASE ProcessExits
    BY <2>1, <2>11 DEF ProcessExits
  <2>7. CASE ListTree
    <3>1. \A t \in SUBSET Tree : [capture EXCEPT !.tracked = t, !.pc = "closing"] \in R
      BY <2>2 DEF Captures
    <3>2. QED
      BY <2>7, <3>1, <2>4 DEF ListTree
  <2>10. CASE ListFails \/ CloseTree
    BY <2>2, <2>10 DEF ListFails, CloseTree, Goes, Captures
  <2>9. CASE ForceTree
    <3>1. \A t \in SUBSET Tree :
            /\ [capture EXCEPT !.tracked = t, !.pc = "stopping"] \in R
            /\ [capture EXCEPT !.tracked = t, !.pc = "killing"] \in R
      BY <2>2 DEF Captures
    <3>2. \/ capture' = [capture EXCEPT !.tracked = capture.tracked \cup Descendants, !.pc = "stopping"]
          \/ capture' = [capture EXCEPT !.tracked = capture.tracked \cup Descendants, !.pc = "killing"]
      BY <2>9 DEF ForceTree
    <3>3. QED
      BY <3>1, <3>2, <2>4
  <2>8. CASE KillTree \/ TreeNotKilled \/ StopGroup \/ KillGroup \/ GroupNotKilled
    BY <2>2, <2>8 DEF KillTree, TreeNotKilled, StopGroup, KillGroup, GroupNotKilled, Goes, Captures
  <2> QED
    BY <2>5, <2>6, <2>7, <2>8, <2>9, <2>10, <2>11 DEF CaptureNext
<1> QED
  BY <1>1, <1>2, <1>3, <1>4 DEF HostTypes

(* A capture that moves on keeps what it has listed. *)
Moves(pc) == capture'.pc = pc /\ capture'.tracked = capture.tracked
(* What a step of the capture that only moves on leaves of it. *)
LEMMA CaptureMoves ==
  ASSUME HostTypes
  PROVE  /\ \A pc : Goes(pc) => Moves(pc)
         /\ \A pc, error : FailsWith(error, pc) => Moves(pc)
BY DEF HostTypes, Goes, FailsWith, Moves

(* A step of the capture keeps what is said of the processes: the tree is listed while
   its browser lives, and what was listed is stopped with it. *)
LEMMA CaptureProcesses ==
  ASSUME HostTypes, Processes, UNCHANGED work, CaptureNext, ~Shoots
  PROVE  Processes'
<1> USE DEF Processes
<1>1. CASE Ready \/ Launched \/ Shot \/ CommandExits \/ CaptureAborted
  BY <1>1, CaptureMoves DEF Ready, Launched, Shot, CommandExits, TargetFails, CaptureAborted,
     Moves, CleanupOf, Tree, Group
<1>2. CASE TargetFails
  BY <1>2, CaptureMoves DEF TargetFails, Moves, CleanupOf, Tree, Group
<1>3. CASE Forks
  <2>1. PICK p \in {"child", "helper"} :
           /\ p \notin alive /\ (IF p \in Group THEN "command" ELSE "browser") \in alive
           /\ alive' = alive \cup {p}
           /\ capture' = [capture EXCEPT !.tracked = @ \ {p}]
    BY <1>3 DEF Forks
  <2>2. /\ capture'.pc = capture.pc /\ capture'.tracked = capture.tracked \ {p}
        /\ capture.tracked \subseteq Tree
    BY <2>1 DEF HostTypes
  <2>3. UNCHANGED excused /\ capture.pc \notin {"idle", "ended"}
    BY <1>3 DEF Forks
  <2>4. CASE p = "child"
    <3>1. /\ alive' \cap Tree = alive \cap Tree /\ ("browser" \in alive' <=> "browser" \in alive)
          /\ capture'.tracked = capture.tracked
      BY <2>1, <2>2, <2>4 DEF Tree, Group
    <3>2. QED
      BY <2>2, <2>3, <3>1
  <2>5. CASE p = "helper"
    <3>1. /\ "browser" \in alive /\ "browser" \in alive' /\ "helper" \in Tree /\ "browser" \in Tree
          /\ alive' \cap Tree \subseteq Tree
          /\ ("browser" \in capture'.tracked <=> "browser" \in capture.tracked)
      BY <2>1, <2>2, <2>5 DEF Tree, Group
    <3>2. QED
      BY <2>2, <2>3, <3>1
  <2> QED
    BY <2>1, <2>4, <2>5
<1>13. CASE ProcessExits
  <2>1. PICK p \in alive : Ended({p})
    BY <1>13 DEF ProcessExits
  <2>2. UNCHANGED capture /\ capture.pc \notin {"idle", "ended"}
    BY <1>13 DEF ProcessExits
  <2>3. /\ alive' = alive \ {p} /\ excused \subseteq excused'
        /\ (p = "browser" => alive' \cap Tree \subseteq capture.tracked \cup excused')
        /\ (p # "browser" => ("browser" \in alive' <=> "browser" \in alive))
        /\ alive' \cap Tree \subseteq alive \cap Tree
    BY <2>1 DEF Ended, Tree
  <2>4. QED
    BY <2>2, <2>3
<1>4. CASE ListTree
  <2>1. /\ capture.pc = "listing" /\ capture'.pc = "closing" /\ "browser" \in capture'.tracked
        /\ UNCHANGED <<alive, excused>> /\ capture.tracked = {}
    BY <1>4 DEF ListTree, HostTypes
  <2>2. QED
    BY <2>1
<1>12. CASE ListFails
  <2>1. /\ capture.pc # "idle" /\ capture'.pc = "stopping" /\ Tree \subseteq excused'
        /\ UNCHANGED alive
    BY <1>12 DEF ListFails, HostTypes
  <2>2. QED
    BY <2>1
<1>5. CASE CloseTree
  BY <1>5, CaptureMoves DEF CloseTree, Ended, Moves, Tree, Group, HostTypes
<1>6. CASE ForceTree
  BY <1>6 DEF ForceTree, Descendants, Tree, Group, HostTypes
<1>7. CASE KillTree
  BY <1>7, CaptureMoves DEF KillTree, Ended, Moves, Tree, Group, HostTypes
<1>8. CASE TreeNotKilled
  <2>1. capture'.pc = "stopping" /\ alive' = alive /\ Tree \subseteq excused' /\ UNCHANGED work
        /\ capture.pc # "idle"
    BY <1>8 DEF TreeNotKilled, HostTypes
  <2>2. QED
    BY <2>1
<1>9. CASE StopGroup
  <2>1. PICK gone \in SUBSET (Group \cap alive) :
           /\ alive' = alive \ gone
           /\ Goes(IF Group \cap alive \subseteq gone THEN "ended" ELSE "stopKilling")
    BY <1>9 DEF StopGroup
  <2>2. excused' = excused /\ capture.pc = "stopping"
    BY <1>9 DEF StopGroup
  <2>3. alive' \cap Tree = alive \cap Tree /\ ("browser" \in alive' <=> "browser" \in alive)
    BY <2>1 DEF Group, Tree
  <2>4. capture'.pc \in {"ended", "stopKilling"}
    BY <2>1, CaptureMoves DEF Moves
  <2>5. capture'.pc = "ended" => alive' \cap Group = {}
    BY <2>1, CaptureMoves DEF Moves
  <2>6. QED
    BY <2>2, <2>3, <2>4, <2>5
<1>10. CASE KillGroup
  <2>1. excused' = excused /\ capture.pc = "stopKilling" /\ capture'.pc = "ended"
    BY <1>10, CaptureMoves DEF KillGroup, Moves
  <2>2. alive' \cap Tree = alive \cap Tree /\ ("browser" \in alive' <=> "browser" \in alive)
        /\ alive' \cap Group = {}
    BY <1>10 DEF KillGroup, Group, Tree
  <2>3. QED
    BY <2>1, <2>2
<1>11. CASE GroupNotKilled
  <2>1. alive' = alive /\ excused' = excused \cup Group
        /\ capture.pc = "stopKilling" /\ capture'.pc = "ended"
    BY <1>11 DEF GroupNotKilled, HostTypes
  <2>2. QED
    BY <2>1
<1> QED
  BY <1>1, <1>2, <1>3, <1>4, <1>5, <1>6, <1>7, <1>8, <1>9, <1>10, <1>11, <1>12, <1>13
  DEF CaptureNext

(* A capture keeps the invariant. *)
LEMMA CaptureNextKeeps ==
  ASSUME EvidenceInv, CaptureNext, HostFrame, UNCHANGED work
  PROVE  EvidenceInv'
<1> USE DEF EvidenceInv
<1>1. MoreFaults
  BY FaultsGrow DEF CaptureNext, Ready, Launched, Shot, CommandExits, TargetFails, CaptureAborted, Forks, ProcessExits,
      ListTree, ListFails, CloseTree, ForceTree, KillTree, TreeNotKilled, StopGroup, KillGroup,
      GroupNotKilled, Shoots, Fault
<1>2. CASE Shoots
  <2>1. file' \in Files /\ UNCHANGED <<intakes, intake, import, names, durable, probes, kept, faults>>
    BY <1>2 DEF Shoots, Writes
  <2>2. UNCHANGED <<process, iteration, litter, work, captureVars>>
    BY <1>2 DEF Shoots, HostFrame
  <2>3. HostTypes'
    BY <2>1, <2>2 DEF HostTypes, captureVars
  <2>4. Processes'
    BY <2>2, CaptureKept DEF captureVars
  <2>5. \E n \in 0 .. faults' : Numbered(n)'
    BY <2>1, <2>2, <1>1, IntakesKept
  <2>6. Directories'
    BY <2>1, <2>2, <2>5 DEF Directories, Stale
  <2>7. Names' /\ Placing'
    BY <2>1, <2>2 DEF Names, As, Placing, Entry
  <2>8. QED
    BY <2>3, <2>4, <2>6, <2>7
<1>3. CASE ~Shoots
  <2>1. UNCHANGED storeVars
    BY <1>3 DEF CaptureNext, Ready, Launched, Shot, CommandExits, TargetFails, CaptureAborted, Forks, ProcessExits,
      ListTree, ListFails, CloseTree, ForceTree, KillTree, TreeNotKilled, StopGroup, KillGroup,
      GroupNotKilled, CaptureFrame
  <2>2. HostTypes'
    BY <1>3, <2>1, CaptureTypes
  <2>3. Processes'
    BY <1>3, CaptureProcesses
  <2>4. work' \in Works /\ (import.pc # "no" => work' = "importing")
    BY DEF HostTypes, Directories
  <2>5. QED
    BY <1>1, <2>1, <2>2, <2>3, <2>4, StepRests DEF HostFrame
<1> QED
  BY <1>2, <1>3

-----------------------------------------------------------------------------
(* Intake directories that are numbered from one, each number once, are as many as the
   last number. *)
LEMMA IntakesCounted ==
  ASSUME NEW n \in Nat, intakes \subseteq [id : 1 .. n, marked : BOOLEAN],
         \A k \in 1 .. n : \E d \in intakes : d.id = k,
         \A d, e \in intakes : d.id = e.id => d = e
  PROVE  Cardinality(intakes) = n
<1> DEFINE at == [k \in 1 .. n |-> CHOOSE d \in intakes : d.id = k]
<1>1. ASSUME NEW k \in 1 .. n PROVE at[k] \in intakes /\ at[k].id = k
  OBVIOUS
<1>2. at \in [1 .. n -> intakes]
  BY <1>1
<1>3. \A d \in intakes : d.id \in 1 .. n
  OBVIOUS
<1>4. \A d \in intakes : at[d.id] = d
  BY <1>1, <1>3
<1>5. at \in Bijection(1 .. n, intakes)
  <2> HIDE DEF at
  <2>1. at \in Injection(1 .. n, intakes)
    BY <1>1, <1>2 DEF Injection, IsInjective
  <2>2. at \in Surjection(1 .. n, intakes)
    BY <1>2, <1>3, <1>4 DEF Surjection
  <2>3. QED
    BY <2>1, <2>2 DEF Bijection
<1>6. IsFiniteSet(1 .. n) /\ Cardinality(1 .. n) = n
  <2>1. 1 \in Int /\ n \in Int
    OBVIOUS
  <2>2. /\ IsFiniteSet(1 .. n)
        /\ Cardinality(1 .. n) = IF 1 > n THEN 0 ELSE n - 1 + 1
    BY <2>1, FS_Interval
  <2>3. QED
    BY <2>2
<1> HIDE DEF at
<1>7. ExistsBijection(1 .. n, intakes)
  BY <1>5 DEF ExistsBijection
<1> QED
  BY <1>6, <1>7, FS_Bijection

(* An operation begins with a new intake directory, after those that were left. *)
LEMMA BeginKeeps ==
  ASSUME EvidenceInv, Begin
  PROVE  EvidenceInv'
<1> USE DEF EvidenceInv
<1>1. HostTypes'
  BY DEF HostTypes, Begin, MakeIntake, Works
<1>2. PICK n \in 0 .. faults : Numbered(n)
  BY DEF Directories
<1>3. Cardinality(intakes) = n
  <2>1. work = "idle" /\ n \in Nat
    BY DEF Begin, HostTypes
  <2>2. /\ intakes \subseteq [id : 1 .. n, marked : BOOLEAN]
        /\ \A k \in 1 .. n : \E d \in intakes : d.id = k
        /\ \A d, e \in intakes : d.id = e.id => d = e
    BY <2>1, <1>2 DEF Numbered
  <2>3. QED
    BY <2>1, <2>2, IntakesCounted
<1>4. Numbered(n)'
  <2>1. litter' = 1 .. n /\ intake' = n + 1 /\ work' = "preparing" /\ work = "idle" /\ n \in Nat
    BY <1>2, <1>3 DEF Numbered, Begin, MakeIntake, HostTypes
  <2>2. intakes' = intakes \cup {[id |-> n + 1, marked |-> FALSE]}
    BY <1>3 DEF Begin, MakeIntake
  <2>3. /\ intakes \subseteq [id : 1 .. n, marked : BOOLEAN]
        /\ \A k \in 1 .. n : \E d \in intakes : d.id = k
        /\ \A d, e \in intakes : d.id = e.id => d = e
    BY <2>1, <1>2 DEF Numbered
  <2>4. \A k \in 1 .. n + 1 : \E d \in intakes' : d.id = k
    <3>1. \A k \in 1 .. n + 1 : k \in 1 .. n \/ k = n + 1
      BY <2>1
    <3>2. [id |-> n + 1, marked |-> FALSE] \in intakes'
          /\ [id |-> n + 1, marked |-> FALSE].id = n + 1
      BY <2>2
    <3>3. \A k \in 1 .. n : \E d \in intakes' : d.id = k
      BY <2>2, <2>3
    <3>4. QED
      BY <3>1, <3>2, <3>3
  <2>5. \A d \in intakes : d.id \in 1 .. n
    BY <2>3
  <2>6. \A d, e \in intakes' : d.id = e.id => d = e
    <3>1. \A d \in intakes' : d \in intakes \/ d = [id |-> n + 1, marked |-> FALSE]
      BY <2>2
    <3>2. \A d \in intakes : d.id # n + 1
      BY <2>1, <2>5
    <3>3. [id |-> n + 1, marked |-> FALSE].id = n + 1
      OBVIOUS
    <3>4. QED
      BY <3>1, <3>2, <3>3, <2>3
  <2>7. intakes' \subseteq [id : 1 .. n + 1, marked : BOOLEAN]
    <3>1. \A d \in intakes : d \in [id : 1 .. n + 1, marked : BOOLEAN]
      BY <2>1, <2>3
    <3>2. [id |-> n + 1, marked |-> FALSE] \in [id : 1 .. n + 1, marked : BOOLEAN]
      BY <2>1
    <3>3. QED
      BY <3>1, <3>2, <2>2
  <2>8. QED
    BY <2>1, <2>4, <2>6, <2>7 DEF Numbered
<1>5. UNCHANGED <<import, names, durable, probes, kept, process, faults, capture, alive, excused>>
      /\ work = "idle" /\ work' = "preparing" /\ iteration <= iteration'
  BY EvidenceAssumption DEF Begin, MakeIntake, HostTypes
<1>6. Directories'
  BY <1>4, <1>5 DEF Directories, Stale
<1>7. Names'
  <2>1. iteration \in Nat /\ iteration' \in Nat /\ \A n2 \in names : n2.iteration \in Nat
    BY <1>1, EvidenceAssumption DEF HostTypes, Names, Stored
  <2>2. \A n2 \in names : n2.iteration <= iteration'
    BY <1>5, <2>1 DEF Names
  <2>3. QED
    BY <1>5, <2>2 DEF Names, As
<1>8. Placing'
  BY <1>5 DEF Placing, Directories
<1>9. Processes'
  BY <1>5 DEF Processes
<1> QED
  BY <1>1, <1>6, <1>7, <1>8, <1>9

(* Marking the intake directory keeps its number. *)
LEMMA PreparedKeeps ==
  ASSUME EvidenceInv, Prepared
  PROVE  EvidenceInv'
<1> USE DEF EvidenceInv
<1>1. UNCHANGED <<process, iteration, litter, operations, faults, capture, alive, excused, mode, aborted>>
      /\ UNCHANGED <<intake, file, import, names, durable, probes, kept>>
      /\ work = "preparing" /\ work' = "prepared"
  BY DEF Prepared, MarkIntake, HostFrame, captureVars
<1>2. HostTypes'
  BY <1>1 DEF HostTypes, Works
<1>3. PICK n \in 0 .. faults : Numbered(n)
  BY DEF Directories
<1>4. Numbered(n)'
  <2>1. /\ litter = 1 .. n /\ intake = n + 1
        /\ intakes \subseteq [id : 1 .. n + 1, marked : BOOLEAN]
        /\ \A k \in 1 .. n + 1 : \E d \in intakes : d.id = k
        /\ \A d, e \in intakes : d.id = e.id => d = e
    BY <1>1, <1>3 DEF Numbered
  <2> DEFINE mark(d) == IF d.id = intake THEN [d EXCEPT !.marked = TRUE] ELSE d
  <2>2. intakes' = {mark(d) : d \in intakes}
    BY DEF Prepared, MarkIntake
  <2>3. \A d \in intakes : mark(d) \in [id : 1 .. n + 1, marked : BOOLEAN] /\ mark(d).id = d.id
    BY <2>1
  <2> HIDE DEF mark
  <2>4. intakes' \subseteq [id : 1 .. n + 1, marked : BOOLEAN]
    BY <2>2, <2>3
  <2>5. \A k \in 1 .. n + 1 : \E d \in intakes' : d.id = k
    BY <2>1, <2>2, <2>3
  <2>6. \A d, e \in intakes' : d.id = e.id => d = e
    BY <2>1, <2>2, <2>3
  <2>7. QED
    BY <1>1, <2>1, <2>4, <2>5, <2>6 DEF Numbered
<1>5. Directories'
  BY <1>1, <1>4 DEF Directories, Stale
<1>6. Names' /\ Placing'
  BY <1>1 DEF Names, As, Placing, Entry
<1>7. Processes'
  BY <1>1 DEF Processes
<1> QED
  BY <1>2, <1>5, <1>6, <1>7

(* An operation that is cut off leaves its intake directory, the last of all. *)
LEMMA IntakeLeft ==
  ASSUME HostTypes, Directories, UNCHANGED intakes, intake' = none, work' = "idle",
         faults' = faults + 1,
         litter' = IF intake = none THEN litter ELSE litter \cup {intake}
  PROVE  \E n \in 0 .. faults' : Numbered(n)'
<1>1. PICK n \in 0 .. faults : Numbered(n)
  BY DEF Directories
<1>2. faults \in Nat /\ n \in Nat /\ n <= faults
  BY <1>1 DEF HostTypes
<1>3. CASE work = "idle"
  <2>1. n \in 0 .. faults' /\ Numbered(n)'
    BY <1>1, <1>2, <1>3 DEF Numbered, none
  <2>2. QED
    BY <2>1
<1>4. CASE work # "idle"
  <2>1. /\ litter = 1 .. n /\ intake = n + 1
        /\ intakes \subseteq [id : 1 .. n + 1, marked : BOOLEAN]
        /\ \A k \in 1 .. n + 1 : \E d \in intakes : d.id = k
        /\ \A d, e \in intakes : d.id = e.id => d = e
    BY <1>1, <1>4 DEF Numbered
  <2>2. litter' = (1 .. n) \cup {n + 1}
    BY <1>2, <2>1 DEF none
  <2>3. litter' = 1 .. n + 1 /\ n + 1 \in 0 .. faults'
    <3>1. \A k : k \in (1 .. n) \cup {n + 1} <=> k \in 1 .. n + 1
      BY <1>2
    <3>2. litter' = 1 .. n + 1
      BY <2>2, <3>1
    <3>3. n + 1 \in 0 .. faults'
      BY <1>2
    <3>4. QED
      BY <3>2, <3>3
  <2>4. Numbered(n + 1)'
    BY <2>1, <2>3 DEF Numbered
  <2>5. QED
    BY <2>3, <2>4
<1> QED
  BY <1>3, <1>4

(* An operation that cannot mark its intake directory, or cannot remove it. *)
LEMMA IntakeStaysKeeps ==
  ASSUME EvidenceInv, PrepareFails \/ CleanFails
  PROVE  EvidenceInv'
<1> USE DEF EvidenceInv
<1>1. /\ UNCHANGED <<process, iteration, operations, capture, alive, excused, mode, aborted>>
      /\ UNCHANGED <<intakes, names, durable, probes, kept>>
      /\ work \in {"preparing", "cleaning"} /\ work' = "idle"
      /\ intake' = none /\ file' = NoFile /\ import' = NoImport /\ litter' = litter \cup {intake}
  BY DEF PrepareFails, CleanFails, IntakeStays, StoreLosesProcess, captureVars
<1>2. faults' = faults + 1 /\ faults' \in 0 .. MaxFaults /\ process' \in 0 .. faults'
  BY <1>1, FaultCounts DEF PrepareFails, CleanFails
<1>3. import' \in [pc : Imports, file : Files] /\ import'.pc = "no"
  BY <1>1, NewFiles DEF NoImport, Imports
<1>4. HostTypes'
  BY <1>1, <1>2, <1>3, NewFiles DEF HostTypes, Works
<1>5. \E n \in 0 .. faults' : Numbered(n)'
  <2>1. intake # none
    BY <1>1 DEF Directories, Numbered, none
  <2>2. QED
    BY <1>1, <1>2, <2>1, IntakeLeft
<1>6. Directories'
  <2>1. import.pc = "no"
    BY <1>1 DEF Directories
  <2>2. QED
    BY <1>1, <1>3, <1>5, <2>1 DEF Directories, Stale
<1>7. Names' /\ Placing'
  BY <1>1, <1>3 DEF Names, As, Placing
<1>8. Processes'
  BY <1>1 DEF Processes
<1> QED
  BY <1>4, <1>6, <1>7, <1>8

(* The process ends, or the machine: names that were not durable may be lost, never a
   descriptor's bytes alone. *)
LEMMA EndsKeeps ==
  ASSUME EvidenceInv, Ends
  PROVE  EvidenceInv'
<1> USE DEF EvidenceInv
<1>1. /\ UNCHANGED <<iteration, operations, mode, aborted>>
      /\ UNCHANGED <<intakes, durable, probes, kept>>
      /\ process' = process + 1 /\ work' = "idle"
      /\ intake' = none /\ file' = NoFile /\ import' = NoImport
      /\ litter' = IF intake = none THEN litter ELSE litter \cup {intake}
      /\ capture' = Idle /\ alive' = {} /\ excused' = {}
  BY DEF Ends, StoreLosesProcess, CaptureOver, NamesLost
<1>2. faults' = faults + 1 /\ faults' \in 0 .. MaxFaults /\ process' \in 0 .. faults'
  BY <1>1, FaultCounts DEF Ends, HostTypes
<1>3. import' \in [pc : Imports, file : Files] /\ import'.pc = "no"
  BY <1>1, NewFiles DEF NoImport, Imports
<1>4. HostTypes'
  BY <1>1, <1>2, <1>3, NewFiles DEF HostTypes, Works, Idle, Captures
<1>5. \E n \in 0 .. faults' : Numbered(n)'
  BY <1>1, <1>2, IntakeLeft
<1>6. Directories'
  <2>1. \A d \in probes : d \in [owner : 0 .. process', marked : BOOLEAN, left : BOOLEAN] /\ d.owner # process'
    BY <1>1 DEF Directories, HostTypes
  <2>2. QED
    BY <1>1, <1>3, <1>5, <2>1 DEF Directories, Stale
<1>7. names' \subseteq names /\ durable \subseteq names'
  BY DEF Ends, NamesLost, Names
<1>8. Names'
  BY <1>1, <1>7 DEF Names, As
<1>9. Placing'
  BY <1>3 DEF Placing
<1>10. Processes'
  BY <1>1 DEF Processes, Idle
<1> QED
  BY <1>4, <1>6, <1>8, <1>9, <1>10

(* cleanup: the intake directory goes with the operation. *)
LEMMA CleanKeeps ==
  ASSUME EvidenceInv, Clean
  PROVE  EvidenceInv'
<1> USE DEF EvidenceInv
<1>1. /\ UNCHANGED <<process, iteration, litter, faults, capture, alive, excused, mode, aborted>>
      /\ UNCHANGED <<import, names, durable, probes, kept>>
      /\ work = "cleaning" /\ work' = "idle"
      /\ intakes' = {d \in intakes : d.id # intake} /\ intake' = none /\ file' = NoFile
  BY DEF Clean, RemoveIntake, HostFrame, captureVars
<1>2. HostTypes'
  BY <1>1, NewFiles DEF HostTypes, Works
<1>3. PICK n \in 0 .. faults : Numbered(n)
  BY DEF Directories
<1>4. Numbered(n)'
  <2>1. /\ litter = 1 .. n /\ intake = n + 1 /\ n \in Nat
        /\ intakes \subseteq [id : 1 .. n + 1, marked : BOOLEAN]
        /\ \A k \in 1 .. n + 1 : \E d \in intakes : d.id = k
        /\ \A d, e \in intakes : d.id = e.id => d = e
    BY <1>1, <1>3 DEF Numbered, HostTypes
  <2>2. \A d \in intakes' : d \in [id : 1 .. n, marked : BOOLEAN]
    BY <1>1, <2>1
  <2>3. \A k \in 1 .. n : \E d \in intakes' : d.id = k
    BY <1>1, <2>1
  <2>4. \A d, e \in intakes' : d.id = e.id => d = e
    BY <1>1, <2>1
  <2>5. QED
    BY <1>1, <2>1, <2>2, <2>3, <2>4 DEF Numbered
<1>5. Directories'
  BY <1>1, <1>4 DEF Directories, Stale
<1>6. Names' /\ Placing'
  BY <1>1 DEF Names, As, Placing, Entry
<1>7. Processes'
  BY <1>1 DEF Processes
<1> QED
  BY <1>2, <1>5, <1>6, <1>7

(* The operation goes on. *)
LEMMA WorkMoves ==
  ASSUME EvidenceInv, Capture \/ Captured \/ AgentRecords \/ AgentDelivers \/ Imported \/ Abort
  PROVE  EvidenceInv'
<1> USE DEF EvidenceInv, HostFrame
<1>1. MoreFaults
  BY FaultsGrow DEF Capture, StartCapture, Captured, AgentRecords, AgentDelivers, Imported, Abort, Fault
<1>2. CASE Capture
  <2>1. UNCHANGED <<process, iteration, litter, storeVars, mode, excused, aborted, faults>>
        /\ work = "prepared" /\ work' = "capturing" /\ capture.pc = "idle" /\ alive = {}
        /\ mode \in {"browser", "electron", "command"}
    BY <1>2 DEF Capture, StartCapture, Processes, HostTypes
  <2>2. capture'.pc \in {"waiting", "launching", "running", "ended"}
        /\ (capture'.pc = "ended" => alive' = {}) /\ alive' \subseteq {"command"}
        /\ capture'.tracked = {}
    BY <1>2, <2>1 DEF Capture, StartCapture, Idle
  <2>3. capture' \in [pc : Captures, error : {"no", "reason", "failed"}, cleanup : {"no", "failed"},
                      tracked : SUBSET Tree]
    BY <1>2, <2>1 DEF Capture, StartCapture, Idle, Captures
  <2>4. HostTypes'
    BY <2>1, <2>2, <2>3 DEF HostTypes, Works, storeVars, Group
  <2>5. Processes'
    BY <2>1, <2>2 DEF Processes, Tree, Group
  <2>6. import.pc = "no"
    BY <2>1 DEF Directories
  <2>7. QED
    BY <1>1, <2>1, <2>4, <2>5, <2>6, StepRests DEF Works
<1>3. CASE Captured
  <2>1. UNCHANGED <<process, iteration, litter, storeVars, mode, aborted, faults>>
        /\ work = "capturing" /\ work' \in {"importing", "cleaning"}
        /\ capture' = Idle /\ alive' = {} /\ excused' = {}
    BY <1>3 DEF Captured, CaptureOver
  <2>2. HostTypes'
    BY <2>1 DEF HostTypes, Works, storeVars, Idle, Captures
  <2>3. Processes'
    BY <2>1 DEF Processes, Idle
  <2>4. import.pc = "no"
    BY <2>1 DEF Directories
  <2>5. QED
    BY <1>1, <2>1, <2>2, <2>3, <2>4, StepRests DEF Works
<1>4. CASE AgentRecords
  <2>1. UNCHANGED <<process, iteration, litter, faults, captureVars>>
        /\ UNCHANGED <<intakes, intake, import, names, durable, probes, kept>>
        /\ work = "prepared" /\ work' = "recording" /\ file' \in Files
    BY <1>4, NewFiles DEF AgentRecords
  <2>2. HostTypes'
    BY <2>1 DEF HostTypes, Works, captureVars
  <2>3. \E n \in 0 .. faults' : Numbered(n)'
    BY <1>1, <2>1, IntakesKept
  <2>4. Directories'
    BY <2>1, <2>3 DEF Directories, Stale
  <2>5. Names' /\ Placing'
    BY <2>1 DEF Names, As, Placing, Entry
  <2>6. Processes'
    BY <2>1 DEF Processes, captureVars
  <2>7. QED
    BY <2>2, <2>4, <2>5, <2>6
<1>5. CASE AgentDelivers
  <2>1. UNCHANGED <<process, iteration, litter, faults, storeVars, captureVars>>
        /\ work = "recording" /\ work' \in {"importing", "cleaning"}
    BY <1>5 DEF AgentDelivers
  <2>2. HostTypes'
    BY <2>1 DEF HostTypes, Works, captureVars, storeVars
  <2>3. Processes'
    BY <2>1 DEF Processes, captureVars
  <2>4. import.pc = "no"
    BY <2>1 DEF Directories
  <2>5. QED
    BY <1>1, <2>1, <2>2, <2>3, <2>4, StepRests DEF Works
<1>6. CASE Imported
  <2>1. UNCHANGED <<process, iteration, litter, faults, captureVars>>
        /\ UNCHANGED <<intakes, intake, file, names, durable, probes, kept>>
        /\ work = "importing" /\ work' = "cleaning" /\ import' = NoImport
        /\ import.pc \notin {"owned", "probing"}
    BY <1>6 DEF Imported
  <2>2. import' \in [pc : Imports, file : Files] /\ import'.pc = "no"
    BY <2>1, NewFiles DEF NoImport, Imports
  <2>3. HostTypes'
    BY <2>1, <2>2 DEF HostTypes, Works, captureVars
  <2>4. \E n \in 0 .. faults' : Numbered(n)'
    BY <1>1, <2>1, IntakesKept
  <2>5. Directories'
    BY <2>1, <2>2, <2>4 DEF Directories, Stale
  <2>6. Names' /\ Placing'
    BY <2>1, <2>2 DEF Names, As, Placing
  <2>7. Processes'
    BY <2>1 DEF Processes, captureVars
  <2>8. QED
    BY <2>3, <2>5, <2>6, <2>7
<1>7. CASE Abort
  <2>1. UNCHANGED <<process, iteration, litter, storeVars, mode, capture, alive, excused, work>>
        /\ aborted' = TRUE
    BY <1>7 DEF Abort
  <2>2. HostTypes'
    BY <1>1, <2>1 DEF HostTypes, storeVars, MoreFaults
  <2>3. Processes'
    BY <2>1 DEF Processes
  <2>4. work' \in Works /\ (import.pc # "no" => work' = "importing")
    BY <2>1 DEF HostTypes, Directories
  <2>5. QED
    BY <1>1, <2>1, <2>2, <2>3, <2>4, StepRests
<1> QED
  BY <1>2, <1>3, <1>4, <1>5, <1>6, <1>7

(* The invariant holds at first. *)
LEMMA InitEvidence == InitHost => EvidenceInv
<1> SUFFICES ASSUME InitHost PROVE EvidenceInv
  OBVIOUS
<1> USE DEF InitHost, InitStore, InitCapture
<1>1. HostTypes
  <2>1. import \in [pc : Imports, file : Files]
    BY NewFiles DEF NoImport, Imports
  <2>2. capture \in [pc : Captures, error : {"no", "reason", "failed"}, cleanup : {"no", "failed"},
                     tracked : SUBSET Tree]
    BY DEF Idle, Captures
  <2>3. process \in 0 .. faults /\ faults \in 0 .. MaxFaults /\ iteration \in Iterations
    BY EvidenceAssumption
  <2>4. QED
    BY <2>1, <2>2, <2>3, NewFiles DEF HostTypes, Works
<1>2. Numbered(0) /\ 0 \in 0 .. faults
  BY DEF Numbered, none
<1>3. Directories
  BY <1>2 DEF Directories, NoImport
<1>4. Names /\ Placing
  BY DEF Names, Placing, NoImport
<1>5. Processes
  BY DEF Processes, Idle
<1> QED
  BY <1>1, <1>3, <1>4, <1>5 DEF EvidenceInv

(* Every step of captureEvidence keeps the invariant. *)
LEMMA HostKeeps ==
  ASSUME EvidenceInv, HostNext
  PROVE  EvidenceInv'
BY BeginKeeps, PreparedKeeps, IntakeStaysKeeps, WorkMoves, ImportKeeps, CleanKeeps, EndsKeeps,
   CaptureNextKeeps DEF HostNext

-----------------------------------------------------------------------------
(* What the invariant says of the names is what the promise about evidence asks. *)
LEMMA EvidenceIsKept == EvidenceInv => EvidenceKept
<1> SUFFICES ASSUME EvidenceInv PROVE EvidenceKept
  OBVIOUS
<1> USE DEF EvidenceInv
<1>1. ASSUME NEW k \in kept
      PROVE  Inspection(k.file, k.iteration) = [exists |-> TRUE, structured |-> TRUE]
  <2>1. k.what = "bytes" /\ k \in names /\ As(k, "descriptor") \in names
    BY <1>1 DEF Names
  <2>3. k \in Stored
    BY <2>1 DEF Names
  <2>4. As(k, "descriptor").file = k.file /\ As(k, "descriptor").iteration = k.iteration
        /\ As(k, "descriptor").what = "descriptor"
    BY <2>3 DEF As, Stored
  <2>5. k.iteration \in Descriptors(k.file)
    BY <2>1, <2>4 DEF Descriptors
  <2>6. k = [iteration |-> k.iteration, file |-> k.file, what |-> "bytes"]
    BY <2>1, <2>3 DEF Stored
  <2>7. StoredBytes(k.file, k.iteration)
    BY <2>1, <2>6 DEF StoredBytes
  <2>8. Acceptable(k.file)
    BY <2>1 DEF Names
  <2>9. QED
    BY <2>5, <2>7, <2>8 DEF Inspection
<1>2. ASSUME NEW n \in names PROVE Finished(n.file)
  BY AcceptedFinished DEF Names, Stored
<1>3. ASSUME NEW n \in names, n.what = "descriptor" PROVE Readable(n.file)
  <2> DEFINE D == Descriptors(n.file)
  <2>1. n.iteration \in D
    BY <1>3 DEF Descriptors
  <2>2. ASSUME NEW i \in D PROVE i \in Nat /\ i <= iteration /\ StoredBytes(n.file, i)
    <3>1. PICK m \in names : m.file = n.file /\ m.what = "descriptor" /\ i = m.iteration
      BY <2>2 DEF Descriptors
    <3>2. m \in Stored /\ As(m, "bytes") \in names
      BY <3>1 DEF Names
    <3>3. As(m, "bytes") = [iteration |-> i, file |-> n.file, what |-> "bytes"]
      BY <3>1, <3>2 DEF As, Stored
    <3>4. i \in Nat
      BY <3>1, <3>2, EvidenceAssumption DEF Stored
    <3>5. QED
      BY <3>1, <3>2, <3>3, <3>4 DEF StoredBytes, Names
  <2>3. iteration \in Nat
    BY EvidenceAssumption DEF HostTypes
  <2> HIDE DEF D
  <2>4. PICK i \in D : \A j \in D : j <= i
    BY <2>1, <2>2, <2>3, HasMax
  <2>5. QED
    BY <2>2, <2>4 DEF Readable, D
<1> QED
  BY <1>1, <1>2, <1>3 DEF EvidenceKept

(* What the invariant says of processes and directories is what the promise about
   captures asks. *)
LEMMA NothingIsLeft == EvidenceInv => CaptureLeavesNothing
<1> SUFFICES ASSUME EvidenceInv PROVE CaptureLeavesNothing
  OBVIOUS
<1> USE DEF EvidenceInv
<1>1. capture.pc = "ended" => alive \subseteq excused
  BY DEF Processes, HostTypes
<1>2. ASSUME work = "idle" PROVE {d.id : d \in intakes} = litter
  <2>1. PICK n \in 0 .. faults : Numbered(n)
    BY DEF Directories
  <2>2. /\ litter = 1 .. n
        /\ intakes \subseteq [id : 1 .. n, marked : BOOLEAN]
        /\ \A k \in 1 .. n : \E d \in intakes : d.id = k
    BY <1>2, <2>1 DEF Numbered
  <2>3. \A d \in intakes : d.id \in 1 .. n
    BY <2>2
  <2>4. QED
    BY <2>2, <2>3
<1>3. work = "idle" => \A d \in probes : d.owner # process \/ d.left
  BY DEF Directories
<1>4. import.pc \in {"owned", "probing"} => \A d \in probes : ~Stale(d) \/ d.left
  BY DEF Directories
<1> QED
  BY <1>1, <1>2, <1>3, <1>4 DEF CaptureLeavesNothing

(* A set of capabilities is finite, and grows by what it is given anew. *)
LEMMA SetsOfCapabilities ==
  ASSUME NEW S, S \subseteq AgentCapability, NEW R, R \subseteq AgentCapability
  PROVE  /\ IsFiniteSet(S) /\ Cardinality(S) \in Nat
         /\ R \ S # {} => Cardinality(S \cup R) >= Cardinality(S) + 1
<1>1. IsFiniteSet(AgentCapability)
  <2>1. IsFiniteSet({"HOST_EXECUTION"}) /\ IsFiniteSet({"NETWORK_ACCESS"})
    BY FS_Singleton
  <2>2. AgentCapability = {"HOST_EXECUTION"} \cup {"NETWORK_ACCESS"}
    BY DEF AgentCapability
  <2>3. QED
    BY <2>1, <2>2, FS_Union
<1>2. IsFiniteSet(S) /\ IsFiniteSet(S \cup R)
  BY <1>1, FS_Subset
<1>3. Cardinality(S) \in Nat /\ Cardinality(S \cup R) \in Nat
  BY <1>2, FS_CardinalityType
<1>4. Cardinality(S) <= Cardinality(S \cup R)
      /\ (Cardinality(S \cup R) = Cardinality(S) => S \cup R = S)
  BY <1>2, FS_Subset
<1> QED
  BY <1>2, <1>3, <1>4

(* availableCapabilities and the sandbox policy: what a turn is promised it may do, what
   was granted it is promised, and the host or the network it has only by a grant, by
   its stage or by the mode of the project. *)
LEMMA TurnAllowed ==
  ASSUME NEW allowed \in PermissionModes, NEW grants \in SUBSET AgentCapability,
         NEW stage \in AgentStages,
         NEW has, has = Available(allowed, grants, stage),
         NEW may, may = SandboxPolicy(Options(allowed, grants, stage))
  PROVE  /\ has \subseteq may /\ has \in SUBSET AgentCapability /\ may \in SUBSET AgentCapability
         /\ grants \subseteq has
         /\ allowed = "full-access" => has = AgentCapability
         /\ "HOST_EXECUTION" \in may => "HOST_EXECUTION" \in grants \/ allowed = "full-access"
         /\ "NETWORK_ACCESS" \in may => stage = "REPAIR" \/ grants # {} \/ allowed = "full-access"
BY DEF Available, SandboxPolicy, Options, PermissionModes, AgentCapability, AgentStages, Default

(* A stage is queued with the event that tells why. *)
LEMMA EventQueued ==
  ASSUME PermissionTypes, NEW stage \in AgentStages, NEW reason \in Reasons,
         NEW capabilities \in SUBSET AgentCapability, Queued(stage, reason, capabilities)
  PROVE  /\ row' \in Rows /\ row'.event.reason = reason
         /\ row'.event.capabilities = capabilities /\ row'.queued = stage
BY DEF PermissionTypes, Rows, Queued

(* A save that only moves the row's revision. *)
LEMMA RowKept ==
  ASSUME PermissionTypes, row' = [row EXCEPT !.revision = @ + 1]
  PROVE  row' \in Rows /\ row'.event = row.event /\ row'.queued = row.queued
BY DEF PermissionTypes, Rows

(* What a stage that is not under way has. *)
LEMMA NobodyWorks ==
  /\ Idle0 \in Attempts /\ Idle0.pc = "idle" /\ Idle0.outcome = nothing /\ Idle0.mode = nothing
BY DEF Idle0, Attempts, Reasons, nothing

(* A stage ends, with its result or a failure. *)
LEMMA StageIsOver ==
  ASSUME PermissionInv, attempt.pc = "turn", NEW outcome \in {"result", "failed"}, Over(outcome),
         UNCHANGED <<permissionMode, granted, request, asked>>
  PROVE  PermissionInv'
<1> USE DEF PermissionInv
<1>1. row' \in Rows /\ row'.event = row.event /\ row'.queued = row.queued
  BY RowKept DEF Over
<1>2. attempt.stage \in AgentStages /\ request = {} /\ row.queued = nothing
  BY DEF Attempted, Asking, Idle0
<1>3. attempt' \in Attempts /\ attempt'.pc = "idle" /\ attempt'.stage = attempt.stage
      /\ attempt'.outcome = outcome
  <2>1. attempt' = [Idle0 EXCEPT !.stage = attempt.stage, !.outcome = outcome]
    BY DEF Over
  <2>2. QED
    BY <1>2, <2>1, NobodyWorks DEF Attempts
<1>4. PermissionTypes'
  BY <1>1, <1>3 DEF PermissionTypes
<1>5. Granted'
  BY <1>1 DEF Granted
<1>6. Attempted'
  BY <1>1, <1>2, <1>3 DEF Attempted
<1>7. Asking'
  BY <1>2, <1>3 DEF Asking
<1> QED
  BY <1>4, <1>5, <1>6, <1>7

(* A turn that is corrected is the second of its stage. *)
LEMMA TurnCorrected ==
  ASSUME PermissionInv, attempt.pc = "turn", Corrects,
         UNCHANGED <<permissionMode, granted, request, asked, row>>
  PROVE  PermissionInv'
<1> USE DEF PermissionInv
<1>1. /\ attempt' \in Attempts /\ attempt'.turns = 2
      /\ attempt'.pc = attempt.pc /\ attempt'.stage = attempt.stage /\ attempt'.mode = attempt.mode
      /\ attempt'.has = attempt.has /\ attempt'.may = attempt.may /\ attempt'.told = attempt.told
      /\ attempt'.outcome = attempt.outcome
  BY DEF PermissionTypes, Attempts, Corrects
<1>2. PermissionTypes'
  BY <1>1 DEF PermissionTypes
<1>3. Granted'
  BY DEF Granted
<1>4. row.queued = nothing
  BY DEF Attempted, Idle0
<1>5. Attempted'
  BY <1>1, <1>4 DEF Attempted
<1>6. Asking'
  BY <1>1 DEF Asking
<1> QED
  BY <1>2, <1>3, <1>5, <1>6

(* A stage is queued without a grant, and none is under way. *)
LEMMA StageQueued ==
  ASSUME PermissionInv, attempt.pc # "asking", NEW stage \in AgentStages, attempt' = Idle0,
         row' \in Rows, row'.queued = stage,
         \/ row'.event = row.event
         \/ row'.event.reason # "CAPABILITY_GRANTED",
         UNCHANGED <<permissionMode, granted, request, asked>>
  PROVE  PermissionInv'
<1> USE DEF PermissionInv
<1>1. PermissionTypes'
  BY NobodyWorks DEF PermissionTypes
<1>2. Granted'
  BY DEF Granted
<1>3. Attempted'
  BY NobodyWorks DEF Attempted
<1>4. Asking'
  BY NobodyWorks DEF Asking
<1> QED
  BY <1>1, <1>2, <1>3, <1>4

(* A stage begins with what has been granted by then. *)
LEMMA BeginStageKeeps ==
  ASSUME PermissionInv, BeginStage
  PROVE  PermissionInv'
<1> USE DEF PermissionInv
<1>1. row.queued \in AgentStages /\ request = {} /\ attempt.pc = "idle"
  BY DEF BeginStage, PermissionTypes, Rows, Asking
<1>2. row' \in Rows /\ row'.event = row.event /\ row'.queued = nothing
  BY DEF BeginStage, PermissionTypes, Rows
<1> DEFINE has == Available(permissionMode, granted, row.queued)
           may == SandboxPolicy(Options(permissionMode, granted, row.queued))
           told == Continuation
<1>3. has \in SUBSET AgentCapability /\ may \in SUBSET AgentCapability
  BY <1>1, TurnAllowed DEF PermissionTypes
<1>4. told \in Reasons /\ (told = "CAPABILITY_GRANTED" => row.event.reason = "CAPABILITY_GRANTED")
  BY DEF Continuation, PermissionTypes, Rows, Reasons, nothing
<1>5. attempt' = [pc |-> "turn", stage |-> row.queued, mode |-> permissionMode, has |-> has,
                  told |-> told, may |-> may, turns |-> 1, outcome |-> nothing]
  BY DEF BeginStage, Prompt
<1>6. UNCHANGED <<permissionMode, granted, request, asked>>
  BY DEF BeginStage
<1> HIDE DEF has, may, told
<1>7. attempt' \in Attempts
  BY <1>1, <1>3, <1>4, <1>5 DEF Attempts, PermissionTypes
<1>8. PermissionTypes'
  BY <1>2, <1>6, <1>7 DEF PermissionTypes
<1>9. Granted'
  BY <1>2, <1>6 DEF Granted
<1>10. Attempted'
  BY <1>1, <1>2, <1>4, <1>5, <1>6 DEF Attempted, PermissionTypes, has, may
<1>11. Asking'
  BY <1>1, <1>5, <1>6 DEF Asking
<1> QED
  BY <1>8, <1>9, <1>10, <1>11

(* A turn that fails keeps the invariant. *)
LEMMA TurnFailsKeeps ==
  ASSUME PermissionInv, NEW error \in Errors, TurnFails(error)
  PROVE  PermissionInv'
BY StageIsOver, TurnCorrected DEF TurnFails, PermissionFrame

(* A human is asked for what the stage lacks, and no capability was asked for before
   that is lacking still. *)
LEMMA AsksKeeps ==
  ASSUME PermissionInv, NEW output \in Envelopes, attempt.pc = "turn", Check(output) = "NEW",
         ~(Requests(output) /\ RequestRefused(output)),
         Asks(output.request \ attempt.has), PermissionFrame
  PROVE  PermissionInv'
<1> USE DEF PermissionInv
<1>1. Requests(output) /\ ~(output.request \subseteq attempt.has) /\ attempt.mode # "auto-review"
  BY DEF Check
<1>2. output.request \subseteq AgentCapability
  <2>1. output.request \in (SUBSET AgentCapability) \cup {{"bad"}}
    BY DEF Envelopes
  <2>2. output.request # {"bad"}
    BY <1>1 DEF RequestRefused
  <2>3. QED
    BY <2>1, <2>2
<1>3. attempt.stage \in AgentStages /\ attempt.mode \in PermissionModes
      /\ attempt.has = Available(attempt.mode, granted, attempt.stage) /\ row.queued = nothing
      /\ request = {} /\ asked <= Cardinality(granted) /\ attempt.outcome = nothing
  <2>1. asked \in Nat /\ Cardinality(granted) \in Nat
    BY SetsOfCapabilities DEF PermissionTypes
  <2>2. attempt.stage \in AgentStages /\ attempt.mode \in PermissionModes
        /\ attempt.has = Available(attempt.mode, granted, attempt.stage)
        /\ attempt.outcome = nothing
    BY DEF Attempted
  <2>3. row.queued = nothing
    BY NobodyWorks DEF Attempted
  <2>4. request = {} /\ asked <= Cardinality(granted)
    BY <2>1 DEF Asking
  <2>5. QED
    BY <2>2, <2>3, <2>4
<1>4. granted \subseteq attempt.has /\ (attempt.mode = "full-access" => attempt.has = AgentCapability)
  BY <1>3, TurnAllowed DEF PermissionTypes
<1>5. attempt.mode = "request-approval"
  BY <1>1, <1>2, <1>3, <1>4 DEF PermissionModes
<1>6. /\ attempt' \in Attempts /\ attempt'.pc = "asking"
      /\ attempt'.stage = attempt.stage /\ attempt'.mode = attempt.mode
      /\ attempt'.has = attempt.has /\ attempt'.may = attempt.may /\ attempt'.told = attempt.told
      /\ attempt'.outcome = attempt.outcome
  BY DEF PermissionTypes, Attempts, Asks
<1>7. row' \in Rows /\ row'.event = row.event /\ row'.queued = row.queued
  BY RowKept DEF Asks
<1>8. request' \subseteq AgentCapability /\ request' # {} /\ request' \cap attempt.has = {}
      /\ asked' = asked + 1 /\ UNCHANGED <<permissionMode, granted>>
  BY <1>1, <1>2, <1>4 DEF Asks, PermissionFrame
<1>9. PermissionTypes'
  BY <1>6, <1>7, <1>8 DEF PermissionTypes
<1>10. Granted'
  BY <1>7, <1>8 DEF Granted
<1>11. Attempted'
  BY <1>3, <1>6, <1>7, <1>8 DEF Attempted
<1>12. Asking'
  <2>1. asked \in Nat /\ Cardinality(granted) \in Nat
    BY SetsOfCapabilities DEF PermissionTypes
  <2>2. QED
    BY <1>3, <1>5, <1>6, <1>8, <2>1 DEF Asking
<1> QED
  BY <1>9, <1>10, <1>11, <1>12

(* A turn that returns its envelope keeps the invariant. *)
LEMMA TurnReturnsKeeps ==
  ASSUME PermissionInv, NEW output \in Envelopes, TurnReturns(output)
  PROVE  PermissionInv'
<1>1. attempt.pc = "turn" /\ UNCHANGED <<permissionMode, granted>>
  BY DEF TurnReturns, PermissionFrame
<1>2. CASE Check(output) = "NEW" /\ Asks(output.request \ attempt.has)
           /\ ~(Requests(output) /\ RequestRefused(output))
  BY <1>1, <1>2, AsksKeeps DEF PermissionFrame
<1>3. CASE (\E outcome \in {"result", "failed"} : Over(outcome)) /\ UNCHANGED <<request, asked>>
  BY <1>1, <1>3, StageIsOver
<1>4. CASE Corrects /\ UNCHANGED row /\ UNCHANGED <<request, asked>>
  BY <1>1, <1>4, TurnCorrected
<1> QED
  BY <1>2, <1>3, <1>4 DEF TurnReturns

(* A stage that is queued keeps the invariant. *)
LEMMA QueueStageKeeps ==
  ASSUME PermissionInv, NEW stage \in AgentStages, QueueStage(stage)
  PROVE  PermissionInv'
<1> USE DEF PermissionInv
<1>1. attempt.pc = "idle" /\ attempt' = Idle0 /\ UNCHANGED <<permissionMode, granted, request, asked>>
  BY DEF QueueStage, Attempted, PermissionFrame
<1>2. CASE Queued(stage, "REVIEW_SUBMITTED", {})
  <2>1. row' \in Rows /\ row'.event.reason # "CAPABILITY_GRANTED" /\ row'.queued = stage
    BY <1>2, EventQueued DEF Reasons
  <2>2. QED
    BY <1>1, <2>1, StageQueued
<1>3. CASE row' = [row EXCEPT !.revision = @ + 1, !.queued = stage]
  <2>1. row' \in Rows /\ row'.event = row.event /\ row'.queued = stage
    <3>1. row.revision + 1 \in Nat /\ row \in Rows
      BY DEF PermissionTypes, Rows
    <3>2. row' = [revision |-> row.revision + 1, queued |-> stage, event |-> row.event]
      BY <1>3, <3>1 DEF Rows
    <3>3. QED
      BY <3>1, <3>2 DEF Rows
  <2>2. QED
    BY <1>1, <2>1, StageQueued
<1> QED
  BY <1>2, <1>3 DEF QueueStage

(* A grant makes up for the question: what is granted was lacking. *)
LEMMA GrantKeeps ==
  ASSUME PermissionInv, Grant
  PROVE  PermissionInv'
<1> USE DEF PermissionInv
<1>1. /\ attempt.pc = "asking" /\ attempt.stage \in AgentStages /\ attempt.mode \in PermissionModes
      /\ request # {} /\ request \subseteq AgentCapability /\ request \cap attempt.has = {}
      /\ attempt.has = Available(attempt.mode, granted, attempt.stage)
  BY DEF Grant, Attempted, Asking, PermissionTypes
<1>2. granted \subseteq attempt.has /\ granted \subseteq AgentCapability
  BY <1>1, TurnAllowed DEF PermissionTypes
<1>3. granted' = granted \cup request /\ request' = {} /\ attempt' = Idle0
      /\ UNCHANGED <<permissionMode, asked>>
  BY DEF Grant
<1>4. row' \in Rows /\ row'.event.capabilities = request /\ row'.queued = attempt.stage
  BY <1>1, EventQueued DEF Grant, Reasons
<1>5. PermissionTypes'
  BY <1>1, <1>2, <1>3, <1>4, NobodyWorks DEF PermissionTypes
<1>6. Granted'
  BY <1>3, <1>4 DEF Granted
<1>7. Attempted'
  BY <1>3, NobodyWorks DEF Attempted
<1>8. Asking'
  <2>1. Cardinality(granted) \in Nat /\ Cardinality(granted') >= Cardinality(granted) + 1
        /\ Cardinality(granted') \in Nat
    <3>1. request \ granted # {} /\ granted \cup request \subseteq AgentCapability
      BY <1>1, <1>2
    <3>2. QED
      BY <1>1, <1>2, <1>3, <3>1, SetsOfCapabilities
  <2>2. asked \in Nat /\ asked <= Cardinality(granted) + 1
    BY <1>1 DEF Asking, PermissionTypes
  <2>3. attempt'.pc = "idle" /\ asked' <= Cardinality(granted')
    BY <1>3, <2>1, <2>2, NobodyWorks
  <2>4. asked' <= Cardinality(granted') + 0
    BY <2>1, <2>3
  <2>5. QED
    BY <1>3, <2>3, <2>4 DEF Asking
<1> QED
  BY <1>5, <1>6, <1>7, <1>8

(* Every step that has to do with permissions keeps the invariant. *)
LEMMA PermissionKeeps ==
  ASSUME PermissionInv, PermissionNext
  PROVE  PermissionInv'
<1> USE DEF PermissionInv
<1>1. CASE InterruptStage
  <2>1. PICK reason \in {"USER_RESUMED", "RUNTIME_INTERRUPTED"} : Queued(attempt.stage, reason, {})
    BY <1>1 DEF InterruptStage
  <2>2. attempt.pc = "turn" /\ attempt.stage \in AgentStages /\ attempt' = Idle0
        /\ UNCHANGED <<permissionMode, granted, request, asked>>
    BY <1>1 DEF InterruptStage, Attempted, PermissionFrame
  <2>3. row' \in Rows /\ row'.event.reason # "CAPABILITY_GRANTED" /\ row'.queued = attempt.stage
    BY <2>1, <2>2, EventQueued DEF Reasons
  <2>4. QED
    BY <2>2, <2>3, StageQueued
<1>2. CASE JoinInput
  <2>1. row' \in Rows /\ row'.event = row.event /\ row'.queued = row.queued
        /\ UNCHANGED <<permissionMode, granted, request, attempt, asked>>
    BY <1>2, RowKept DEF JoinInput, PermissionFrame
  <2>2. QED
    BY <2>1 DEF PermissionTypes, Granted, Attempted, Asking
<1>3. CASE SetPermissionMode
  BY <1>3 DEF SetPermissionMode, PermissionTypes, Granted, Attempted, Asking
<1> QED
  BY <1>1, <1>2, <1>3, BeginStageKeeps, GrantKeeps, QueueStageKeeps, TurnFailsKeeps, TurnReturnsKeeps
  DEF PermissionNext

(* The invariant holds at first. *)
LEMMA InitPermissionHolds == InitPermission => PermissionInv
<1> SUFFICES ASSUME InitPermission PROVE PermissionInv
  OBVIOUS
<1> USE DEF InitPermission
<1>1. row \in Rows /\ row.event.reason = nothing /\ row.queued = "ASSESSMENT"
  BY DEF Rows, NoEvent, Reasons, AgentStages
<1>2. PermissionTypes
  BY <1>1, NobodyWorks DEF PermissionTypes
<1>3. Granted /\ Attempted
  BY <1>1, NobodyWorks DEF Granted, Attempted, nothing
<1>4. Asking
  <2>1. Cardinality(granted) \in Nat
    BY SetsOfCapabilities
  <2>2. attempt.pc = "idle" /\ request = {} /\ asked = 0
    BY NobodyWorks
  <2>3. asked <= Cardinality(granted) + 0
    BY <2>1, <2>2
  <2>4. QED
    BY <2>2, <2>3 DEF Asking
<1> QED
  BY <1>2, <1>3, <1>4 DEF PermissionInv

(* What the invariant says of permissions is what the prompt promises and more. *)
LEMMA OnlyPermitted == PermissionInv => PermittedOnly
<1> SUFFICES ASSUME PermissionInv PROVE PermittedOnly
  OBVIOUS
<1> USE DEF PermissionInv
<1>1. ASSUME attempt.pc = "turn"
      PROVE  /\ attempt.turns <= 2
             /\ attempt.has \subseteq attempt.may
             /\ "HOST_EXECUTION" \in attempt.may =>
                  "HOST_EXECUTION" \in granted \/ attempt.mode = "full-access"
             /\ "NETWORK_ACCESS" \in attempt.may =>
                  attempt.stage = "REPAIR" \/ granted # {} \/ attempt.mode = "full-access"
             /\ attempt.told = "CAPABILITY_GRANTED" => row.event.capabilities \subseteq attempt.has
  <2>1. attempt.stage \in AgentStages /\ attempt.mode \in PermissionModes
        /\ attempt.has = Available(attempt.mode, granted, attempt.stage)
        /\ attempt.may = SandboxPolicy(Options(attempt.mode, granted, attempt.stage))
        /\ granted \in SUBSET AgentCapability
    BY <1>1 DEF Attempted, PermissionTypes
  <2>2. attempt.turns <= 2
    BY DEF PermissionTypes, Attempts
  <2>3. attempt.told = "CAPABILITY_GRANTED" => row.event.capabilities \subseteq granted
    BY <1>1 DEF Attempted, Granted
  <2>4. QED
    BY <2>1, <2>2, <2>3, TurnAllowed
<1>2. asked <= Cardinality(granted) + Cardinality({s \in {attempt.pc} : s = "asking"})
  <2>1. CASE attempt.pc = "asking"
    <3>1. {s \in {attempt.pc} : s = "asking"} = {"asking"}
      BY <2>1
    <3>2. Cardinality({"asking"}) = 1
      BY FS_Singleton
    <3>3. QED
      BY <2>1, <3>1, <3>2 DEF Asking
  <2>2. CASE attempt.pc # "asking"
    <3>1. {s \in {attempt.pc} : s = "asking"} = {}
      BY <2>2
    <3>2. QED
      BY <2>2, <3>1, FS_EmptySet DEF Asking
  <2> QED
    BY <2>1, <2>2
<1> QED
  BY <1>1, <1>2 DEF PermittedOnly, Asking

(* Where the first or the last end of a line is, in a text that may have none. *)
LEMMA Positions ==
  ASSUME NEW text \in Text, NEW ends
  PROVE  Position(text, ends) \in 0 .. Len(text)
<1> DEFINE at == {k \in 1 .. Len(text) : text[k] = "n"}
<1>1. at \subseteq Nat /\ Len(text) \in Nat /\ \A k \in at : k <= Len(text)
  BY DEF Text
<1>2. CASE at = {}
  BY <1>1, <1>2 DEF Position
<1>3. CASE at # {}
  <2>1. (\E k \in at : \A other \in at : k <= other) /\ (\E k \in at : \A other \in at : other <= k)
    <3> HIDE DEF at
    <3> QED
      BY <1>1, <1>3, HasMin, HasMax
  <2>2. \E k \in at : \A other \in at : IF ends = "first" THEN k <= other ELSE k >= other
    BY <1>1, <2>1
  <2>3. Position(text, ends) = CHOOSE k \in at :
         \A other \in at : IF ends = "first" THEN k <= other ELSE k >= other
    BY <1>3 DEF Position
  <2>4. Position(text, ends) \in at
    BY <2>2, <2>3
  <2>5. QED
    BY <2>4
<1> QED
  BY <1>2, <1>3

(* The rest of a text is a text. *)
LEMMA RestOf ==
  ASSUME NEW text \in Text, NEW k \in 0 .. Len(text)
  PROVE  Rest(text, k) \in Text
BY DEF Text, Rest

(* What a delta leaves of a stream: a buffer that is new is no longer than it may be, and
   there is none while the rest of a line is discarded. *)
LEMMA Consumed ==
  ASSUME NEW stream \in Streams, NEW delta \in Text, Len(stream.buffer) <= Unterminated,
         NEW next, next = Consume(stream, delta).stream
  PROVE  /\ next \in Streams /\ next.summaryOnly = stream.summaryOnly
         /\ next.buffer # stream.buffer => Len(next.buffer) <= Unterminated
         /\ next = stream \/ (next.buffer # <<>> => ~next.discarding /\ ~next.summaryOnly)
<1> DEFINE newline == Position(delta, "first")
           ended == stream.discarding /\ newline # 0
           text == stream.buffer \o IF ended THEN Rest(delta, newline) ELSE delta
           rest == Rest(text, Position(text, "last"))
           long == Len(rest) > Unterminated
<1>1. newline \in 0 .. Len(delta)
  BY Positions
<1>2. Rest(delta, newline) \in Text
  BY <1>1, RestOf
<1>3. text \in Text
  BY <1>2 DEF Streams, Text
<1>4. Position(text, "last") \in 0 .. Len(text)
  <2> HIDE DEF text
  <2> QED
    BY <1>3, Positions
<1>5. rest \in Text
  <2> HIDE DEF text
  <2> QED
    BY <1>3, <1>4, RestOf
<1>6. next = IF stream.summaryOnly \/ (stream.discarding /\ ~ended) THEN stream
             ELSE [stream EXCEPT !.buffer = IF long THEN <<>> ELSE rest, !.discarding = long]
  BY DEF Consume
<1>7. Len(rest) \in Nat /\ <<>> \in Text /\ long \in BOOLEAN
  BY <1>5 DEF Text
<1> HIDE DEF newline, ended, text, rest
<1>8. CASE next = stream
  BY <1>8
<1>9. CASE next # stream
  <2>1. next = [stream EXCEPT !.buffer = IF long THEN <<>> ELSE rest, !.discarding = long]
        /\ ~stream.summaryOnly
    BY <1>6, <1>9
  <2>2. next.buffer = (IF long THEN <<>> ELSE rest) /\ next.discarding = long
        /\ next.summaryOnly = stream.summaryOnly
    BY <2>1 DEF Streams
  <2>3. next \in Streams
    BY <1>5, <1>7, <2>1 DEF Streams
  <2>4. Len(next.buffer) <= Unterminated
    BY <1>7, <2>2, ActivityAssumption
  <2>5. QED
    BY <2>1, <2>2, <2>3, <2>4
<1> QED
  BY <1>8, <1>9

(* What a turn that has had no output keeps of it. *)
LEMMA NothingStreamed ==
  /\ NoStream \in Streams /\ NoStream.buffer = <<>> /\ Len(<<>>) = 0
  /\ NoStreams \in [1 .. MaxCommands -> Streams]
  /\ \A id \in 1 .. MaxCommands : NoStreams[id] = NoStream
  /\ <<>> \in Seq(Commands) /\ <<>> \in Text
<1>1. NoStream \in Streams /\ NoStream.buffer = <<>> /\ Len(<<>>) = 0
  BY DEF NoStream, Streams, Text
<1> QED
  BY <1>1 DEF NoStreams, Text

(* A step that leaves the streams of a turn, whether the turn goes on or not. *)
LEMMA StreamsKept ==
  ASSUME ActivityInv, working' \in BOOLEAN, stages' \in 1 .. MaxTurns, turns' \in 0 .. MaxTurns,
         run' \in {"idle", "running", "ending", "aborted", "lost"},
         UNCHANGED <<commands, streams>>, run' = "running" => run = "running" \/ commands = <<>>,
         run' \in {"idle", "lost"} => run \in {"idle", "lost"}
  PROVE  ActivityInv'
<1>1. ActivityTypes'
  BY DEF ActivityInv, ActivityTypes
<1>2. \A id \in 1 .. MaxCommands : Buffered(id)'
  <2>1. ASSUME NEW id \in 1 .. MaxCommands, run # "running", commands = <<>>
        PROVE  ~(id <= Len(commands))
    BY <2>1
  <2>2. QED
    BY <2>1 DEF ActivityInv, Buffered
<1> QED
  BY <1>1, <1>2 DEF ActivityInv

(* A step that clears them, whose turn is over. *)
LEMMA StreamsCleared ==
  ASSUME ActivityInv, UNCHANGED <<working, stages, turns>>,
         run' \in {"idle", "ending", "lost"}, streams' = NoStreams,
         commands' = <<>> \/ (UNCHANGED commands /\ run' = "ending")
  PROVE  ActivityInv'
<1>1. ActivityTypes'
  <2>1. commands' \in Seq(Commands) /\ Len(commands') <= MaxCommands
    <3>1. CASE commands' = <<>>
      BY <3>1, NothingStreamed, ActivityAssumption
    <3>2. CASE UNCHANGED commands
      BY <3>2 DEF ActivityInv, ActivityTypes
    <3> QED
      BY <3>1, <3>2
  <2>2. QED
    BY <2>1, NothingStreamed DEF ActivityInv, ActivityTypes
<1>2. \A id \in 1 .. MaxCommands : Buffered(id)'
  BY NothingStreamed, ActivityAssumption DEF Buffered
<1> QED
  BY <1>1, <1>2 DEF ActivityInv

(* A step about one command of the turn that runs. *)
LEMMA CommandStep ==
  ASSUME ActivityInv, run = "running", UNCHANGED <<working, stages, turns, run>>,
         NEW id \in 1 .. MaxCommands, NEW command \in Commands, NEW stream \in Streams,
         \/ commands' = Append(commands, command) /\ id = Len(commands) + 1
         \/ commands' = [commands EXCEPT ![id] = command] /\ id <= Len(commands),
         streams' = [streams EXCEPT ![id] = stream],
         Len(stream.buffer) <= Unterminated,
         stream.buffer # <<>> =>
           command.state = "running" /\ ~stream.discarding /\ ~stream.summaryOnly,
         command.kind = "skill" => stream.summaryOnly
  PROVE  ActivityInv'
<1>1. /\ commands \in Seq(Commands) /\ Len(commands) \in Nat /\ Len(commands) <= MaxCommands
      /\ streams \in [1 .. MaxCommands -> Streams] /\ MaxCommands \in Nat
  BY ActivityAssumption DEF ActivityInv, ActivityTypes
<1>2. /\ commands' \in Seq(Commands) /\ Len(commands') \in Nat /\ Len(commands') <= MaxCommands
      /\ Len(commands) <= Len(commands') /\ id <= Len(commands')
      /\ commands'[id] = command
      /\ \A other \in 1 .. MaxCommands \ {id} :
           /\ other <= Len(commands') <=> other <= Len(commands)
           /\ other <= Len(commands) => commands'[other] = commands[other]
  <2>1. CASE commands' = Append(commands, command) /\ id = Len(commands) + 1
    BY <1>1, <2>1
  <2>2. CASE commands' = [commands EXCEPT ![id] = command] /\ id <= Len(commands)
    BY <1>1, <2>2
  <2> QED
    BY <2>1, <2>2
<1>3. /\ streams' \in [1 .. MaxCommands -> Streams] /\ streams'[id] = stream
      /\ \A other \in 1 .. MaxCommands \ {id} : streams'[other] = streams[other]
  BY <1>1
<1>4. ActivityTypes'
  BY <1>2, <1>3 DEF ActivityInv, ActivityTypes
<1>5. Buffered(id)'
  BY <1>2, <1>3 DEF Buffered
<1>6. ASSUME NEW other \in 1 .. MaxCommands \ {id} PROVE Buffered(other)'
  <2>1. Buffered(other)
    BY DEF ActivityInv
  <2>2. QED
    BY <1>2, <1>3, <2>1 DEF Buffered
<1> QED
  BY <1>4, <1>5, <1>6 DEF ActivityInv

(* Output and what is added to it are texts. *)
LEMMA NewText ==
  /\ \A delta \in Deltas : delta \in Text
  /\ \A text \in Text, delta \in Deltas : text \o delta \in Text
<1>1. <<"x">> \in Text /\ <<"n", "x">> \in Text
  BY DEF Text
<1>2. \A delta \in Deltas : delta \in Text
  BY <1>1 DEF Deltas
<1> QED
  BY <1>2 DEF Text

(* A command starts with an empty stream. *)
LEMMA StartCommandKeeps ==
  ASSUME ActivityInv, NEW kind \in CommandKinds, StartCommand(kind)
  PROVE  ActivityInv'
<1> DEFINE id == Len(commands) + 1
           command == [kind |-> kind, state |-> "running", output |-> <<>>, late |-> FALSE]
           stream == [streams[id] EXCEPT !.summaryOnly = (kind = "skill")]
<1>1. /\ run = "running" /\ UNCHANGED <<working, stages, turns, run>>
      /\ commands' = Append(commands, command) /\ Len(commands) < MaxCommands
  BY DEF StartCommand, Reports, ActivityFrame
<1>2. Len(commands) \in Nat /\ id \in 1 .. MaxCommands
      /\ streams \in [1 .. MaxCommands -> Streams] /\ streams[id] \in Streams
  BY <1>1, ActivityAssumption DEF ActivityInv, ActivityTypes
<1>3. streams' = [streams EXCEPT ![id] = stream]
  <2>1. streams' = [streams EXCEPT ![id].summaryOnly = (kind = "skill")]
    BY DEF StartCommand
  <2>2. QED
    BY <2>1, <1>2 DEF Streams
<1>4. streams[id].buffer = <<>>
  BY <1>2 DEF ActivityInv, Buffered
<1>5. /\ stream \in Streams /\ stream.buffer = <<>> /\ stream.summaryOnly = (kind = "skill")
  BY <1>2, <1>4 DEF Streams
<1>6. /\ command \in Commands /\ command.kind = kind /\ Len(<<>>) <= Unterminated
  BY NothingStreamed, ActivityAssumption DEF Commands
<1>7. id = Len(commands) + 1
  OBVIOUS
<1> HIDE DEF id, command, stream
<1> QED
  BY <1>1, <1>2, <1>3, <1>5, <1>6, <1>7, CommandStep

(* A delta of a command that is streamed. *)
LEMMA OutputKeeps ==
  ASSUME ActivityInv, NEW id \in 1 .. Len(commands), NEW delta \in Deltas, Output(id, delta)
  PROVE  ActivityInv'
<1> DEFINE command == IF commands[id].state = "running"
                        THEN [commands[id] EXCEPT !.output = @ \o delta]
                        ELSE [commands[id] EXCEPT !.late = TRUE]
           stream == Consume(streams[id], delta).stream
<1>1. /\ run = "running" /\ UNCHANGED <<working, stages, turns, run>>
      /\ commands[id].state = "running" \/ commands[id].kind = "skill"
  BY DEF Output, Reports, ActivityFrame
<1>2. /\ commands \in Seq(Commands) /\ Len(commands) \in Nat /\ id \in 1 .. MaxCommands
      /\ id <= Len(commands) /\ commands[id] \in Commands
      /\ streams \in [1 .. MaxCommands -> Streams] /\ streams[id] \in Streams /\ Buffered(id)
  BY ActivityAssumption DEF ActivityInv, ActivityTypes
<1>3. commands' = [commands EXCEPT ![id] = command]
  <2>1. CASE commands[id].state = "running"
    <3>1. command = [commands[id] EXCEPT !.output = commands[id].output \o delta]
      BY <2>1
    <3>2. commands' = [commands EXCEPT ![id] = [commands[id] EXCEPT !.output = @ \o delta]]
      BY <2>1, <1>2 DEF Output
    <3>3. QED
      BY <3>1, <3>2
  <2>2. CASE commands[id].state # "running"
    BY <2>2, <1>2 DEF Output
  <2> QED
    BY <2>1, <2>2
<1>4. streams' = [streams EXCEPT ![id] = stream]
  BY DEF Output
<1>5. /\ command \in Commands /\ command.kind = commands[id].kind
      /\ command.state = commands[id].state
  BY <1>2, NewText DEF Commands
<1>6. /\ stream \in Streams /\ stream.summaryOnly = streams[id].summaryOnly
      /\ stream.buffer # streams[id].buffer => Len(stream.buffer) <= Unterminated
      /\ stream = streams[id] \/ (stream.buffer # <<>> => ~stream.discarding /\ ~stream.summaryOnly)
  <2>1. Len(streams[id].buffer) <= Unterminated /\ delta \in Text
    BY <1>2, NewText DEF Buffered
  <2> HIDE DEF command
  <2>2. QED
    BY <1>2, <2>1, Consumed
<1> HIDE DEF command, stream
<1>7. Len(stream.buffer) <= Unterminated
  BY <1>2, <1>6 DEF Buffered
<1>8. command.kind = "skill" => stream.summaryOnly
  BY <1>1, <1>2, <1>5, <1>6 DEF Buffered
<1>9. stream.buffer # <<>> => command.state = "running" /\ ~stream.discarding /\ ~stream.summaryOnly
  BY <1>1, <1>2, <1>5, <1>6, <1>8 DEF Buffered
<1> QED
  BY <1>1, <1>2, <1>3, <1>4, <1>5, <1>6, <1>7, <1>8, <1>9, CommandStep

(* Output of a command that is not. *)
LEMMA PrintsKeeps ==
  ASSUME ActivityInv, NEW id \in 1 .. Len(commands), NEW delta \in Deltas, Prints(id, delta)
  PROVE  ActivityInv'
<1> DEFINE command == [commands[id] EXCEPT !.output = @ \o delta]
           stream == streams[id]
<1>1. /\ run = "running" /\ UNCHANGED <<working, stages, turns, run, streams>>
      /\ commands[id].state = "running"
  BY DEF Prints, Reports, ActivityFrame
<1>2. /\ commands \in Seq(Commands) /\ Len(commands) \in Nat /\ id \in 1 .. MaxCommands
      /\ id <= Len(commands) /\ commands[id] \in Commands
      /\ streams \in [1 .. MaxCommands -> Streams] /\ stream \in Streams /\ Buffered(id)
  BY ActivityAssumption DEF ActivityInv, ActivityTypes
<1>3. commands' = [commands EXCEPT ![id] = command]
  BY <1>2 DEF Prints
<1>4. streams' = [streams EXCEPT ![id] = stream]
  BY <1>1, <1>2
<1>5. /\ command \in Commands /\ command.kind = commands[id].kind
      /\ command.state = commands[id].state
  BY <1>2, NewText DEF Commands
<1>6. /\ Len(stream.buffer) <= Unterminated
      /\ stream.buffer # <<>> => ~stream.discarding /\ ~stream.summaryOnly
      /\ command.kind = "skill" => stream.summaryOnly
  BY <1>1, <1>2, <1>5 DEF Buffered
<1> HIDE DEF command, stream
<1> QED
  BY <1>1, <1>2, <1>3, <1>4, <1>5, <1>6, CommandStep

(* The end of a command clears its stream, but of a skill, which never has anything. *)
LEMMA EndCommandKeeps ==
  ASSUME ActivityInv, NEW id \in 1 .. Len(commands), NEW state \in {"completed", "failed"},
         EndCommand(id, state)
  PROVE  ActivityInv'
<1> DEFINE command == [commands[id] EXCEPT !.state = state]
           stream == IF commands[id].kind = "skill" THEN streams[id] ELSE NoStream
<1>1. /\ run = "running" /\ UNCHANGED <<working, stages, turns, run>>
      /\ commands[id].state = "running"
  BY DEF EndCommand, Reports, ActivityFrame
<1>2. /\ commands \in Seq(Commands) /\ Len(commands) \in Nat /\ id \in 1 .. MaxCommands
      /\ id <= Len(commands) /\ commands[id] \in Commands
      /\ streams \in [1 .. MaxCommands -> Streams] /\ streams[id] \in Streams /\ Buffered(id)
  BY ActivityAssumption DEF ActivityInv, ActivityTypes
<1>3. commands' = [commands EXCEPT ![id] = command]
  BY <1>2 DEF EndCommand
<1>4. streams' = [streams EXCEPT ![id] = stream]
  BY <1>2 DEF EndCommand
<1>5. /\ command \in Commands /\ command.kind = commands[id].kind
  BY <1>2 DEF Commands
<1>6. /\ stream \in Streams /\ stream.buffer = <<>> /\ Len(<<>>) <= Unterminated
      /\ command.kind = "skill" => stream.summaryOnly
  BY <1>1, <1>2, <1>5, NothingStreamed, ActivityAssumption DEF Buffered
<1> HIDE DEF command, stream
<1> QED
  BY <1>1, <1>2, <1>3, <1>4, <1>5, <1>6, CommandStep

(* Every step of the turns and of their stage keeps the invariant. *)
LEMMA ActivityKeeps ==
  ASSUME ActivityInv, Turn \/ Stage \/ ActivityLosesRuntime
  PROVE  ActivityInv'
<1> USE DEF ActivityFrame
<1>1. /\ working \in BOOLEAN /\ stages \in 1 .. MaxTurns /\ turns \in 0 .. MaxTurns
      /\ MaxTurns \in Nat
      /\ run \in {"idle", "running", "ending", "aborted", "lost"}
      /\ run \in {"idle", "lost"} => commands = <<>> /\ streams = NoStreams
  BY ActivityAssumption DEF ActivityInv, ActivityTypes
<1>2. CASE BeginTurn
  BY <1>1, <1>2, StreamsKept DEF BeginTurn
<1>3. CASE AppendUpdate
  BY <1>1, <1>3, StreamsKept DEF AppendUpdate
<1>4. CASE Settle \/ \E type \in {"AGENT_TURN_COMPLETED", "AGENT_ERROR"} : EndTurn(type)
  BY <1>4, StreamsCleared DEF Settle, EndTurn
<1>5. CASE \E kind \in CommandKinds : StartCommand(kind)
  BY <1>5, StartCommandKeeps
<1>6. CASE \E id \in 1 .. Len(commands), delta \in Deltas : Output(id, delta) \/ Prints(id, delta)
  BY <1>6, OutputKeeps, PrintsKeeps
<1>7. CASE \E id \in 1 .. Len(commands), state \in {"completed", "failed"} : EndCommand(id, state)
  BY <1>7, EndCommandKeeps
<1>8. CASE Stage
  <2>1. CASE PauseIssue
    <3>1. /\ working' = FALSE /\ UNCHANGED <<stages, turns, commands, streams>>
          /\ \/ run = "idle" /\ run' = "idle"
             \/ run' = "aborted"
      BY <2>1 DEF PauseIssue
    <3>2. QED
      BY <1>1, <3>1, StreamsKept
  <2>2. CASE EndStage \/ NextStage
    <3>1. UNCHANGED <<turns, run, commands, streams>> /\ working' \in BOOLEAN
      BY <2>2 DEF EndStage, NextStage
    <3>2. stages' \in 1 .. MaxTurns
      BY <1>1, <2>2 DEF EndStage, NextStage
    <3>3. QED
      BY <1>1, <3>1, <3>2, StreamsKept
  <2>3. CASE Interrupted
    BY <1>1, <2>3, StreamsKept DEF Interrupted
  <2> QED
    BY <1>8, <2>1, <2>2, <2>3 DEF Stage
<1>9. CASE ActivityLosesRuntime
  BY <1>9, StreamsCleared DEF ActivityLosesRuntime
<1> QED
  BY <1>2, <1>3, <1>4, <1>5, <1>6, <1>7, <1>8, <1>9 DEF Turn

(* The invariant holds at first. *)
LEMMA InitActivityHolds == InitActivity => ActivityInv
<1> SUFFICES ASSUME InitActivity PROVE ActivityInv
  OBVIOUS
<1>1. ActivityTypes
  BY NothingStreamed, ActivityAssumption DEF InitActivity, ActivityTypes
<1>2. \A id \in 1 .. MaxCommands : Buffered(id)
  BY NothingStreamed, ActivityAssumption DEF InitActivity, Buffered
<1> QED
  BY <1>1, <1>2 DEF ActivityInv, InitActivity

-----------------------------------------------------------------------------
(* The whole.  A behaviour follows one of the three, the others rest. *)

(* The invariant holds at first. *)
LEMMA InitStage == Init => StageInv
BY InitEvidence, InitPermissionHolds, InitActivityHolds DEF Init, StageInv

(* What rests keeps what is said of it. *)
LEMMA EvidenceRests ==
  ASSUME EvidenceInv, UNCHANGED hostVars
  PROVE  EvidenceInv'
<1> USE DEF hostVars, storeVars, captureVars
<1>1. HostTypes'
  BY DEF EvidenceInv, HostTypes
<1>2. Directories'
  BY DEF EvidenceInv, Directories, Numbered, Stale
<1>3. Names'
  BY DEF EvidenceInv, Names
<1>4. Placing'
  BY DEF EvidenceInv, Placing, Entry
<1>5. Processes'
  BY DEF EvidenceInv, Processes
<1> QED
  BY <1>1, <1>2, <1>3, <1>4, <1>5 DEF EvidenceInv

(* The same of the permissions. *)
LEMMA PermissionRests ==
  ASSUME PermissionInv, UNCHANGED permissionVars
  PROVE  PermissionInv'
BY DEF permissionVars, PermissionInv, PermissionTypes, Granted, Attempted, Asking

(* The same of the turns. *)
LEMMA ActivityRests ==
  ASSUME ActivityInv, UNCHANGED activityVars
  PROVE  ActivityInv'
BY DEF activityVars, ActivityInv, ActivityTypes, Buffered

(* The end of the process costs the turns their state, and the evidence of another        *)
(* behaviour nothing but the fault that is counted.                                       *)
LEMMA ExitsKeeps ==
  ASSUME StageInv, Exits
  PROVE  StageInv'
<1>1. EvidenceInv /\ ActivityLosesRuntime /\ Fault("exit")
      /\ UNCHANGED <<process, iteration, storeVars, captureVars, operations, work, litter,
                     permissionVars>>
  BY DEF StageInv, Exits
<1>2. MoreFaults /\ faults' = faults + 1 /\ faults' \in 0 .. MaxFaults /\ process \in 0 .. faults'
  BY <1>1, FaultCounts, EvidenceAssumption DEF EvidenceInv, HostTypes, MoreFaults
<1>3. HostTypes'
  BY <1>1, <1>2 DEF EvidenceInv, HostTypes, storeVars, captureVars
<1>4. Processes'
  BY <1>1 DEF EvidenceInv, Processes, captureVars
<1>5. EvidenceInv'
  BY <1>1, <1>2, <1>3, <1>4, StepRests DEF EvidenceInv, HostTypes, Directories
<1>6. ActivityInv'
  BY <1>1, ActivityKeeps DEF StageInv
<1>7. PermissionInv'
  BY <1>1, PermissionRests DEF StageInv
<1> QED
  BY <1>5, <1>6, <1>7 DEF StageInv

(* Every step keeps the invariant. *)
LEMMA StageKeeps ==
  ASSUME StageInv, [Next]_vars
  PROVE  StageInv'
<1>1. EvidenceInv /\ PermissionInv /\ ActivityInv
  BY DEF StageInv
<1>2. CASE Evidence
  BY <1>1, <1>2, HostKeeps, PermissionRests, ActivityRests DEF Evidence, StageInv
<1>3. CASE Turn \/ Stage
  <2>1. UNCHANGED hostVars /\ UNCHANGED permissionVars
    BY <1>3 DEF Turn, Stage
  <2>2. QED
    BY <1>1, <1>3, <2>1, EvidenceRests, PermissionRests, ActivityKeeps DEF StageInv
<1>4. CASE Permission
  BY <1>1, <1>4, PermissionKeeps, EvidenceRests, ActivityRests DEF Permission, StageInv
<1>5. CASE Exits
  BY <1>5, ExitsKeeps
<1>6. CASE UNCHANGED vars
  BY <1>1, <1>6, EvidenceRests, PermissionRests, ActivityRests DEF vars, StageInv
<1> QED
  BY <1>2, <1>3, <1>4, <1>5, <1>6 DEF Next

(* The types follow from the invariant. *)
LEMMA StageTypes == StageInv => TypeOK
<1> SUFFICES ASSUME StageInv PROVE TypeOK
  OBVIOUS
<1>1. /\ process \in 0 .. MaxFaults /\ iteration \in Iterations /\ faults \in 0 .. MaxFaults
      /\ file \in Files /\ import.file \in Files /\ durable \subseteq names
      /\ probes \subseteq [owner : 0 .. process, marked : BOOLEAN, left : BOOLEAN]
      /\ mode \in {"browser", "electron", "command", "agent"}
      /\ alive \subseteq Group \cup Tree /\ excused \subseteq Group \cup Tree
      /\ work = "capturing" <=> capture.pc # "idle"
      /\ import.pc # "no" => work = "importing"
  BY EvidenceAssumption
     DEF StageInv, EvidenceInv, HostTypes, Directories, Names, Processes
<1>2. /\ intakes \subseteq [id : 1 .. MaxFaults + 1, marked : BOOLEAN]
      /\ intake = none \/ \E d \in intakes : d.id = intake
  <2>1. faults \in Nat /\ MaxFaults \in Nat /\ faults <= MaxFaults
    BY EvidenceAssumption DEF StageInv, EvidenceInv, HostTypes
  <2>2. PICK n \in 0 .. faults : Numbered(n)
    BY DEF StageInv, EvidenceInv, Directories
  <2>3. PICK last \in 0 .. MaxFaults + 1 :
          /\ intakes \subseteq [id : 1 .. last, marked : BOOLEAN]
          /\ \A k \in 1 .. last : \E d \in intakes : d.id = k
          /\ intake = none \/ (intake = last /\ last > 0)
    BY <2>1, <2>2 DEF Numbered
  <2>4. intake = none \/ \E d \in intakes : d.id = intake
    BY <2>3
  <2>5. ASSUME NEW d \in intakes PROVE d \in [id : 1 .. MaxFaults + 1, marked : BOOLEAN]
    <3>1. d \in [id : 1 .. last, marked : BOOLEAN] /\ 1 .. last \subseteq 1 .. MaxFaults + 1
      BY <2>1, <2>3
    <3>2. QED
      BY <3>1
  <2>6. QED
    BY <2>4, <2>5
<1>3. /\ working \in BOOLEAN /\ stages \in 1 .. MaxTurns /\ turns \in 0 .. MaxTurns
      /\ run \in {"idle", "running", "ending", "aborted", "lost"}
      /\ run = "idle" => streams = NoStreams
      /\ \A id \in 1 .. MaxCommands :
           /\ Len(streams[id].buffer) <= Unterminated
           /\ streams[id].buffer # <<>> =>
                commands[id].state = "running" /\ ~streams[id].discarding
  BY DEF StageInv, ActivityInv, ActivityTypes, Buffered
<1>4. /\ permissionMode \in PermissionModes
      /\ granted \in SUBSET AgentCapability /\ request \in SUBSET AgentCapability
      /\ row.queued \in AgentStages \cup {nothing}
      /\ row.queued # nothing => attempt = Idle0
  BY DEF StageInv, PermissionInv, PermissionTypes, Attempted, Rows
<1>5. attempt.has \in SUBSET AgentCapability /\ attempt.may \in SUBSET AgentCapability
  BY DEF StageInv, PermissionInv, PermissionTypes, Attempts
<1>6. {granted, request, attempt.has, attempt.may} \subseteq SUBSET AgentCapability
  BY <1>4, <1>5
<1> QED
  BY <1>1, <1>2, <1>3, <1>4, <1>6 DEF TypeOK

(* The state of a stage stays as the invariant says, whatever operations, turns,          *)
(* questions and faults happen.                                                           *)
THEOREM StageInvariance == Spec => []StageInv
<1>1. Init => StageInv
  BY InitStage
<1>2. StageInv /\ [Next]_vars => StageInv'
  BY StageKeeps
<1> QED
  BY <1>1, <1>2, PTL DEF Spec

(* The types of the state, and how it hangs together. *)
THEOREM StageTypeCorrect == Spec => []TypeOK
BY StageInvariance, StageTypes, PTL

(* Evidence that an import has returned stays, with all its bytes: captureEvidence and    *)
(* the evidence store, for every number of iterations, operations and faults.             *)
THEOREM EvidenceStays == Spec => []EvidenceKept
<1>1. StageInv => EvidenceKept
  BY EvidenceIsKept DEF StageInv
<1> QED
  BY <1>1, StageInvariance, PTL

(* A capture leaves no process and no directory but those that the system could not end   *)
(* or that were cut off: captureEvidence and the capture of the host.                     *)
THEOREM CapturesLeaveNothing == Spec => []CaptureLeavesNothing
<1>1. StageInv => CaptureLeavesNothing
  BY NothingIsLeft DEF StageInv
<1> QED
  BY <1>1, StageInvariance, PTL

(* A turn is promised what its sandbox allows and no more than a human, its stage or the  *)
(* project allows, and a human is asked once for each capability at most.                 *)
THEOREM PermissionsHold == Spec => []PermittedOnly
<1>1. StageInv => PermittedOnly
  BY OnlyPermitted DEF StageInv
<1> QED
  BY <1>1, StageInvariance, PTL
=============================================================================
