---------------------------- MODULE EvidenceStore ----------------------------
(***************************************************************************)
(* LocalEvidenceStore: the directory of an Issue's worktree its evidence   *)
(* is delivered in, the import of a file from it, and what is stored, over *)
(* the end of the process and of the machine.                              *)
(***************************************************************************)
EXTENDS MediaFiles, FiniteSets

CONSTANTS
    Iterations,     \* bound: the Repair iterations
    Faults,         \* what may go wrong
    MaxFaults       \* bound: how many things go wrong

ASSUME EvidenceAssumption ==
  /\ Iterations \subseteq Nat \ {0} /\ 1 \in Iterations /\ MaxFaults \in Nat
  /\ Faults \subseteq {"exit", "power", "disk", "listing", "stuck", "abort", "target"}

VARIABLES
    process,        \* the Runtime's process: how many there have been before it
    iteration,      \* the Repair iteration evidence is captured for
    intakes,        \* the intake directories in the worktree
    intake,         \* the one of the operation under way
    file,           \* the file in it
    import,         \* an import under way
    names,          \* the names in the evidence directories
    durable,        \* those that outlive the machine
    probes,         \* the temporary directories of video probes
    kept,           \* history: what an import has returned
    faults          \* how many things have gone wrong

storeVars == <<intakes, intake, file, import, names, durable, probes, kept>>

none == 0
NoFile == [kind |-> "png", written |-> 0, cut |-> FALSE]
NoImport == [pc |-> "no", file |-> NoFile]

Fault(kind) == kind \in Faults /\ faults < MaxFaults /\ faults' = faults + 1

InitStore ==
  /\ intakes = {} /\ intake = none /\ file = NoFile
  /\ import = NoImport /\ names = {} /\ durable = {} /\ probes = {} /\ kept = {}

-----------------------------------------------------------------------------
(* prepareIntake makes a directory, then marks it as the operation's; what *)
(* fails in between leaves the directory.                                  *)
MakeIntake ==
  /\ intakes' = intakes \cup {[id |-> Cardinality(intakes) + 1, marked |-> FALSE]}
  /\ intake' = Cardinality(intakes) + 1
  /\ UNCHANGED <<file, import, names, durable, probes, kept>>

MarkIntake ==
  /\ intakes' = {IF d.id = intake THEN [d EXCEPT !.marked = TRUE] ELSE d : d \in intakes}
  /\ UNCHANGED <<intake, file, import, names, durable, probes, kept>>

Marked == \E d \in intakes : d.id = intake /\ d.marked

(* cleanup() *)
RemoveIntake ==
  /\ intakes' = {d \in intakes : d.id # intake}
  /\ intake' = none /\ file' = NoFile
  /\ UNCHANGED <<import, names, durable, probes, kept>>

(* A recorder writes the next unit, or begins the next header.             *)
Writes ==
  \E next \in Files :
     /\ next.kind = file.kind /\ ~Whole(file)
     /\ \/ next.written = file.written + 1 /\ ~next.cut
        \/ next.written = file.written /\ next.cut /\ ~file.cut
     /\ file' = next
     /\ UNCHANGED <<intakes, intake, import, names, durable, probes, kept>>

-----------------------------------------------------------------------------
At(pc) == import' = [import EXCEPT !.pc = pc]
StoreFrame == UNCHANGED <<intakes, intake, file>>

(* import: the directory is the Issue's and the iteration's, and what is   *)
(* in the file by now is read.                                             *)
ReadSource ==
  /\ import.pc = "no" /\ Marked /\ file.written > 0
  /\ import' = [pc |-> IF ~Acceptable(file) THEN "failed"
                       ELSE IF file.kind = "png" THEN "bytes" ELSE "probe",
                file |-> file]
  /\ StoreFrame /\ UNCHANGED <<names, durable, probes, kept>>

(* resolveIntakeSource and the extension: what the Agent names is missing, *)
(* outside of the directory or of another type.                            *)
RefuseSource ==
  /\ import.pc = "no"
  /\ At("failed")
  /\ StoreFrame /\ UNCHANGED <<names, durable, probes, kept>>

(* recoverStaleMediaProbeDirectories; those it cannot remove are left, as  *)
(* if they were not its own.                                               *)
NewProbe == [owner |-> process, marked |-> FALSE, left |-> FALSE]
Stale(d) == d.marked /\ d.owner # process
Left(d) == [d EXCEPT !.left = TRUE]

RecoverProbes ==
  /\ import.pc = "probe"
  /\ probes' = {d \in probes : ~Stale(d)} \cup {NewProbe}
  /\ At("owned")
  /\ StoreFrame /\ UNCHANGED <<names, durable, kept>>

RecoveryFails ==
  /\ import.pc = "probe" /\ Fault("disk")
  /\ probes' = {IF Stale(d) THEN Left(d) ELSE d : d \in probes} \cup {NewProbe}
  /\ At("owned")
  /\ StoreFrame /\ UNCHANGED <<names, durable, kept>>

OwnProbe ==
  /\ import.pc = "owned"
  /\ probes' = {IF d.owner = process THEN [d EXCEPT !.marked = TRUE] ELSE d : d \in probes}
  /\ At("probing")
  /\ StoreFrame /\ UNCHANGED <<names, durable, kept>>

(* The probe decodes the video or does not, times out or writes too much:  *)
(* its process is killed, and its directory removed.                       *)
ProbeRemoved == {d \in probes : d.owner = process => d.left}

EndProbe ==
  /\ import.pc = "probing"
  /\ probes' = ProbeRemoved
  /\ \E accepted \in BOOLEAN : At(IF accepted THEN "bytes" ELSE "failed")
  /\ StoreFrame /\ UNCHANGED <<names, durable, kept>>

(* The directory cannot be marked, or cannot be removed.                   *)
ProbeFails ==
  /\ import.pc \in {"owned", "probing"} /\ Fault("disk")
  /\ probes' \in {ProbeRemoved, {IF d.owner = process THEN Left(d) ELSE d : d \in probes}}
  /\ At("failed")
  /\ StoreFrame /\ UNCHANGED <<names, durable, kept>>

-----------------------------------------------------------------------------
(* writeFileAtomic: what is under the name is whole and synced before it   *)
(* has the name; the name is durable once its directory is.                *)
Entry(what) == [iteration |-> iteration, file |-> import.file, what |-> what]

After(pc) == CASE pc = "bytes" -> "bytesNamed" [] pc = "bytesNamed" -> "descriptor"
               [] pc = "descriptor" -> "descriptorNamed" [] pc = "descriptorNamed" -> "done"

(* Mutant: the descriptor is named before the bytes are. *)
RenameDescriptorFirst ==
  /\ import.pc \in {"bytes", "descriptor"}
  /\ names' = names \cup {Entry(IF import.pc = "bytes" THEN "descriptor" ELSE "bytes")}
  /\ At(After(import.pc))
  /\ StoreFrame /\ UNCHANGED <<durable, probes, kept>>

Rename ==
  /\ import.pc \in {"bytes", "descriptor"}
  /\ names' = names \cup {Entry(import.pc)}
  /\ At(After(import.pc))
  /\ StoreFrame /\ UNCHANGED <<durable, probes, kept>>

SyncDirectory ==
  /\ import.pc \in {"bytesNamed", "descriptorNamed"}
  /\ durable' = durable \cup {n \in names : n.iteration = iteration}
  /\ At(After(import.pc))
  /\ kept' = IF import.pc = "descriptorNamed" THEN kept \cup {Entry("bytes")} ELSE kept
  /\ StoreFrame /\ UNCHANGED <<names, probes>>

(* Mutant: what has the name is removed instead of the temporary file. *)
WriteFailsRemovingName ==
  /\ import.pc \in {"bytes", "bytesNamed", "descriptor", "descriptorNamed"} /\ Fault("disk")
  /\ names' = names \ {Entry("bytes"), Entry("descriptor")}
  /\ At("failed")
  /\ StoreFrame /\ UNCHANGED <<durable, probes, kept>>

(* A write fails, or the sync of its directory after it has been renamed.  *)
WriteFails ==
  /\ import.pc \in {"bytes", "bytesNamed", "descriptor", "descriptorNamed"} /\ Fault("disk")
  /\ At("failed")
  /\ StoreFrame /\ UNCHANGED <<names, durable, probes, kept>>

StoreFails == RecoveryFails \/ ProbeFails \/ WriteFails

StoreNext == ReadSource \/ RefuseSource \/ RecoverProbes \/ OwnProbe \/ EndProbe \/ Rename \/ SyncDirectory

-----------------------------------------------------------------------------
(* readDescriptor: that of the iteration, or of the last one.              *)
Descriptors(f) ==
  {n.iteration : n \in {m \in names : m.file = f /\ m.what = "descriptor"}}

StoredBytes(f, i) == [iteration |-> i, file |-> f, what |-> "bytes"] \in names

Inspection(f, i) ==
  [exists |-> i \in Descriptors(f) /\ StoredBytes(f, i), structured |-> Acceptable(f)]

Readable(f) ==
  \E i \in Descriptors(f) : (\A j \in Descriptors(f) : j <= i) /\ StoredBytes(f, i)

(* The process has ended: what it did is cut off.                          *)
StoreLosesProcess ==
  /\ intake' = none /\ file' = NoFile /\ import' = NoImport
  /\ UNCHANGED <<intakes, probes, kept>>

(* With the machine, names that were not yet durable may go.               *)
NamesLost == \E lost \in SUBSET (names \ durable) : names' = names \ lost /\ UNCHANGED durable
=============================================================================
