------------------------ MODULE DesktopRuntimeProofs ------------------------
(***************************************************************************)
(* What holds of the application for every value of the constants: the     *)
(* types, that no input of a source is lost, that settings and secrets     *)
(* change together, that a form does not say that settings are saved which *)
(* are not, and that a row never goes back.                                *)
(***************************************************************************)
EXTENDS DesktopRuntime, TLAPS, FiniteSetTheorems, WellFoundedInduction

(* The supervisor: whatever has not ended is its child, and each restart has the next     *)
(* process.                                                                               *)
SupervisorInv ==
  /\ process \in [Processes -> {"none", "starting", "serving", "broken", "gone"}]
  /\ child \in Processes \cup {none} /\ launching \in {none, child}
  /\ shown \in {"starting", "ready", "restarting", "disconnected", "stopping", "stopped"}
  /\ restartCount \in 0 .. ProcessRestarts /\ quitting \in BOOLEAN /\ faults \in Nat
  /\ \A p \in Processes : process[p] \in {"starting", "serving", "broken"} => p = child
  /\ child # none => child = restartCount + 1
  /\ Connected => Serving

(* What is stored of a project, and what a save of it carries. *)
Configs == SUBSET {"git", "remote", "push"}
Projects == [revision : Nat, enabled : BOOLEAN, refs : SUBSET Keys, config : Configs]
SecretPatches == UNION {[fields -> 0 .. 2] : fields \in SUBSET Keys}
Mutations ==
  [pc : {"idle", "writing", "undoing", "refreshing"}, patch : SecretPatches, todo : Seq(Keys),
   applied : Seq(Keys), previous : Secrets, expected : Nat, enabled : BOOLEAN, config : Configs]
Sources == [state : {"none", "failed", "running"}, aborted : BOOLEAN,
            secrets : Secrets, revision : Nat]

SettingsTypes ==
  /\ project \in Projects /\ (project.revision = 0 => ~project.enabled)
  /\ keychain \in Secrets /\ meant \in Secrets /\ torn \in BOOLEAN /\ saves \in Nat
  /\ mutation \in Mutations /\ source \in Sources
  /\ \A j \in 1 .. Len(mutation.todo) : mutation.todo[j] \in DOMAIN mutation.patch

(* A save under way is of a process that serves, and knows what it has changed. *)
SettingsInv ==
  /\ SettingsTypes
  /\ mutation.pc # "idle" => Serving
  /\ mutation.pc = "idle" => mutation = NoMutation
  /\ source.state # "none" => Serving /\ source.revision \in 1 .. project.revision
  /\ ~torn =>
       /\ mutation.pc \in {"writing", "undoing"} =>
            /\ mutation.previous = meant
            /\ \A k \in Keys \ Range(mutation.applied) : keychain[k] = meant[k]
       /\ mutation.pc \in {"idle", "refreshing"} => keychain = meant
       /\ mutation.pc # "refreshing" /\ source.state = "running" =>
            source = RunsWith(project, meant) \/ source.aborted

(* The poll under way has what lies between the watermark and the newest event it has     *)
(* seen, in what it has found, in the intake, or before it still.                         *)
Polls == [pc : {"waiting", "issue", "events", "deliver"}, todo : Seq(Groups), offset : Nat,
          found : SUBSET Nat, newest : Nat, failed : BOOLEAN]

Collected(g) ==
  /\ poll.pc = "events" =>
       /\ events[g] - poll.offset \in Nat /\ watermark[g] <= events[g] - poll.offset
       /\ events[g] - poll.offset >= 1
       /\ poll.newest = 0 => poll.offset = 0
       /\ poll.newest # 0 =>
            /\ watermark[g] <= poll.newest /\ poll.newest <= events[g] /\ watermark[g] # 0
            /\ \A k \in events[g] - poll.offset + 1 .. poll.newest : k \in poll.found
  /\ poll.pc = "deliver" =>
       /\ watermark[g] <= poll.newest /\ poll.newest \in 1 .. events[g]
       /\ \A k \in (IF watermark[g] = 0 THEN poll.newest ELSE watermark[g] + 1) .. poll.newest :
            k \in poll.found \/ <<g, k>> \in accepted

SentryInv ==
  /\ events \in [Groups -> 1 .. MaxEvents] /\ oldest \in [Groups -> Nat]
  /\ cursor \in Groups /\ page \in [Groups -> Groups]
  /\ watermark \in [Groups -> 0 .. MaxEvents] /\ first \in [Groups -> 0 .. MaxEvents]
  /\ poll \in Polls /\ poll.newest <= MaxEvents
  /\ \A g \in Groups : watermark[g] <= events[g] /\ (first[g] = 0 <=> watermark[g] = 0)
  /\ poll.pc \in {"events", "deliver"} => poll.todo # <<>> /\ Collected(Head(poll.todo))
  /\ poll.pc = "issue" => poll.offset = 0 /\ poll.found = {} /\ poll.newest = 0
  /\ NothingSkipped
  /\ poll.pc # "waiting" => source.state = "running" /\ scenario = "sentry"

(* A message whose handling has come to its acknowledgement is in the intake. *)
DingTalkInv ==
  /\ handling \in [Calls -> {"none", "new", "late", "taken"}]
  /\ \A c \in Calls : handling[c] = "taken" => c[1] \in taken
  /\ AcknowledgedIsKept
  /\ stream \in {"closed", "open"}
  /\ stream = "open" => source.state = "running" /\ scenario = "dingtalk"

(* Rows and detail show what was answered; an Issue that is being created has no row. *)
Requested == [issue : Issues, by : Reads \cup {"command", "create", "canceled"}]
Answered == [issue : Issues, by : {"command", "create"}, revision : 0 .. MaxRevision]

ViewTypes ==
  /\ revision \in [Issues -> 0 .. MaxRevision] /\ rows \in [Issues -> 0 .. MaxRevision]
  /\ snapshot \in [Issues -> 0 .. MaxRevision]
  /\ loaded \in {"no", "asked", "answered", "shown", "failed"}
  /\ selected \in Issues \cup {none} /\ mounted \in BOOLEAN
  /\ detail \in [issue : Issues \cup {none}, revision : 0 .. MaxRevision]
  /\ link \in [Issues -> Links]
  /\ requests \subseteq Requested /\ answers \subseteq Answered
  /\ \A i \in Issues : link[i] = "none" => i \notin unread \cup woken

Shows ==
  /\ \A i \in Issues : rows[i] <= revision[i] /\ snapshot[i] <= revision[i]
  /\ loaded # "shown" => rows = Unchanged /\ requests = {} /\ answers = {} /\ woken = {}
  /\ loaded # "shown" => \A i \in Issues : link[i] = "none"
  /\ loaded # "shown" => selected = none /\ detail = Nothing
  /\ selected # none => rows[selected] # 0
  /\ IF detail.issue = none THEN detail = Nothing ELSE detail.revision <= rows[detail.issue]
  /\ detail.issue # none => detail.revision # 0

Creates ==
  /\ \A q \in requests :
       /\ q.by = "command" => revision[q.issue] # 0
       /\ q.by = "create" => revision[q.issue] = 0 /\ Request(q.issue, "canceled") \notin requests
  /\ \A a \in answers :
       /\ a.revision <= revision[a.issue] /\ a.revision # 0
       /\ a.by = "create" => rows[a.issue] = 0
  /\ \A a, b \in answers : a.by = "create" /\ b.by = "create" /\ a.issue = b.issue => a = b

ViewInv == ViewTypes /\ Shows /\ Creates

(* A form's row is a state the project has had. *)
Known(row) == row.revision <= project.revision /\ (row.revision = project.revision => row = project)

Inspections == [known : BOOLEAN, asking : BOOLEAN, found : Findings]
Forms == [row : Projects, enabled : BOOLEAN, config : Configs, found : Findings, draft : SUBSET Keys,
          saved : BOOLEAN, saving : BOOLEAN, missed : BOOLEAN]
Submissions == [own : BOOLEAN, heard : BOOLEAN, pc : {"sent", "running", "refused"}, form : Forms,
                from : Projects, expected : Nat]

FormTypes ==
  /\ listed \in Projects /\ editor \in [open : BOOLEAN, row : Projects]
  /\ inspection \in Inspections
  /\ form \in Forms /\ submissions \in Seq(Submissions) /\ unheard \in BOOLEAN

(* Only the oldest save has been taken up, and the mutation under way is its. *)
Proper(s) ==
  /\ s.expected = s.form.row.revision /\ Known(s.form.row)
  /\ Made(s) => s.form.row = s.from

InOrder(j) ==
  /\ submissions[j].own => j = Len(submissions) /\ form.saving /\ editor.open
  /\ j > 1 => submissions[j].pc = "sent"

Served ==
  /\ \A j \in 1 .. Len(submissions) : Proper(submissions[j]) /\ InOrder(j)
  /\ mutation.pc # "idle" =>
       /\ submissions # <<>> /\ submissions[1].pc = "running"
       /\ mutation.expected = submissions[1].expected
       /\ mutation.pc \in {"writing", "undoing"} => submissions[1].from = project
       /\ mutation.pc = "refreshing" => Made(submissions[1])

HasMade == submissions # <<>> /\ Made(submissions[1])

Heard ==
  /\ Known(listed) /\ Known(editor.row) /\ Known(form.row)
  /\ project.revision = 0 => project = NewProject
  /\ submissions # <<>> => ~form.saved \/ form.missed
  /\ ~unheard /\ ~HasMade => listed = project /\ (editor.open => editor.row = project)
  /\ editor.open /\ form.saved /\ ~form.missed /\ ~unheard =>
       /\ form.row = project /\ form.enabled = project.enabled /\ form.draft = {}
       /\ form.config = Merge(project.config, form.found)

FormInv ==
  /\ FormTypes
  /\ IF scenario \in FormScenarios THEN Served /\ Heard ELSE ~editor.open /\ submissions = <<>>

DesktopInvariant ==
  SupervisorInv /\ SettingsInv /\ SentryInv /\ DingTalkInv /\ ViewInv /\ FormInv
  /\ scenario \in Scenarios

-----------------------------------------------------------------------------
(* The utility process and its supervisor. *)

(* Processes are numbered from one. *)
LEMMA Numbers ==
  /\ ProcessRestarts \in Nat /\ none \notin Processes /\ 1 \in Processes
  /\ \A p \in Processes : p \in Nat
BY ProcessAssumption DEF Processes, none

(* A fault is counted. *)
LEMMA FaultGrows ==
  ASSUME SupervisorInv, NEW kind, Fault(kind)
  PROVE  faults' \in Nat
BY DEF Fault, SupervisorInv

(* A step that leaves the supervisor alone keeps its invariant. *)
LEMMA SupervisorRests ==
  ASSUME SupervisorInv, UNCHANGED supervisor, UNCHANGED faults \/ \E kind \in Faults : Fault(kind)
  PROVE  SupervisorInv' /\ Serving' = Serving
BY DEF SupervisorInv, supervisor, Fault, Serving, Connected

(* A process that starts to serve did not serve before, and is the child. *)
LEMMA StartedKeeps ==
  ASSUME SupervisorInv, NEW p \in Processes, Started(p)
  PROVE  SupervisorInv' /\ Serving' /\ ~Serving
<1>1. process[p] = "starting" /\ p = child /\ child # none
      /\ UNCHANGED <<child, restartCount, quitting, faults>>
      /\ process' = [process EXCEPT ![p] = "serving"]
  BY Numbers DEF SupervisorInv, Started
<1>2. \/ launching' = none /\ shown' = (IF quitting THEN shown ELSE "ready")
      \/ UNCHANGED <<launching, shown>>
  BY DEF Started, LaunchEnds
<1>3. process'[child] = "serving"
      /\ process' \in [Processes -> {"none", "starting", "serving", "broken", "gone"}]
  BY <1>1 DEF SupervisorInv
<1> QED
  BY <1>1, <1>2, <1>3, Numbers DEF SupervisorInv, Serving, Connected

(* A start that fails, or takes too long, keeps the invariant. *)
LEMMA NotStarted ==
  ASSUME SupervisorInv, NEW p \in Processes, StartFails(p) \/ StartupTimeout(p)
  PROVE  SupervisorInv' /\ Serving' = Serving /\ ~Serving
<1>1. process[p] = "starting" /\ p = child /\ child # none
      /\ UNCHANGED <<child, restartCount, quitting>>
      /\ faults' \in Nat /\ (UNCHANGED process \/ process' = [process EXCEPT ![p] = "broken"])
  BY Numbers, FaultGrows DEF SupervisorInv, StartFails, StartupTimeout
<1>2. \/ launching' = none /\ shown' = "disconnected"
      \/ UNCHANGED <<launching, shown>>
  BY DEF StartFails, StartupTimeout, LaunchEnds
<1>3. ~Serving /\ shown # "ready"
  BY <1>1 DEF SupervisorInv, Serving, Connected
<1>4. process'[child] # "serving"
      /\ process' \in [Processes -> {"none", "starting", "serving", "broken", "gone"}]
  BY <1>1 DEF SupervisorInv
<1>5. \A q \in Processes : process'[q] \in {"starting", "serving", "broken"} => q = child
  BY <1>1 DEF SupervisorInv
<1> QED
  BY <1>1, <1>2, <1>3, <1>4, <1>5, Numbers DEF SupervisorInv, Serving, Connected

(* handleExit: the process that exits is the child, and the next one takes its place. *)
LEMMA ExitsKeeps ==
  ASSUME SupervisorInv, NEW p \in Processes, Exits(p)
  PROVE  SupervisorInv' /\ ~Serving'
<1>1. /\ p = child /\ child # none /\ UNCHANGED quitting /\ HandleExit(p) /\ faults' \in Nat
      /\ child = restartCount + 1 /\ restartCount \in 0 .. ProcessRestarts
  BY Numbers, FaultGrows DEF SupervisorInv, Exits
<1>2. CASE quitting \/ restartCount = ProcessRestarts
  <2>1. /\ process' = [process EXCEPT ![p] = "gone"] /\ child' = none /\ launching' = none
        /\ shown' = (IF quitting THEN shown ELSE "disconnected") /\ UNCHANGED restartCount
    BY <1>1, <1>2 DEF HandleExit
  <2>2. \A q \in Processes : process'[q] \notin {"starting", "serving", "broken"}
    BY <1>1, <2>1 DEF SupervisorInv
  <2>3. process' \in [Processes -> {"none", "starting", "serving", "broken", "gone"}]
    BY <2>1 DEF SupervisorInv
  <2> QED
    BY <1>1, <2>1, <2>2, <2>3 DEF SupervisorInv, Serving, Connected
<1>3. CASE ~(quitting \/ restartCount = ProcessRestarts)
  <2>1. /\ process' = [process EXCEPT ![p] = "gone", ![p + 1] = "starting"]
        /\ child' = p + 1 /\ launching' = p + 1 /\ restartCount' = restartCount + 1
        /\ shown' \in {"disconnected", "restarting"}
    BY <1>1, <1>3 DEF HandleExit
  <2>2. p + 1 \in Processes /\ restartCount' \in 0 .. ProcessRestarts /\ child' = restartCount' + 1
        /\ p \in Nat
    BY <1>1, <1>3, <2>1, Numbers DEF Processes
  <2>3. process' \in [Processes -> {"none", "starting", "serving", "broken", "gone"}]
    BY <2>1, <2>2 DEF SupervisorInv
  <2>4. /\ process'[p + 1] = "starting" /\ process'[p] = "gone"
        /\ \A q \in Processes \ {p, p + 1} : process'[q] = process[q]
    BY <2>1, <2>2 DEF SupervisorInv
  <2>5. \A q \in Processes : process'[q] \in {"starting", "serving", "broken"} => q = child'
    BY <1>1, <2>1, <2>4 DEF SupervisorInv
  <2> QED
    BY <1>1, <2>1, <2>2, <2>3, <2>4, <2>5 DEF SupervisorInv, Serving, Connected
<1> QED
  BY <1>2, <1>3

(* shutdown() begins. *)
LEMMA QuitsKeeps ==
  ASSUME SupervisorInv, Quit
  PROVE  SupervisorInv' /\ Serving' = Serving
BY FaultGrows DEF SupervisorInv, Quit, Serving, Connected

(* shutdown() ends. *)
LEMMA KilledKeeps ==
  ASSUME SupervisorInv, Killed
  PROVE  SupervisorInv' /\ ~Serving'
<1>1. /\ process' = [q \in Processes |-> IF q = child THEN "gone" ELSE process[q]]
      /\ child' = none /\ launching' = none /\ shown' = "stopped"
      /\ UNCHANGED <<restartCount, quitting, faults>>
  BY DEF Killed
<1>2. \A q \in Processes : process'[q] \notin {"starting", "serving", "broken"}
  BY <1>1 DEF SupervisorInv
<1>3. process' \in [Processes -> {"none", "starting", "serving", "broken", "gone"}]
  BY <1>1 DEF SupervisorInv
<1> QED
  BY <1>1, <1>2, <1>3 DEF SupervisorInv, Serving, Connected

(* The invariant holds at first. *)
LEMMA InitSupervisor ==
  ASSUME NEW spent \in Nat, InitProcess(spent)
  PROVE  SupervisorInv
<1>1. /\ process = [p \in Processes |-> IF p = 1 THEN "starting" ELSE "none"]
      /\ child = 1 /\ launching = 1 /\ shown = "starting" /\ restartCount = 0 /\ quitting = FALSE
      /\ faults = spent
  BY DEF InitProcess
<1>2. process \in [Processes -> {"none", "starting", "serving", "broken", "gone"}]
      /\ \A p \in Processes : process[p] \in {"starting", "serving", "broken"} => p = child
  BY <1>1
<1>3. restartCount \in 0 .. ProcessRestarts /\ child = restartCount + 1
  BY <1>1, Numbers
<1> QED
  BY <1>1, <1>2, <1>3, Numbers DEF SupervisorInv, Connected

(* One process at most starts or serves. *)
LEMMA OneProcess ==
  ASSUME SupervisorInv
  PROVE  Cardinality({p \in Processes : process[p] \in {"starting", "serving"}}) <= 1
<1> DEFINE S == {p \in Processes : process[p] \in {"starting", "serving"}}
<1>1. S \subseteq {child}
  BY DEF SupervisorInv
<1>2. IsFiniteSet({child}) /\ Cardinality({child}) = 1
  BY FS_Singleton
<1> HIDE DEF S
<1>3. Cardinality(S) <= Cardinality({child})
  BY <1>1, <1>2, FS_Subset
<1>4. QED
  BY <1>2, <1>3 DEF S

-----------------------------------------------------------------------------
(* The settings, the keychain and the source that runs. *)

(* SetToSeq lists what is in a set of keys, and nothing else. *)
LEMMA Listed ==
  ASSUME NEW fields, fields \subseteq Keys
  PROVE  SetToSeq(fields) \in Seq(Keys)
         /\ \A j \in 1 .. Len(SetToSeq(fields)) : SetToSeq(fields)[j] \in fields
<1>1. IsFiniteSet(fields)
  BY SettingsAssumption, FS_Subset
<1>2. Cardinality(fields) \in Nat /\ ExistsBijection(1 .. Cardinality(fields), fields)
  BY <1>1, FS_CardinalityType
<1>3. \E f \in [1 .. Cardinality(fields) -> fields] : IsInjective(f)
  BY <1>2 DEF ExistsBijection, Bijection, Injection, IsInjective
<1>4. SetToSeq(fields) \in [1 .. Cardinality(fields) -> fields]
  BY <1>3 DEF SetToSeq
<1>5. SetToSeq(fields) \in Seq(fields)
  BY <1>2, <1>4
<1> QED
  BY <1>5

(* What there is when no save is under way and no source runs, and the patches without
   a choice. *)
LEMMA Nobody ==
  /\ NoMutation \in Mutations /\ NoMutation.pc = "idle" /\ NoMutation.applied = <<>>
  /\ NoMutation.todo = <<>>
  /\ NoSource \in Sources /\ NoSource.state = "none" /\ NoSource.aborted = FALSE
  /\ <<>> \in SecretPatches /\ DOMAIN <<>> = {} /\ [k \in Keys |-> 1] \in SecretPatches
<1>1. [k \in Keys |-> 0] \in Secrets
  BY DEF Secrets
<1>2. <<>> \in [{} -> 0 .. 2] /\ DOMAIN <<>> = {}
  OBVIOUS
<1>3. <<>> \in SecretPatches
  BY <1>2 DEF SecretPatches
<1>4. NoMutation \in Mutations
  BY <1>1, <1>3 DEF NoMutation, Mutations, Configs
<1>5. NoSource \in Sources
  BY <1>1 DEF NoSource, Sources
<1>6. [k \in Keys |-> 1] \in SecretPatches
  <2>1. [k \in Keys |-> 1] \in [Keys -> 0 .. 2]
    OBVIOUS
  <2>2. QED
    BY <2>1 DEF SecretPatches
<1> QED
  BY <1>2, <1>3, <1>4, <1>5, <1>6 DEF NoMutation, NoSource

(* RunsWith: what runs of a project is a source, of a revision the project has had. *)
LEMMA SourceRuns ==
  ASSUME NEW p \in Projects, p.revision = 0 => ~p.enabled, NEW secrets \in Secrets,
         NEW runs, runs = RunsWith(p, secrets)
  PROVE  /\ runs \in Sources /\ [runs EXCEPT !.state = "failed"] \in Sources
         /\ runs.state # "none" => runs.revision \in 1 .. p.revision
         /\ p.enabled => [runs EXCEPT !.state = "failed"].revision \in 1 .. p.revision
         /\ [runs EXCEPT !.state = "failed"].state = "failed"
<1>1. Loaded(secrets, p.refs) \in Secrets
  BY DEF Loaded, Secrets
<1> DEFINE r == [state |-> IF \E k \in Keys : Loaded(secrets, p.refs)[k] = 0 THEN "failed"
                            ELSE "running",
                 aborted |-> FALSE, secrets |-> Loaded(secrets, p.refs), revision |-> p.revision]
<1>2. runs = IF p.revision = 0 \/ ~p.enabled THEN NoSource ELSE r
  BY DEF RunsWith
<1>3. r \in Sources /\ r.revision = p.revision /\ p.revision \in Nat
  BY <1>1 DEF Sources, Projects
<1>4. runs \in Sources
  BY <1>2, <1>3, Nobody
<1>5. [runs EXCEPT !.state = "failed"] \in Sources
      /\ [runs EXCEPT !.state = "failed"].state = "failed"
      /\ [runs EXCEPT !.state = "failed"].revision = runs.revision
  BY <1>4 DEF Sources
<1> HIDE DEF r
<1>6. p.enabled => runs.revision \in 1 .. p.revision
  BY <1>2, <1>3
<1> QED
  BY <1>2, <1>4, <1>5, <1>6, Nobody

(* A step that leaves the settings alone keeps their invariant. *)
LEMMA SettingsRest ==
  ASSUME SettingsInv, UNCHANGED settingsVars, Serving' = Serving
  PROVE  SettingsInv'
BY DEF settingsVars, SettingsInv, SettingsTypes, RunsWith, Loaded

(* The process is gone: a save that has changed a secret is torn. *)
LEMMA SettingsLose ==
  ASSUME SettingsInv, SettingsLoseRuntime
  PROVE  SettingsInv'
<1>1. /\ torn' = (torn \/ (mutation.applied # <<>> /\ mutation.pc # "refreshing"))
      /\ mutation' = NoMutation /\ source' = NoSource
      /\ UNCHANGED <<project, keychain, meant, saves>>
  BY DEF SettingsLoseRuntime
<1>2. SettingsTypes'
  BY <1>1, Nobody DEF SettingsInv, SettingsTypes
<1>3. ASSUME ~torn' PROVE keychain = meant
  <2>1. ~torn /\ (mutation.applied = <<>> \/ mutation.pc = "refreshing")
    BY <1>1, <1>3
  <2>2. CASE mutation.pc \in {"idle", "refreshing"}
    BY <2>1, <2>2 DEF SettingsInv
  <2>3. CASE mutation.pc \in {"writing", "undoing"}
    <3>1. Range(mutation.applied) = {}
      BY <2>1, <2>3 DEF Range
    <3>2. \A k \in Keys : keychain[k] = meant[k]
      BY <2>1, <2>3, <3>1 DEF SettingsInv
    <3>3. QED
      BY <3>2 DEF SettingsInv, SettingsTypes, Secrets
  <2> QED
    BY <2>2, <2>3 DEF SettingsInv, SettingsTypes, Mutations
<1> QED
  BY <1>1, <1>2, <1>3, Nobody DEF SettingsInv

(* start(): the source of the saved project runs. *)
LEMMA StartsKeep ==
  ASSUME SettingsInv, ~Serving, Serving', StartsSources
  PROVE  SettingsInv'
<1>1. source' = RunsWith(project, keychain)
      /\ UNCHANGED <<project, keychain, meant, mutation, torn, saves>>
  BY DEF StartsSources
<1>2. mutation = NoMutation /\ mutation.pc = "idle"
  BY DEF SettingsInv, SettingsTypes, Mutations
<1>3. source' \in Sources /\ (source'.state # "none" => source'.revision \in 1 .. project.revision)
  BY <1>1, SourceRuns DEF SettingsInv, SettingsTypes
<1>4. ~torn => keychain = meant
  BY <1>2 DEF SettingsInv
<1>5. (~torn => source = RunsWith(project, meant))'
  BY <1>1, <1>4 DEF RunsWith, Loaded
<1>6. SettingsTypes'
  BY <1>1, <1>3 DEF SettingsInv, SettingsTypes
<1> QED
  BY <1>1, <1>2, <1>3, <1>4, <1>5, <1>6 DEF SettingsInv

(* stopProject tells the source to stop. *)
LEMMA AbortKeeps ==
  ASSUME SettingsInv, SupervisorInv, AbortSource
  PROVE  SettingsInv'
<1>1. /\ source.state # "none" /\ source' = [source EXCEPT !.aborted = TRUE]
      /\ UNCHANGED <<project, keychain, meant, mutation, torn, saves>> /\ UNCHANGED supervisor
  BY DEF AbortSource
<1>2. source' \in Sources /\ source'.aborted /\ source'.state = source.state
      /\ source'.revision = source.revision
  BY <1>1 DEF SettingsInv, SettingsTypes, Sources
<1>3. SettingsTypes'
  BY <1>1, <1>2 DEF SettingsInv, SettingsTypes
<1>4. Serving' = Serving
  BY <1>1 DEF Serving, supervisor
<1> QED
  BY <1>1, <1>2, <1>3, <1>4 DEF SettingsInv

(* startProject: the save ends with the source of the saved project. *)
LEMMA RefreshKeeps ==
  ASSUME SettingsInv, NEW ended, RefreshProject(ended)
  PROVE  SettingsInv'
<1>1. /\ mutation.pc = "refreshing" /\ StartSource /\ mutation' = NoMutation
      /\ UNCHANGED <<project, keychain, meant, torn, saves>> /\ UNCHANGED supervisor
  BY DEF RefreshProject
<1>2. Serving /\ Serving' = Serving
  BY <1>1 DEF Serving, supervisor, SettingsInv
<1>3. /\ source' \in Sources
      /\ (source'.state # "none" => source'.revision \in 1 .. project.revision)
      /\ source'.state = "running" => source' = RunsWith(project, keychain)
  BY <1>1, SourceRuns DEF SettingsInv, SettingsTypes, StartSource
<1>4. ~torn => keychain = meant
  BY <1>1 DEF SettingsInv
<1>5. (~torn /\ source.state = "running" => source = RunsWith(project, meant))'
  BY <1>1, <1>3, <1>4 DEF RunsWith, Loaded
<1>6. SettingsTypes'
  BY <1>1, <1>3, Nobody DEF SettingsInv, SettingsTypes
<1> QED
  BY <1>1, <1>2, <1>3, <1>4, <1>5, <1>6, Nobody DEF SettingsInv

(* A save begins, and keeps the secrets there were. *)
LEMMA SaveKeeps ==
  ASSUME SettingsInv, NEW patch \in SecretPatches, NEW enabled \in BOOLEAN, NEW config \in Configs,
         NEW expected \in Nat, Save(patch, enabled, config, expected)
  PROVE  SettingsInv'
<1> DEFINE m == [pc |-> "writing", patch |-> patch, todo |-> SetToSeq(DOMAIN patch),
                  applied |-> <<>>,
                 previous |-> keychain, expected |-> expected, enabled |-> enabled,
                 config |-> config]
<1>1. /\ Serving /\ mutation.pc = "idle" /\ saves' = saves + 1 /\ mutation' = m
      /\ UNCHANGED <<project, keychain, meant, torn, source>> /\ UNCHANGED supervisor
  BY DEF Save
<1>2. Serving' = Serving
  BY <1>1 DEF Serving, supervisor
<1>3. DOMAIN patch \subseteq Keys
  BY DEF SecretPatches
<1>4. m \in Mutations
  BY <1>3, Listed DEF Mutations, SettingsInv, SettingsTypes
<1>5. m.pc = "writing" /\ m.previous = keychain /\ m.todo = SetToSeq(DOMAIN patch)
      /\ m.patch = patch
  OBVIOUS
<1> HIDE DEF m
<1>6. SettingsTypes'
  BY <1>1, <1>3, <1>4, <1>5, Listed DEF SettingsInv, SettingsTypes
<1>7. ~torn => keychain = meant
        /\ (source.state = "running" => source = RunsWith(project, meant) \/ source.aborted)
  BY <1>1 DEF SettingsInv
<1>8. RunsWith(project, meant)' = RunsWith(project, meant)
  BY <1>1 DEF RunsWith, Loaded
<1> QED
  BY <1>1, <1>2, <1>5, <1>6, <1>7, <1>8 DEF SettingsInv

(* A secret is written: noted as applied whether it was or not. *)
LEMMA WriteKeeps ==
  ASSUME SettingsInv, WriteSecret
  PROVE  SettingsInv'
<1> DEFINE k == Head(mutation.todo)
<1>1. /\ mutation.pc = "writing" /\ mutation.todo # <<>>
      /\ keychain' \in {keychain, [keychain EXCEPT ![k] = mutation.patch[k]]}
      /\ mutation' = Applied(k) \/ mutation' = [Applied(k) EXCEPT !.pc = "undoing"]
      /\ UNCHANGED <<project, meant, torn, source, saves>> /\ UNCHANGED supervisor
  BY DEF WriteSecret
<1>2. mutation \in Mutations /\ keychain \in Secrets /\ mutation.todo \in Seq(Keys)
      /\ mutation.patch \in SecretPatches
      /\ mutation.applied \in Seq(Keys)
  BY DEF SettingsInv, SettingsTypes, Mutations
<1>3. k \in Keys /\ k \in DOMAIN mutation.patch /\ mutation.patch[k] \in 0 .. 2
  <2>1. k = mutation.todo[1] /\ 1 \in 1 .. Len(mutation.todo)
    BY <1>1, <1>2
  <2>2. k \in DOMAIN mutation.patch /\ k \in Keys
    BY <1>2, <2>1 DEF SettingsInv, SettingsTypes
  <2>3. QED
    BY <1>2, <2>2 DEF SecretPatches
<1>4. keychain' \in Secrets /\ \A key \in Keys \ {k} : keychain'[key] = keychain[key]
  BY <1>1, <1>2, <1>3 DEF Secrets
<1>5. Serving' = Serving
  BY <1>1 DEF Serving, supervisor
<1>6. mutation' = [mutation EXCEPT !.applied = Append(mutation.applied, k),
                          !.todo = Tail(mutation.todo)]
      \/ mutation' = [mutation EXCEPT !.applied = Append(mutation.applied, k),
                          !.todo = Tail(mutation.todo), !.pc = "undoing"]
  BY <1>1 DEF Applied
<1> HIDE DEF k
<1>7. /\ Append(mutation.applied, k) \in Seq(Keys) /\ Tail(mutation.todo) \in Seq(Keys)
      /\ Range(Append(mutation.applied, k)) = Range(mutation.applied) \cup {k}
      /\ \A j \in 1 .. Len(Tail(mutation.todo)) : Tail(mutation.todo)[j] \in DOMAIN mutation.patch
  <2>1. /\ Append(mutation.applied, k) \in Seq(Keys) /\ Tail(mutation.todo) \in Seq(Keys)
        /\ Len(Append(mutation.applied, k)) = Len(mutation.applied) + 1
        /\ Len(mutation.applied) \in Nat
    BY <1>1, <1>2, <1>3
  <2>2. \A j \in 1 .. Len(Tail(mutation.todo)) : Tail(mutation.todo)[j] = mutation.todo[j + 1]
          /\ j + 1 \in 1 .. Len(mutation.todo)
    BY <1>1, <1>2
  <2>3. \A j \in 1 .. Len(Tail(mutation.todo)) : Tail(mutation.todo)[j] \in DOMAIN mutation.patch
    BY <2>2 DEF SettingsInv, SettingsTypes
  <2>4. Range(Append(mutation.applied, k)) = Range(mutation.applied) \cup {k}
    <3>1. \A j \in 1 .. Len(mutation.applied) : Append(mutation.applied, k)[j] = mutation.applied[j]
      BY <1>2, <1>3
    <3>2. Append(mutation.applied, k)[Len(mutation.applied) + 1] = k
      BY <1>2, <1>3
    <3>3. DOMAIN Append(mutation.applied, k) = 1 .. Len(mutation.applied) + 1
          /\ DOMAIN mutation.applied = 1 .. Len(mutation.applied)
      BY <1>2, <1>3
    <3>4. QED
      BY <2>1, <3>1, <3>2, <3>3 DEF Range
  <2>5. QED
    BY <2>1, <2>3, <2>4
<1>8. mutation' \in Mutations /\ mutation'.pc \in {"writing", "undoing"}
      /\ mutation'.previous = mutation.previous
      /\ mutation'.patch = mutation.patch /\ mutation'.todo = Tail(mutation.todo)
      /\ mutation'.applied = Append(mutation.applied, k)
  BY <1>1, <1>2, <1>6, <1>7 DEF Mutations
<1>9. SettingsTypes'
  BY <1>1, <1>4, <1>7, <1>8 DEF SettingsInv, SettingsTypes
<1>10. RunsWith(project, meant)' = RunsWith(project, meant)
  BY <1>1 DEF RunsWith, Loaded
<1> QED
  BY <1>1, <1>4, <1>5, <1>7, <1>8, <1>9, <1>10 DEF SettingsInv

(* The project is saved, or it has changed meanwhile and the secrets are undone. *)
LEMMA PersistKeeps ==
  ASSUME SettingsInv, Persist
  PROVE  SettingsInv'
<1>1. /\ mutation.pc = "writing" /\ UNCHANGED <<keychain, torn, source, saves>>
      /\ UNCHANGED supervisor
      /\ mutation \in Mutations /\ project \in Projects
  BY DEF Persist, SettingsInv, SettingsTypes
<1>2. Serving' = Serving
  BY <1>1 DEF Serving, supervisor
<1>3. CASE mutation.expected = project.revision
  <2>1. /\ project' = [revision |-> project.revision + 1, enabled |-> mutation.enabled,
                        refs |-> Refs(project, mutation.patch), config |-> mutation.config]
        /\ meant' = keychain /\ mutation' = [mutation EXCEPT !.pc = "refreshing"]
    BY <1>3 DEF Persist
  <2>2. project' \in Projects /\ project'.revision = project.revision + 1
        /\ project.revision \in Nat
    BY <1>1, <2>1 DEF Projects, Refs, Mutations
  <2>3. mutation' \in Mutations /\ mutation'.pc = "refreshing" /\ mutation'.todo = mutation.todo
        /\ mutation'.patch = mutation.patch
    BY <1>1, <2>1 DEF Mutations
  <2>4. SettingsTypes'
    BY <1>1, <2>1, <2>2, <2>3 DEF SettingsInv, SettingsTypes
  <2> QED
    BY <1>1, <1>2, <2>1, <2>2, <2>3, <2>4 DEF SettingsInv
<1>4. CASE mutation.expected # project.revision
  <2>1. mutation' = [mutation EXCEPT !.pc = "undoing"] /\ UNCHANGED <<project, meant>>
    BY <1>4 DEF Persist
  <2>2. /\ mutation' \in Mutations /\ mutation'.pc = "undoing" /\ mutation'.todo = mutation.todo
        /\ mutation'.patch = mutation.patch
        /\ mutation'.applied = mutation.applied /\ mutation'.previous = mutation.previous
    BY <1>1, <2>1 DEF Mutations
  <2>3. SettingsTypes'
    BY <1>1, <2>1, <2>2 DEF SettingsInv, SettingsTypes
  <2>4. RunsWith(project, meant)' = RunsWith(project, meant)
    BY <2>1 DEF RunsWith, Loaded
  <2> QED
    BY <1>1, <1>2, <2>1, <2>2, <2>3, <2>4 DEF SettingsInv
<1> QED
  BY <1>3, <1>4

(* rollbackSecrets: the key that is restored is not applied any more. *)
LEMMA UndoKeeps ==
  ASSUME SettingsInv, UndoSecret
  PROVE  SettingsInv'
<1> DEFINE k == Last(mutation.applied)
<1>1. /\ mutation.pc = "undoing" /\ mutation.applied # <<>>
      /\ UNCHANGED <<project, meant, source, saves>> /\ UNCHANGED supervisor
      /\ mutation \in Mutations /\ keychain \in Secrets /\ mutation.applied \in Seq(Keys)
  BY DEF UndoSecret, SettingsInv, SettingsTypes, Mutations
<1>2. Serving' = Serving
  BY <1>1 DEF Serving, supervisor
<1>3. RunsWith(project, meant)' = RunsWith(project, meant)
  BY <1>1 DEF RunsWith, Loaded
<1>4. CASE torn' = TRUE /\ mutation' = NoMutation /\ UNCHANGED keychain
  <2>1. SettingsTypes'
    BY <1>1, <1>4, Nobody DEF SettingsInv, SettingsTypes
  <2> QED
    BY <1>1, <1>2, <1>4, <2>1, Nobody DEF SettingsInv
<1>5. CASE /\ keychain' = [keychain EXCEPT ![k] = mutation.previous[k]]
           /\ mutation' = [mutation EXCEPT !.applied = Front(@)] /\ UNCHANGED torn
  <2>1. /\ k \in Keys /\ mutation.previous[k] \in 0 .. 2
        /\ Front(mutation.applied) \in Seq(Keys)
        /\ Range(mutation.applied) \subseteq Range(Front(mutation.applied)) \cup {k}
    <3>1. Len(mutation.applied) \in Nat /\ Len(mutation.applied) # 0
          /\ k = mutation.applied[Len(mutation.applied)]
      BY <1>1 DEF Last
    <3>2. k \in Keys /\ mutation.previous \in Secrets
      BY <1>1, <3>1 DEF Mutations
    <3>3. Front(mutation.applied) \in Seq(Keys)
          /\ Len(Front(mutation.applied)) = Len(mutation.applied) - 1
          /\ \A j \in 1 .. Len(mutation.applied) - 1 :
                  Front(mutation.applied)[j] = mutation.applied[j]
      BY <1>1, <3>1 DEF Front
    <3>4. DOMAIN Front(mutation.applied) = 1 .. Len(mutation.applied) - 1
          /\ DOMAIN mutation.applied = 1 .. Len(mutation.applied)
      BY <1>1, <3>3
    <3>5. Range(mutation.applied) \subseteq Range(Front(mutation.applied)) \cup {k}
      BY <3>1, <3>3, <3>4 DEF Range
    <3>6. QED
      BY <3>2, <3>3, <3>5 DEF Secrets
  <2>2. /\ mutation' \in Mutations /\ mutation'.pc = "undoing" /\ mutation'.todo = mutation.todo
        /\ mutation'.patch = mutation.patch
        /\ mutation'.applied = Front(mutation.applied) /\ mutation'.previous = mutation.previous
    BY <1>1, <1>5, <2>1 DEF Mutations
  <2>3. keychain' \in Secrets /\ keychain'[k] = mutation.previous[k]
        /\ \A key \in Keys \ {k} : keychain'[key] = keychain[key]
    BY <1>1, <1>5, <2>1 DEF Secrets
  <2>4. SettingsTypes'
    BY <1>1, <1>5, <2>2, <2>3 DEF SettingsInv, SettingsTypes
  <2>5. ~torn => \A key \in Keys \ Range(mutation'.applied) : keychain'[key] = meant[key]
    <3> HIDE DEF k
    <3> QED
      BY <1>1, <2>1, <2>2, <2>3 DEF SettingsInv
  <2> QED
    BY <1>1, <1>2, <1>3, <1>5, <2>2, <2>4, <2>5 DEF SettingsInv
<1> QED
  BY <1>4, <1>5 DEF UndoSecret

(* When nothing is applied any more the keychain is what it was. *)
LEMMA UndoneKeeps ==
  ASSUME SettingsInv, Undone
  PROVE  SettingsInv'
<1>1. /\ mutation.pc = "undoing" /\ mutation.applied = <<>> /\ mutation' = NoMutation
      /\ UNCHANGED <<project, keychain, meant, torn, source, saves>> /\ UNCHANGED supervisor
  BY DEF Undone
<1>2. Serving' = Serving
  BY <1>1 DEF Serving, supervisor
<1>3. RunsWith(project, meant)' = RunsWith(project, meant)
  BY <1>1 DEF RunsWith, Loaded
<1>4. Range(mutation.applied) = {}
  BY <1>1 DEF Range
<1>5. ~torn => keychain = meant
  <2>1. ~torn => \A k \in Keys : keychain[k] = meant[k]
    BY <1>1, <1>4 DEF SettingsInv
  <2>2. QED
    BY <2>1 DEF SettingsInv, SettingsTypes, Secrets
<1>6. SettingsTypes'
  BY <1>1, Nobody DEF SettingsInv, SettingsTypes
<1> QED
  BY <1>1, <1>2, <1>3, <1>5, <1>6, Nobody DEF SettingsInv

(* The invariant holds at first. *)
LEMMA InitSettingsHold ==
  ASSUME InitSettings
  PROVE  SettingsInv
<1>1. /\ project = [revision |-> 0, enabled |-> FALSE, refs |-> {}, config |-> {}]
      /\ keychain = [k \in Keys |-> 0] /\ meant = keychain
      /\ mutation = NoMutation /\ torn = FALSE /\ source = NoSource /\ saves = 0
  BY DEF InitSettings
<1>2. project \in Projects /\ ~project.enabled /\ keychain \in Secrets
  BY <1>1 DEF Projects, Configs, Secrets
<1>3. SettingsTypes
  <2>1. mutation.todo = <<>> /\ Len(<<>>) = 0 /\ mutation \in Mutations /\ source \in Sources
    BY <1>1, Nobody
  <2>2. \A j \in 1 .. Len(mutation.todo) : mutation.todo[j] \in DOMAIN mutation.patch
    BY <2>1
  <2>3. meant \in Secrets /\ torn \in BOOLEAN /\ saves \in Nat
    BY <1>1, <1>2
  <2> QED
    BY <1>2, <2>1, <2>2, <2>3 DEF SettingsTypes
<1> QED
  BY <1>1, <1>3, Nobody DEF SettingsInv

(* The invariant says what SettingsAtomic asks. *)
LEMMA SettingsAreAtomic ==
  ASSUME SettingsInv
  PROVE  SettingsAtomic
BY DEF SettingsInv, SettingsAtomic

-----------------------------------------------------------------------------
(* The Sentry source. *)

(* Sentry's Issues are numbered from one, and have events. *)
LEMMA GroupsCount ==
  MaxEvents \in Nat /\ MaxEvents # 0 /\ 1 \in Groups /\ \A g \in Groups : g \in Nat
<1>1. Cardinality(Groups) \in Nat
  BY SentryAssumption, FS_CardinalityType
<1> QED
  BY <1>1, SentryAssumption

(* A step that leaves the poller alone keeps its invariant, if the source goes on. *)
LEMMA SentryRests ==
  ASSUME SentryInv, UNCHANGED sentryVars, UNCHANGED scenario,
         poll.pc # "waiting" => source'.state = "running"
  PROVE  SentryInv'
BY DEF SentryInv, sentryVars, sentry, Collected, NothingSkipped

(* What the invariant says at a point. *)
LEMMA SentryTypes ==
  ASSUME SentryInv
  PROVE  /\ MaxEvents \in Nat /\ poll \in Polls /\ poll.offset \in Nat /\ poll.newest \in Nat
         /\ poll.todo # <<>> => Head(poll.todo) \in Groups
         /\ watermark \in [Groups -> 0 .. MaxEvents] /\ first \in [Groups -> 0 .. MaxEvents]
         /\ \A g \in Groups :
              /\ events[g] \in Nat /\ events[g] >= 1 /\ events[g] <= MaxEvents
              /\ oldest[g] \in Nat
              /\ watermark[g] \in Nat /\ first[g] \in Nat /\ watermark[g] <= events[g]
              /\ first[g] = 0 <=> watermark[g] = 0
<1>1. poll \in Polls /\ MaxEvents \in Nat
  BY GroupsCount DEF SentryInv
<1>2. poll.offset \in Nat /\ poll.newest \in Nat /\ poll.todo \in Seq(Groups)
  BY <1>1 DEF Polls
<1>3. /\ watermark \in [Groups -> 0 .. MaxEvents] /\ first \in [Groups -> 0 .. MaxEvents]
      /\ events \in [Groups -> 1 .. MaxEvents]
      /\ \A g \in Groups : watermark[g] <= events[g] /\ (first[g] = 0 <=> watermark[g] = 0)
  BY DEF SentryInv
<1>4. ASSUME NEW g \in Groups
      PROVE  events[g] \in 1 .. MaxEvents /\ watermark[g] \in 0 .. MaxEvents
             /\ first[g] \in 0 .. MaxEvents
  BY <1>3
<1>5. \A g \in Groups : events[g] \in Nat /\ events[g] >= 1 /\ events[g] <= MaxEvents
                         /\ watermark[g] \in Nat /\ first[g] \in Nat
  BY <1>1, <1>4
<1>6. \A g \in Groups : oldest[g] \in Nat
  BY DEF SentryInv
<1> QED
  BY <1>1, <1>2, <1>3, <1>5, <1>6

(* The process is gone, and the poll with it; what is saved stays. *)
LEMMA PollerLoses ==
  ASSUME SentryInv, PollerLosesRuntime
  PROVE  SentryInv'
<1>1. poll' = Waiting /\ UNCHANGED <<sentry, cursor, watermark, first, accepted>>
  BY DEF PollerLosesRuntime
<1>2. Waiting \in Polls /\ Waiting.pc = "waiting" /\ Waiting.newest = 0
  BY DEF Waiting, Polls
<1> QED
  BY <1>1, <1>2, GroupsCount DEF SentryInv, NothingSkipped, sentry

(* An event that comes while a page is read moves the ones below it, and those that
   were found stay above. *)
LEMMA EventComes ==
  ASSUME SentryInv, NEW g \in Groups, NewEvent(g), UNCHANGED scenario
  PROVE  SentryInv'
<1>1. /\ events[g] < MaxEvents /\ events' = [events EXCEPT ![g] = @ + 1]
      /\ UNCHANGED <<settingsVars, page, oldest, cursor, watermark, first, accepted, poll>>
  BY DEF NewEvent
<1>2. /\ events \in [Groups -> 1 .. MaxEvents] /\ MaxEvents \in Nat
      /\ events[g] \in 1 .. MaxEvents
  BY GroupsCount DEF SentryInv
<1>6. events[g] + 1 \in 1 .. MaxEvents
  BY <1>1, <1>2
<1>7. events' \in [Groups -> 1 .. MaxEvents]
  BY <1>1, <1>2, <1>6
<1>8. ASSUME NEW h \in Groups
      PROVE  events[h] \in Nat /\ events'[h] \in Nat /\ events[h] <= events'[h]
  <2>1. events[h] \in 1 .. MaxEvents
    BY <1>2
  <2>2. events'[h] = events[h] \/ events'[h] = events[h] + 1
    BY <1>1, <1>2
  <2> QED
    BY <1>2, <2>1, <2>2
<1>3. \A h \in Groups : watermark[h] <= events'[h]
  BY <1>1, <1>8, GroupsCount DEF SentryInv
<1>4. ASSUME poll.pc \in {"events", "deliver"} PROVE Collected(Head(poll.todo))'
  <2>1. poll.todo # <<>> /\ poll.todo \in Seq(Groups) /\ poll.offset \in Nat
        /\ poll.newest \in Nat
    BY <1>4 DEF SentryInv, Polls
  <2>2. PICK h \in Groups : h = Head(poll.todo)
    BY <2>1
  <2>3. Collected(h)
    BY <1>4, <2>2 DEF SentryInv
  <2>4. watermark[h] \in Nat
    BY GroupsCount DEF SentryInv
  <2>5. Collected(h)'
    <3>1. /\ poll' = poll /\ watermark' = watermark /\ accepted' = accepted
          /\ events[h] \in Nat /\ events'[h] \in Nat /\ events[h] <= events'[h]
      BY <1>1, <1>8
    <3>2. CASE poll.pc = "events"
      <4>1. /\ events[h] - poll.offset >= 1 /\ watermark[h] <= events[h] - poll.offset
            /\ poll.newest = 0 => poll.offset = 0
            /\ poll.newest # 0 =>
                 /\ watermark[h] <= poll.newest /\ poll.newest <= events[h]
                 /\ watermark[h] # 0
                 /\ \A k \in events[h] - poll.offset + 1 .. poll.newest : k \in poll.found
        BY <2>3, <3>2 DEF Collected
      <4>2. /\ events'[h] - poll.offset >= events[h] - poll.offset
            /\ events'[h] - poll.offset >= 1 /\ events'[h] - poll.offset \in Nat
            /\ watermark[h] <= events'[h] - poll.offset
            /\ poll.newest # 0 => poll.newest <= events'[h]
        BY <2>1, <2>4, <3>1, <4>1
      <4>3. ASSUME poll.newest # 0, NEW k \in events'[h] - poll.offset + 1 .. poll.newest
            PROVE  k \in poll.found
        <5>1. k \in events[h] - poll.offset + 1 .. poll.newest
          BY <2>1, <3>1, <4>2, <4>3
        <5> QED
          BY <4>1, <4>3, <5>1
      <4> QED
        BY <3>1, <3>2, <4>1, <4>2, <4>3 DEF Collected
    <3>3. CASE poll.pc = "deliver"
      <4>1. poll.newest \in 1 .. events'[h]
        BY <2>1, <2>3, <3>1, <3>3 DEF Collected
      <4> QED
        BY <2>3, <3>1, <3>3, <4>1 DEF Collected
    <3> QED
      BY <1>4, <3>2, <3>3
  <2>6. QED
    BY <1>1, <2>2, <2>5
<1>5. UNCHANGED source
  BY <1>1 DEF settingsVars
<1> QED
  BY <1>1, <1>3, <1>4, <1>5, <1>7 DEF SentryInv, NothingSkipped

(* What Sentry drops was found, or is not looked for. *)
LEMMA EventPurged ==
  ASSUME SentryInv, NEW g \in Groups, Purge(g), UNCHANGED scenario
  PROVE  SentryInv'
<1>1. /\ oldest' = [oldest EXCEPT ![g] = @ + 1] /\ oldest[g] \in Nat
      /\ UNCHANGED <<source, page, events, cursor, watermark, first, accepted, poll>>
  BY SentryTypes DEF Purge, settingsVars
<1>2. oldest' \in [Groups -> Nat]
  BY <1>1 DEF SentryInv
<1>3. ASSUME NEW h \in Groups, Collected(h) PROVE Collected(h)'
  BY <1>1, <1>3 DEF Collected
<1>4. poll.todo # <<>> => Head(poll.todo) \in Groups
  BY SentryTypes
<1> QED
  BY <1>1, <1>2, <1>3, <1>4 DEF SentryInv, NothingSkipped

(* The poll goes on without an Issue. *)
LEMMA PollMoves ==
  ASSUME SentryInv, UNCHANGED <<sentry, watermark, first, source, scenario>>,
         accepted \subseteq accepted',
         cursor' \in Groups, poll' \in Polls, poll'.pc \in {"waiting", "issue"},
         poll'.offset = 0, poll'.found = {}, poll'.newest = 0,
         scenario = "sentry", source.state = "running"
  PROVE  SentryInv'
<1>1. UNCHANGED <<page, events, oldest, watermark, first, source, scenario>>
  BY DEF sentry
<1>2. poll'.newest <= MaxEvents
  BY GroupsCount
<1>3. ASSUME NEW g \in Groups, NEW k \in first[g] .. watermark[g]
      PROVE  k = 0 \/ <<g, k>> \in accepted'
  BY DEF SentryInv, NothingSkipped
<1>4. NothingSkipped'
  BY <1>1, <1>3 DEF NothingSkipped
<1> QED
  BY <1>1, <1>2, <1>4 DEF SentryInv

(* What an Issue that is done with, or has failed, leaves of the poll. *)
LEMMA IssueLeft ==
  ASSUME SentryInv
  PROVE  /\ poll.todo # <<>> => NextIssue \in Polls /\ IssueFails \in Polls
         /\ NextIssue.pc = "issue" /\ NextIssue.offset = 0 /\ NextIssue.found = {}
         /\ NextIssue.newest = 0
         /\ IssueFails.pc = "issue" /\ IssueFails.offset = 0 /\ IssueFails.found = {}
         /\ IssueFails.newest = 0
<1>1. poll \in Polls /\ (poll.todo # <<>> => Tail(poll.todo) \in Seq(Groups))
  BY DEF SentryInv, Polls
<1> QED
  BY <1>1 DEF NextIssue, IssueFails, Polls

(* The Issues of a page, in an order. *)
LEMMA Ordered ==
  ASSUME IsFiniteSet(Groups), NEW S \in SUBSET Groups, NEW todo \in SetToSeqs(S)
  PROVE  todo \in Seq(Groups)
<1>1. Cardinality(S) \in Nat
  BY FS_Subset, FS_CardinalityType
<1>2. todo \in [1 .. Cardinality(S) -> Groups]
  BY DEF SetToSeqs
<1> QED
  BY <1>1, <1>2

(* A poll begins, goes on to an Issue, or ends. *)
LEMMA SentryEnds ==
  ASSUME SentryInv, ListIssues \/ EndPoll \/ PollIssue, scenario = "sentry", UNCHANGED scenario
  PROVE  SentryInv'
<1>1. poll \in Polls /\ UNCHANGED <<sentry, watermark, first, accepted, source>>
      /\ cursor \in Groups /\ page \in [Groups -> Groups]
      /\ events \in [Groups -> 1 .. MaxEvents] /\ watermark \in [Groups -> 0 .. MaxEvents]
  BY DEF SentryInv, ListIssues, EndPoll, PollIssue, settingsVars
<1>2. CASE ListIssues
  <2>1. PICK todo \in SetToSeqs({g \in Groups : page[g] = cursor}) :
          poll' = [Waiting EXCEPT !.pc = "issue", !.todo = todo]
    BY <1>2 DEF ListIssues
  <2>2. /\ poll' = [pc |-> "issue", todo |-> todo, offset |-> 0,
                     found |-> {}, newest |-> 0, failed |-> FALSE]
        /\ UNCHANGED cursor /\ source.state = "running"
    BY <1>2, <2>1 DEF Waiting, ListIssues
  <2>3. todo \in Seq(Groups) /\ 0 \in Nat /\ {} \in SUBSET Nat
    BY <2>1, Ordered, SentryAssumption
  <2>4. poll' \in Polls
    BY <2>2, <2>3 DEF Polls
  <2>5. poll'.pc = "issue" /\ poll'.offset = 0 /\ poll'.found = {} /\ poll'.newest = 0
    BY <2>2
  <2> QED
    BY <1>1, <2>2, <2>4, <2>5, PollMoves
<1>3. CASE EndPoll
  <2>1. poll' = Waiting /\ cursor' \in {cursor, NextPage} /\ poll.pc = "issue"
        /\ source.state = "running"
    BY <1>3 DEF EndPoll, SentryInv
  <2>2. NextPage \in Groups
    <3>1. QED
      BY <1>1, GroupsCount DEF NextPage
  <2>3. Waiting \in Polls /\ Waiting.pc = "waiting" /\ Waiting.offset = 0 /\ Waiting.found = {}
        /\ Waiting.newest = 0
    BY DEF Waiting, Polls
  <2>4. cursor' \in Groups /\ poll'.pc = "waiting" /\ poll'.offset = 0 /\ poll'.found = {}
        /\ poll'.newest = 0
        /\ poll' \in Polls
    BY <1>1, <2>1, <2>2, <2>3
  <2> QED
    BY <1>1, <2>1, <2>4, PollMoves
<1>4. CASE PollIssue
  <2>1. /\ poll.pc = "issue" /\ poll.todo # <<>> /\ poll' = [poll EXCEPT !.pc = "events"]
        /\ UNCHANGED cursor
        /\ poll.offset = 0 /\ poll.found = {} /\ poll.newest = 0 /\ source.state = "running"
    BY <1>4 DEF PollIssue, SentryInv
  <2>2. poll' \in Polls /\ poll'.pc = "events" /\ poll'.offset = 0 /\ poll'.newest = 0
        /\ poll'.todo = poll.todo
    BY <1>1, <2>1 DEF Polls
  <2>3. PICK g \in Groups : g = Head(poll.todo)
    BY <1>1, <2>1 DEF Polls
  <2>4. events[g] \in Nat /\ events[g] >= 1 /\ watermark[g] <= events[g]
    BY GroupsCount DEF SentryInv
  <2>5. Collected(g)'
    BY <1>1, <2>2, <2>4 DEF Collected, sentry
  <2> QED
    BY <1>1, <2>1, <2>2, <2>3, <2>5, GroupsCount DEF SentryInv, NothingSkipped, sentry
<1> QED
  BY <1>2, <1>3, <1>4

(* A page more: what lies between it and the newest event has been found. *)
LEMMA CollectKeeps ==
  ASSUME SentryInv, CollectEvents, scenario = "sentry", UNCHANGED scenario
  PROVE  SentryInv'
<1>1. /\ poll \in Polls /\ poll.pc = "events"
      /\ UNCHANGED <<sentry, cursor, watermark, first, accepted, source>>
      /\ UNCHANGED <<page, events, oldest>>
      /\ poll.todo # <<>> /\ poll.newest <= MaxEvents /\ source.state = "running"
  BY DEF SentryInv, CollectEvents, settingsVars, sentry
<1>2. PICK g \in Groups : g = Head(poll.todo)
  BY <1>1 DEF Polls
<1> DEFINE k == events[g] - poll.offset
           newest == IF poll.newest = 0 THEN k ELSE poll.newest
<1>3. /\ events[g] \in Nat /\ watermark[g] \in Nat /\ poll.offset \in Nat /\ poll.newest \in Nat
      /\ k \in Nat /\ k <= MaxEvents /\ k >= 1 /\ watermark[g] <= k /\ Collected(g)
      /\ MaxEvents \in Nat /\ oldest[g] \in Nat
      /\ k <= events[g] /\ events[g] <= MaxEvents
  <2>1. Collected(g)
    BY <1>1, <1>2 DEF SentryInv
  <2>2. k \in Nat /\ k >= 1 /\ watermark[g] <= k
    BY <1>1, <2>1 DEF Collected
  <2>3. QED
    BY <2>1, <2>2, SentryTypes
<1>4. newest \in Nat /\ newest <= events[g] /\ newest <= MaxEvents /\ newest >= 1
      /\ watermark[g] <= newest
  BY <1>1, <1>3 DEF Collected
<1>5. \A e \in k + 1 .. newest : e \in poll.found
  BY <1>1, <1>3 DEF Collected
<1>6. CASE poll' \in {NextIssue, IssueFails}
  BY <1>1, <1>6, PollMoves, IssueLeft DEF SentryInv
<1>7. CASE watermark[g] = 0
           /\ poll' = [poll EXCEPT !.pc = "deliver", !.found = {k}, !.newest = newest]
  <2>1. poll' \in Polls /\ poll'.pc = "deliver" /\ poll'.found = {k} /\ poll'.newest = newest
        /\ poll'.todo = poll.todo
    BY <1>1, <1>3, <1>4, <1>7 DEF Polls
  <2>2. newest = k
    BY <1>1, <1>3, <1>7 DEF Collected
  <2>3. Collected(g)'
    BY <1>1, <1>3, <1>4, <1>7, <2>1, <2>2 DEF Collected
  <2> QED
    BY <1>1, <1>2, <1>4, <2>1, <2>3 DEF SentryInv, NothingSkipped
<1>8. CASE watermark[g] # 0 /\ watermark[g] = k
           /\ poll' = [poll EXCEPT !.pc = "deliver", !.newest = newest]
  <2>1. poll' \in Polls /\ poll'.pc = "deliver" /\ poll'.found = poll.found
        /\ poll'.newest = newest /\ poll'.todo = poll.todo
    BY <1>1, <1>3, <1>4, <1>8 DEF Polls
  <2>2. Collected(g)'
    BY <1>1, <1>3, <1>4, <1>5, <1>8, <2>1 DEF Collected
  <2> QED
    BY <1>1, <1>2, <1>4, <2>1, <2>2 DEF SentryInv, NothingSkipped
<1>9. CASE /\ watermark[g] # 0 /\ watermark[g] # k
           /\ poll' = [poll EXCEPT !.found = @ \cup {k}, !.newest = newest, !.offset = @ + 1]
  <2>1. /\ poll' \in Polls /\ poll'.pc = "events" /\ poll'.found = poll.found \cup {k}
        /\ poll'.newest = newest
        /\ poll'.todo = poll.todo /\ poll'.offset = poll.offset + 1
    <3>1. poll.found \cup {k} \in SUBSET Nat /\ poll.offset + 1 \in Nat /\ newest \in Nat
      BY <1>1, <1>3, <1>4 DEF Polls
    <3> HIDE DEF newest, k
    <3> QED
      BY <1>1, <1>9, <3>1 DEF Polls
  <2>2. events[g] - (poll.offset + 1) = k - 1 /\ watermark[g] <= k - 1
    BY <1>3, <1>9
  <2>3. \A e \in k .. newest : e \in poll.found \cup {k}
    BY <1>3, <1>4, <1>5
  <2>4. Collected(g)'
    <3> HIDE DEF newest
    <3> QED
      BY <1>1, <1>3, <1>4, <1>9, <2>1, <2>2, <2>3 DEF Collected
  <2> QED
    BY <1>1, <1>2, <1>4, <2>1, <2>4 DEF SentryInv, NothingSkipped
<1>10. \/ poll' = IssueFails
       \/ poll' = CASE k < oldest[g] -> IF watermark[g] = 0 THEN NextIssue ELSE IssueFails
                    [] k >= oldest[g] /\ watermark[g] = 0 -> Adapt({k}, newest)
                    [] k >= oldest[g] /\ watermark[g] = k -> Adapt(poll.found, newest)
                    [] k >= oldest[g] /\ watermark[g] \notin {0, k} ->
                         IF k = oldest[g] \/ poll.offset + 1 = MaxPages THEN IssueFails
                         ELSE [poll EXCEPT !.found = @ \cup {k}, !.newest = newest,
                                           !.offset = @ + 1]
  BY <1>2 DEF CollectEvents
<1>11. k # 0 /\ (k < oldest[g] \/ k >= oldest[g])
  BY <1>3
<1>12. /\ Adapt({k}, newest) \in
            {IssueFails, [poll EXCEPT !.pc = "deliver", !.found = {k}, !.newest = newest]}
       /\ Adapt(poll.found, newest) \in
            {IssueFails, [poll EXCEPT !.pc = "deliver", !.found = poll.found, !.newest = newest]}
  BY DEF Adapt
<1>13. [poll EXCEPT !.pc = "deliver", !.found = poll.found, !.newest = newest]
         = [poll EXCEPT !.pc = "deliver", !.newest = newest]
  BY <1>1 DEF Polls
<1> HIDE DEF newest, k
<1> QED
  BY <1>6, <1>7, <1>8, <1>9, <1>10, <1>11, <1>12, <1>13

(* An event goes to the intake, and is not to be found any more. *)
LEMMA DeliverKeeps ==
  ASSUME SentryInv, Deliver, scenario = "sentry", UNCHANGED scenario
  PROVE  SentryInv'
<1>1. /\ poll \in Polls /\ poll.pc = "deliver"
      /\ UNCHANGED <<sentry, cursor, watermark, first, source>>
      /\ UNCHANGED <<page, events, oldest>>
      /\ poll.todo # <<>> /\ poll.newest <= MaxEvents /\ source.state = "running"
      /\ accepted \subseteq accepted'
  BY DEF SentryInv, Deliver, settingsVars, sentry
<1>2. PICK g \in Groups : g = Head(poll.todo)
  BY <1>1 DEF Polls
<1>3. CASE poll' = IssueFails
  BY <1>1, <1>3, PollMoves, IssueLeft DEF SentryInv
<1>4. CASE poll' = [poll EXCEPT !.found = @ \ {Oldest}] /\ accepted' = accepted \cup {<<g, Oldest>>}
  <2>1. poll' \in Polls /\ poll'.pc = "deliver" /\ poll'.found = poll.found \ {Oldest}
        /\ poll'.newest = poll.newest /\ poll'.todo = poll.todo
    BY <1>1, <1>4 DEF Polls
  <2>2. Collected(g)
    BY <1>1, <1>2 DEF SentryInv
  <2>3. \A e : (e \in poll.found \/ <<g, e>> \in accepted)
          => (e \in poll'.found \/ <<g, e>> \in accepted')
    BY <1>4, <2>1
  <2>4. Collected(g)'
    BY <1>1, <2>1, <2>2, <2>3 DEF Collected
  <2>5. NothingSkipped'
    BY <1>1 DEF SentryInv, NothingSkipped
  <2> QED
    BY <1>1, <1>2, <2>1, <2>4, <2>5 DEF SentryInv
<1> QED
  BY <1>2, <1>3, <1>4 DEF Deliver

(* The watermark is saved once all that was found is in the intake. *)
LEMMA WatermarkKeeps ==
  ASSUME SentryInv, SaveWatermark, scenario = "sentry", UNCHANGED scenario
  PROVE  SentryInv'
<1>1. /\ poll \in Polls /\ poll.pc = "deliver"
      /\ UNCHANGED <<page, events, oldest, cursor, accepted, source>>
      /\ poll.found = {}
      /\ poll.todo # <<>> /\ poll.newest <= MaxEvents /\ source.state = "running"
      /\ poll' = NextIssue
  BY DEF SentryInv, SaveWatermark, settingsVars, sentry
<1>2. PICK g \in Groups : g = Head(poll.todo)
  BY <1>1 DEF Polls
<1>3. /\ watermark' = [watermark EXCEPT ![g] = poll.newest]
      /\ first' = [first EXCEPT ![g] = IF @ = 0 THEN poll.newest ELSE @]
  BY <1>2 DEF SaveWatermark
<1>4. /\ Collected(g) /\ watermark \in [Groups -> 0 .. MaxEvents]
      /\ first \in [Groups -> 0 .. MaxEvents]
      /\ MaxEvents \in Nat /\ poll.newest \in Nat /\ first[g] \in Nat /\ watermark[g] \in Nat
      /\ (first[g] = 0 <=> watermark[g] = 0) /\ events[g] \in Nat /\ events[g] <= MaxEvents
  <2>1. Collected(g)
    BY <1>1, <1>2 DEF SentryInv
  <2>2. QED
    BY <2>1, SentryTypes
<1>5. poll.newest \in 1 .. MaxEvents /\ poll.newest <= events[g]
  BY <1>1, <1>4 DEF Collected
<1>6. /\ watermark' \in [Groups -> 0 .. MaxEvents] /\ first' \in [Groups -> 0 .. MaxEvents]
      /\ watermark'[g] = poll.newest /\ first'[g] = (IF first[g] = 0 THEN poll.newest ELSE first[g])
      /\ \A h \in Groups \ {g} : watermark'[h] = watermark[h] /\ first'[h] = first[h]
  BY <1>3, <1>4, <1>5
<1>7. ASSUME NEW k \in first'[g] .. poll.newest PROVE k = 0 \/ <<g, k>> \in accepted
  <2>1. first'[g] \in Nat /\ k \in Nat
    BY <1>4, <1>6
  <2>2. CASE watermark[g] = 0
    <3>1. k = poll.newest
      BY <1>4, <1>5, <1>6, <1>7, <2>1, <2>2
    <3>2. QED
      BY <1>1, <1>4, <1>5, <2>2, <3>1 DEF Collected
  <2>3. CASE watermark[g] # 0 /\ k <= watermark[g]
    <3>1. k \in first[g] .. watermark[g]
      BY <1>4, <1>6, <1>7, <2>1, <2>3
    <3>2. QED
      BY <3>1 DEF SentryInv, NothingSkipped
  <2>4. CASE watermark[g] # 0 /\ ~(k <= watermark[g])
    <3>1. k \in watermark[g] + 1 .. poll.newest
      BY <1>4, <1>7, <2>1, <2>4
    <3>2. QED
      BY <1>1, <1>4, <2>4, <3>1 DEF Collected
  <2> QED
    BY <2>2, <2>3, <2>4
<1>8. NothingSkipped'
  BY <1>1, <1>6, <1>7 DEF SentryInv, NothingSkipped
<1>9. \A h \in Groups : watermark'[h] <= events[h] /\ (first'[h] = 0 <=> watermark'[h] = 0)
  BY <1>4, <1>5, <1>6, SentryTypes
<1>10. poll' \in Polls /\ poll'.pc = "issue" /\ poll'.offset = 0 /\ poll'.found = {}
       /\ poll'.newest = 0
  BY <1>1, IssueLeft
<1>11. /\ events' \in [Groups -> 1 .. MaxEvents] /\ oldest' \in [Groups -> Nat]
       /\ cursor' \in Groups /\ page' \in [Groups -> Groups]
  BY <1>1 DEF SentryInv
<1>12. \A h \in Groups : watermark'[h] <= events'[h] /\ (first'[h] = 0 <=> watermark'[h] = 0)
  BY <1>1, <1>9
<1> QED
  BY <1>1, <1>4, <1>6, <1>8, <1>10, <1>11, <1>12 DEF SentryInv

(* The invariant holds at first. *)
LEMMA InitSentryHolds ==
  ASSUME InitSentry
  PROVE  SentryInv
<1>1. Waiting \in Polls /\ Waiting.pc = "waiting" /\ Waiting.newest = 0
  BY DEF Waiting, Polls
<1>2. /\ events = [g \in Groups |-> 1] /\ cursor = 1 /\ watermark = [g \in Groups |-> 0]
      /\ first = watermark /\ accepted = {} /\ poll = Waiting /\ oldest = events
      /\ page \in [Groups -> Groups]
  BY DEF InitSentry, Pagings
<1>3. /\ events \in [Groups -> 1 .. MaxEvents] /\ oldest \in [Groups -> Nat]
      /\ watermark \in [Groups -> 0 .. MaxEvents]
      /\ first \in [Groups -> 0 .. MaxEvents]
      /\ \A g \in Groups : watermark[g] = 0 /\ first[g] = 0 /\ events[g] = 1
  BY <1>2, GroupsCount
<1>4. NothingSkipped
  BY <1>3 DEF NothingSkipped
<1> QED
  BY <1>1, <1>2, <1>3, <1>4, GroupsCount DEF SentryInv

-----------------------------------------------------------------------------
(* The DingTalk source. *)

(* A step that leaves the stream alone keeps its invariant, if the source goes on. *)
LEMMA StreamRests ==
  ASSUME DingTalkInv, UNCHANGED dingtalkVars, UNCHANGED scenario,
         stream = "open" => source'.state = "running"
  PROVE  DingTalkInv'
BY DEF DingTalkInv, dingtalkVars, AcknowledgedIsKept

(* The process is gone, and with it what was being handled. *)
LEMMA StreamLoses ==
  ASSUME DingTalkInv, StreamLosesRuntime
  PROVE  DingTalkInv'
BY DEF DingTalkInv, StreamLosesRuntime, NoCalls, AcknowledgedIsKept

(* connect() has resolved. *)
LEMMA StreamOpens ==
  ASSUME DingTalkInv, OpenStream, scenario = "dingtalk", UNCHANGED scenario
  PROVE  DingTalkInv'
<1>1. UNCHANGED source /\ UNCHANGED <<acknowledged, taken, handling>> /\ stream' = "open"
      /\ source.state = "running"
  BY DEF OpenStream, settingsVars
<1> QED
  BY <1>1 DEF DingTalkInv, AcknowledgedIsKept

(* disconnect(): what was in the intake is not acknowledged any more. *)
LEMMA StreamCloses ==
  ASSUME DingTalkInv, CloseStream, UNCHANGED scenario
  PROVE  DingTalkInv'
<1>1. UNCHANGED <<acknowledged, taken>> /\ stream' = "closed" /\ handling' = Late
  BY DEF CloseStream
<1>2. handling' \in [Calls -> {"none", "new", "late", "taken"}]
      /\ \A c \in Calls : handling'[c] # "taken"
  BY <1>1 DEF Late, DingTalkInv
<1> QED
  BY <1>1, <1>2 DEF DingTalkInv, AcknowledgedIsKept

(* handle() begins, or turns the message down. *)
LEMMA Received ==
  ASSUME DingTalkInv, NEW m \in Messages, Receives(m), UNCHANGED scenario
  PROVE  DingTalkInv'
<1>1. UNCHANGED source /\ UNCHANGED <<stream, taken>>
  BY DEF Receives, settingsVars
<1>2. CASE m \in Refused
  BY <1>1, <1>2 DEF Receives, DingTalkInv, AcknowledgedIsKept
<1>3. CASE m \notin Refused
  <2>1. UNCHANGED acknowledged
    BY <1>3 DEF Receives
  <2>2. PICK c \in Calls : handling' = [handling EXCEPT ![c] = "new"]
    BY <1>3 DEF Receives
  <2>3. handling' \in [Calls -> {"none", "new", "late", "taken"}]
        /\ \A d \in Calls : handling'[d] = "taken" => handling[d] = "taken"
    BY <2>2 DEF DingTalkInv
  <2> QED
    BY <1>1, <2>1, <2>3 DEF DingTalkInv, AcknowledgedIsKept
<1> QED
  BY <1>2, <1>3

(* The intake has the message, or has failed. *)
LEMMA InputTaken ==
  ASSUME DingTalkInv, NEW c \in Calls, OnInput(c), UNCHANGED scenario
  PROVE  DingTalkInv'
<1>1. UNCHANGED source /\ UNCHANGED <<stream, acknowledged>> /\ handling[c] \in {"new", "late"}
  BY DEF OnInput, settingsVars
<1>2. CASE /\ taken' = taken \cup {c[1]}
           /\ handling' = [handling EXCEPT ![c] = IF @ = "new" THEN "taken" ELSE "none"]
  <2>1. handling' \in [Calls -> {"none", "new", "late", "taken"}]
        /\ \A d \in Calls : handling'[d] = "taken" => handling[d] = "taken" \/ d = c
    BY <1>2 DEF DingTalkInv
  <2> QED
    BY <1>1, <1>2, <2>1 DEF DingTalkInv, AcknowledgedIsKept
<1>3. CASE handling' = [handling EXCEPT ![c] = "none"] /\ UNCHANGED taken
  <2>1. handling' \in [Calls -> {"none", "new", "late", "taken"}]
        /\ \A d \in Calls : handling'[d] = "taken" => handling[d] = "taken"
    BY <1>3 DEF DingTalkInv
  <2> QED
    BY <1>1, <1>3, <2>1 DEF DingTalkInv, AcknowledgedIsKept
<1> QED
  BY <1>2, <1>3 DEF OnInput

(* Only a message that is in the intake is acknowledged. *)
LEMMA InputAcknowledged ==
  ASSUME DingTalkInv, NEW c \in Calls, Acknowledge(c), UNCHANGED scenario
  PROVE  DingTalkInv'
<1>1. /\ UNCHANGED source /\ UNCHANGED <<stream, taken>> /\ handling[c] = "taken"
      /\ handling' = [handling EXCEPT ![c] = "none"] /\ acknowledged' = acknowledged \cup {c[1]}
  BY DEF Acknowledge, settingsVars
<1>2. handling' \in [Calls -> {"none", "new", "late", "taken"}]
      /\ \A d \in Calls : handling'[d] = "taken" => handling[d] = "taken"
  BY <1>1 DEF DingTalkInv
<1>3. c[1] \in taken
  BY <1>1 DEF DingTalkInv
<1> QED
  BY <1>1, <1>2, <1>3 DEF DingTalkInv, AcknowledgedIsKept

(* A message is sent. *)
LEMMA MessageSent ==
  ASSUME DingTalkInv, NEW m \in Messages, SendMessage(m), UNCHANGED scenario
  PROVE  DingTalkInv'
BY DEF DingTalkInv, SendMessage, settingsVars, AcknowledgedIsKept

(* The invariant holds at first. *)
LEMMA InitStream ==
  ASSUME InitDingTalk
  PROVE  DingTalkInv
BY DEF InitDingTalk, NoCalls, DingTalkInv, AcknowledgedIsKept

-----------------------------------------------------------------------------
(* The rows and the detail of the window. *)

(* RowsNeverGoBack, of one step. *)
Forward ==
  /\ \A i \in Issues : rows'[i] >= rows[i]
  /\ detail'.issue = detail.issue => detail'.revision >= detail.revision

(* Revisions are numbers, and the last of an Issue is within the bound. *)
LEMMA ViewNumbers ==
  ASSUME ViewTypes
  PROVE  /\ MaxRevision \in Nat /\ MaxRevision >= 2 /\ none \notin Issues
         /\ \A i \in Issues : /\ revision[i] \in Nat /\ rows[i] \in Nat /\ snapshot[i] \in Nat
                              /\ revision[i] <= MaxRevision /\ rows[i] <= MaxRevision
                              /\ Final(i) \in Nat /\ Final(i) <= MaxRevision /\ Final(i) >= 1
         /\ detail.revision \in Nat
<1>1. MaxRevision \in Nat /\ MaxRevision >= 2 /\ none \notin Issues
  BY ViewAssumption
<1>2. ASSUME NEW i \in Issues
      PROVE  revision[i] \in 0 .. MaxRevision /\ rows[i] \in 0 .. MaxRevision
             /\ snapshot[i] \in 0 .. MaxRevision
  BY DEF ViewTypes
<1>3. detail.revision \in 0 .. MaxRevision
  BY DEF ViewTypes
<1> QED
  BY <1>1, <1>2, <1>3 DEF Final

(* A step that leaves the window alone keeps its invariant. *)
LEMMA ViewRests ==
  ASSUME ViewInv, UNCHANGED viewVars
  PROVE  ViewInv' /\ Forward
<1>1. UNCHANGED <<revision, loaded, snapshot, rows, selected, detail, mounted, link,
                  unread, woken, requests, answers>>
  BY DEF viewVars, loading, window, links
<1>2. ViewTypes' /\ Shows' /\ Creates'
  BY <1>1 DEF ViewInv, ViewTypes, Shows, Creates
<1>3. Forward
  BY <1>1, ViewNumbers DEF ViewInv, Forward
<1> QED
  BY <1>2, <1>3 DEF ViewInv

(* Render: what an effect made anew leaves of subscriptions and requests. *)
LEMMA Rendered ==
  ASSUME ViewTypes, NEW newRows, NEW newSelected \in Issues \cup {none},
         NEW newMounted \in BOOLEAN, NEW asked, asked \subseteq requests,
         Render(newRows, newSelected, newMounted, asked)
  PROVE  /\ rows' = newRows /\ selected' = newSelected /\ mounted' = newMounted
         /\ link' \in [Issues -> Links] /\ woken' \subseteq woken
         /\ \A i \in Issues : link'[i] = "none" => i \notin unread' \cup woken'
         /\ requests' \subseteq Requested
         /\ \A q \in requests' : q \in requests \/ q.by = "select"
<1> DEFINE remade == Remade(newRows, newSelected, newMounted)
           joins == {i \in remade :
                newMounted /\ i \in Followed(newRows, newSelected, TRUE) \cup {newSelected}}
           chosen == IF newSelected # selected /\ Connected THEN {newSelected} \ {none} ELSE {}
           stale == {q \in asked : \/ q.by = "list" /\ q.issue \in remade
                                   \/ q.by = "select" /\ newSelected # selected}
<1>1. /\ rows' = newRows /\ selected' = newSelected /\ mounted' = newMounted
      /\ link' = [i \in Issues |-> IF i \notin remade THEN link[i] ELSE
                                   IF i \notin joins THEN "none" ELSE
                                   IF Connected THEN "joined" ELSE "lost"]
      /\ unread' = Unread(joins) \ (remade \ joins) /\ woken' = woken \ remade
      /\ requests' = (asked \ stale) \cup {Request(i, "select") : i \in chosen}
  BY DEF Render
<1>2. joins \subseteq remade /\ chosen \subseteq Issues
  OBVIOUS
<1> HIDE DEF remade, joins, chosen, stale
<1>3. link' \in [Issues -> Links] /\ woken' \subseteq woken
  BY <1>1 DEF ViewTypes, Links
<1>4. ASSUME NEW i \in Issues, link'[i] = "none" PROVE i \notin unread' \cup woken'
  BY <1>1, <1>2, <1>4 DEF ViewTypes, Unread
<1>5. ASSUME NEW q \in requests' PROVE q \in Requested /\ (q \in requests \/ q.by = "select")
  BY <1>1, <1>2, <1>5 DEF ViewTypes, Request, Requested, Reads
<1> QED
  BY <1>1, <1>3, <1>4, <1>5

(* More requests to read, and fewer answers. *)
LEMMA CreatesKeeps ==
  ASSUME ViewInv, UNCHANGED revision, answers' \subseteq answers,
         \A q \in requests' : q \in requests \/ q.by \in Reads,
         \A a \in answers' : a.by = "create" => rows'[a.issue] = 0
  PROVE  Creates'
<1>1. ASSUME NEW q \in requests', q.by \in {"command", "create"} PROVE q \in requests
  BY <1>1 DEF Reads
<1>2. \A i \in Issues : Request(i, "canceled") \in requests' => Request(i, "canceled") \in requests
  BY DEF Request, Reads
<1>3. \A q \in requests : q.issue \in Issues
  BY DEF ViewInv, ViewTypes, Requested
<1> QED
  BY <1>1, <1>2, <1>3 DEF ViewInv, Creates

(* A render that shows rows no older than those before keeps the invariant. *)
LEMMA ShowsKeeps ==
  ASSUME ViewInv, UNCHANGED revision, loaded' = "shown",
         NEW newRows \in [Issues -> 0 .. MaxRevision], NEW newSelected \in Issues \cup {none},
         NEW newMounted \in BOOLEAN, NEW asked, asked \subseteq requests,
         Render(newRows, newSelected, newMounted, asked),
         \A i \in Issues : newRows[i] >= rows[i] /\ newRows[i] <= revision[i],
         newSelected # none => newRows[newSelected] # 0,
         snapshot' \in {snapshot, Unchanged}, answers' \subseteq answers,
         \A a \in answers' : a.by = "create" => newRows[a.issue] = 0,
         \/ detail' \in {detail, Nothing}
         \/ /\ detail' \in [issue : Issues, revision : 0 .. MaxRevision]
            /\ detail'.revision # 0 /\ detail'.revision = newRows[detail'.issue]
  PROVE  ViewInv' /\ Forward
<1>1. ViewTypes /\ Shows /\ Creates
  BY DEF ViewInv
<1>2. /\ rows' = newRows /\ selected' = newSelected /\ mounted' = newMounted
      /\ link' \in [Issues -> Links] /\ woken' \subseteq woken
      /\ \A i \in Issues : link'[i] = "none" => i \notin unread' \cup woken'
      /\ requests' \subseteq Requested
      /\ \A q \in requests' : q \in requests \/ q.by = "select"
  BY <1>1, Rendered
<1>3. Creates'
  BY <1>2, CreatesKeeps DEF Reads
<1>4. Unchanged \in [Issues -> 0 .. MaxRevision] /\ \A i \in Issues : Unchanged[i] = 0
  BY <1>1, ViewNumbers DEF Unchanged
<1>5. detail' \in [issue : Issues \cup {none}, revision : 0 .. MaxRevision]
  BY <1>1, ViewNumbers DEF ViewTypes, Nothing
<1>6. ViewTypes'
  BY <1>1, <1>2, <1>4, <1>5 DEF ViewTypes
<1>7. /\ IF detail'.issue = none THEN detail' = Nothing
            ELSE detail'.revision <= rows'[detail'.issue]
      /\ detail'.issue # none => detail'.revision # 0
  <2>1. CASE detail' = detail
    <3>1. detail.issue # none => detail.issue \in Issues
      BY <1>1 DEF ViewTypes
    <3>2. CASE detail.issue = none
      BY <1>1, <2>1, <3>2 DEF Shows
    <3>3. CASE detail.issue # none
      <4>1. detail.revision <= rows[detail.issue] /\ detail.revision # 0
        BY <1>1, <3>3 DEF Shows
      <4>2. rows[detail.issue] <= newRows[detail.issue] /\ newRows[detail.issue] \in Nat
            /\ rows[detail.issue] \in Nat /\ detail.revision \in Nat
        BY <1>1, <3>1, <3>3, ViewNumbers
      <4> QED
        BY <1>2, <2>1, <3>3, <4>1, <4>2
    <3> QED
      BY <3>2, <3>3
  <2>2. CASE detail' = Nothing
    BY <2>2 DEF Nothing
  <2>3. CASE /\ detail' \in [issue : Issues, revision : 0 .. MaxRevision]
             /\ detail'.revision # 0 /\ detail'.revision = newRows[detail'.issue]
    <3>1. detail'.issue # none /\ newRows[detail'.issue] \in Nat
      BY <1>1, <2>3, ViewNumbers
    <3> QED
      BY <1>2, <2>3, <3>1
  <2> QED
    BY <2>1, <2>2, <2>3
<1>8. \A i \in Issues : rows'[i] <= revision'[i] /\ snapshot'[i] <= revision'[i]
  BY <1>1, <1>2, <1>4, ViewNumbers DEF Shows
<1>9. Shows'
  BY <1>2, <1>7, <1>8 DEF Shows
<1>10. ASSUME detail'.issue = detail.issue PROVE detail'.revision >= detail.revision
  <2>1. CASE detail' = detail
    BY <1>1, <2>1, ViewNumbers
  <2>2. CASE detail' = Nothing
    BY <1>1, <1>10, <2>2 DEF Shows, Nothing
  <2>3. CASE /\ detail' \in [issue : Issues, revision : 0 .. MaxRevision]
             /\ detail'.revision # 0 /\ detail'.revision = newRows[detail'.issue]
    <3>1. detail.issue \in Issues /\ detail.issue # none
      BY <1>1, <1>10, <2>3, ViewNumbers
    <3>2. detail.revision <= rows[detail.issue] /\ rows[detail.issue] <= newRows[detail.issue]
          /\ rows[detail.issue] \in Nat /\ detail.revision \in Nat /\ newRows[detail.issue] \in Nat
      BY <1>1, <3>1, ViewNumbers DEF Shows
    <3> QED
      BY <1>10, <2>3, <3>2
  <2> QED
    BY <2>1, <2>2, <2>3
<1>11. Forward
  BY <1>2, <1>10 DEF Forward
<1> QED
  BY <1>3, <1>6, <1>9, <1>11 DEF ViewInv

(* updateIssue: an answer is either ignored, or no older than what is shown. *)
LEMMA UpdateKeeps ==
  ASSUME ViewInv, loaded = "shown", UNCHANGED <<revision, loading>>, answers' \subseteq answers,
         NEW a, a.issue \in Issues, a.revision \in 0 .. MaxRevision,
         a.revision <= revision[a.issue],
         NEW asked, asked \subseteq requests, UpdateIssue(a, asked)
  PROVE  ViewInv' /\ Forward
<1>1. ViewTypes /\ Shows /\ Creates /\ loaded' = "shown" /\ snapshot' = snapshot
  BY DEF ViewInv, loading
<1>2. CASE ~Newer(a)
  <2>1. requests' = asked /\ UNCHANGED <<rows, selected, detail, mounted, link, unread, woken>>
    BY <1>2 DEF UpdateIssue, window, links
  <2>2. Creates'
    BY <1>1, <2>1, CreatesKeeps DEF Creates
  <2>3. ViewTypes' /\ Shows'
    BY <1>1, <2>1 DEF ViewTypes, Shows
  <2>4. Forward
    BY <1>1, <2>1, ViewNumbers DEF Forward
  <2> QED
    BY <2>2, <2>3, <2>4 DEF ViewInv
<1>3. CASE Newer(a)
  <2> DEFINE newRows == [rows EXCEPT ![a.issue] = IF @ = 0 THEN 0 ELSE a.revision]
  <2>1. /\ Render(newRows, selected, mounted, asked)
        /\ detail' = IF a.issue = selected THEN [issue |-> a.issue, revision |-> a.revision]
                     ELSE detail
    BY <1>3 DEF UpdateIssue
  <2>2. /\ newRows \in [Issues -> 0 .. MaxRevision]
        /\ newRows[a.issue] = IF rows[a.issue] = 0 THEN 0 ELSE a.revision
        /\ \A i \in Issues : i # a.issue => newRows[i] = rows[i]
    BY <1>1 DEF ViewTypes
  <2>3. selected \in Issues \cup {none} /\ mounted \in BOOLEAN
    BY <1>1 DEF ViewTypes
  <2> HIDE DEF newRows
  <2>4. a.revision >= rows[a.issue] /\ a.revision \in Nat
    BY <1>1, <1>3, ViewNumbers DEF Newer
  <2>5. \A i \in Issues : newRows[i] >= rows[i] /\ newRows[i] <= revision[i]
    BY <1>1, <2>2, <2>4, ViewNumbers DEF Shows
  <2>6. selected # none => newRows[selected] # 0
    <3>1. selected # none => selected \in Issues /\ rows[selected] # 0
      BY <1>1, <2>3 DEF Shows
    <3> QED
      BY <1>1, <2>2, <2>4, <3>1, ViewNumbers
  <2>7. \A b \in answers' : b.by = "create" => newRows[b.issue] = 0
    BY <1>1, <2>2 DEF Creates, ViewTypes, Answered
  <2>8. \/ detail' = detail
        \/ /\ detail' \in [issue : Issues, revision : 0 .. MaxRevision]
           /\ detail'.revision # 0 /\ detail'.revision = newRows[detail'.issue]
    <3>1. CASE a.issue = selected
      <4>1. rows[a.issue] # 0 /\ a.revision # 0
        BY <1>1, <2>4, <3>1, ViewNumbers DEF Shows
      <4> QED
        BY <2>1, <2>2, <3>1, <4>1
    <3>2. CASE a.issue # selected
      BY <2>1, <3>2
    <3> QED
      BY <3>1, <3>2
  <2> QED
    BY <1>1, <2>1, <2>2, <2>3, <2>5, <2>6, <2>7, <2>8, ShowsKeeps
<1> QED
  BY <1>2, <1>3

(* The list is asked for and answered. *)
LEMMA ListLoads ==
  ASSUME ViewInv, AskList \/ ServeList
  PROVE  ViewInv' /\ Forward
<1>1. /\ UNCHANGED <<revision, rows, selected, detail, mounted, link, unread,
                     woken, requests, answers>>
      /\ loaded \in {"no", "asked"} /\ loaded' \in {"asked", "failed", "answered"}
      /\ snapshot' \in {snapshot, revision}
  BY DEF AskList, ServeList, window, links
<1>2. ViewTypes /\ Shows /\ Creates
  BY DEF ViewInv
<1>3. ViewTypes' /\ Creates'
  BY <1>1, <1>2 DEF ViewTypes, Creates
<1>4. \A i \in Issues : rows'[i] <= revision'[i] /\ snapshot'[i] <= revision'[i]
  BY <1>1, <1>2, ViewNumbers DEF Shows
<1>5. Shows'
  BY <1>1, <1>2, <1>4 DEF Shows
<1>6. Forward
  BY <1>1, <1>2, ViewNumbers DEF Forward
<1> QED
  BY <1>3, <1>5, <1>6 DEF ViewInv

(* The list is shown: nothing was before. *)
LEMMA ListShown ==
  ASSUME ViewInv, Load
  PROVE  ViewInv' /\ Forward
<1>1. /\ loaded = "answered" /\ loaded' = "shown" /\ snapshot' = Unchanged
      /\ UNCHANGED <<revision, detail, answers>>
  BY DEF Load
<1>2. PICK s \in {none} \cup Followed(snapshot, none, TRUE) : Render(snapshot, s, mounted, requests)
  BY DEF Load
<1>3. ViewTypes /\ Shows /\ Creates /\ rows = Unchanged /\ answers = {}
  BY <1>1 DEF ViewInv, Shows
<1>4. snapshot \in [Issues -> 0 .. MaxRevision] /\ mounted \in BOOLEAN
  BY <1>3 DEF ViewTypes
<1>5. s \in Issues \cup {none} /\ (s # none => snapshot[s] # 0)
  BY <1>3, ViewNumbers DEF Followed
<1>6. \A i \in Issues : snapshot[i] >= rows[i] /\ snapshot[i] <= revision[i]
  BY <1>3, ViewNumbers DEF Shows, Unchanged
<1> QED
  BY <1>1, <1>2, <1>3, <1>4, <1>5, <1>6, ShowsKeeps

(* A render with the same rows. *)
LEMMA RowsRender ==
  ASSUME ViewInv, loaded = "shown", UNCHANGED <<revision, loading, answers>>,
         detail' \in {detail, Nothing},
         NEW s, s = selected \/ s = none \/ (s \in Issues /\ rows[s] # 0), NEW m \in BOOLEAN,
         Render(rows, s, m, requests)
  PROVE  ViewInv' /\ Forward
<1>1. loaded' = "shown" /\ snapshot' = snapshot
  BY DEF loading
<1>2. ViewTypes /\ Shows /\ Creates /\ rows \in [Issues -> 0 .. MaxRevision]
  BY DEF ViewInv, ViewTypes
<1>3. s \in Issues \cup {none} /\ (s # none => rows[s] # 0)
  BY <1>2 DEF ViewTypes, Shows
<1>4. \A j \in Issues : rows[j] >= rows[j] /\ rows[j] <= revision[j]
  BY <1>2, ViewNumbers DEF Shows
<1>5. \A a \in answers' : a.by = "create" => rows[a.issue] = 0
  BY <1>2 DEF Creates
<1> QED
  BY <1>1, <1>2, <1>3, <1>4, <1>5, ShowsKeeps

(* Going somewhere renders other things with the same rows. *)
LEMMA UserMoves ==
  ASSUME ViewInv, Deselect \/ GoTo \/ \E i \in Issues : Select(i)
  PROVE  ViewInv' /\ Forward
<1>1. mounted \in BOOLEAN
  BY DEF ViewInv, ViewTypes
<1>2. CASE Deselect
  BY <1>1, <1>2, RowsRender DEF Deselect, Moves
<1>3. CASE GoTo
  BY <1>1, <1>3, RowsRender DEF GoTo, Moves
<1>4. ASSUME NEW i \in Issues, Select(i) PROVE ViewInv' /\ Forward
  BY <1>1, <1>4, RowsRender DEF Select, Moves
<1> QED
  BY <1>2, <1>3, <1>4

(* A command about an Issue that exists, or one that creates an Issue. *)
LEMMA UserAsks ==
  ASSUME ViewInv, NEW i \in Issues, Ask(i) \/ Submit(i)
  PROVE  ViewInv' /\ Forward
<1>1. /\ UNCHANGED <<revision, loaded, snapshot, rows, selected, detail, mounted, link,
                     unread, woken, answers>>
      /\ loaded = "shown"
  BY DEF Ask, Submit, Moves, loading, window, links
<1>2. ViewTypes /\ Shows /\ Creates
  BY DEF ViewInv
<1>3. PICK by \in {"command", "create"} : requests' = requests \cup {Request(i, by)}
  BY DEF Ask, Submit
<1>4. requests' \subseteq Requested
  BY <1>2, <1>3 DEF ViewTypes, Requested, Request
<1>5. ViewTypes' /\ Shows'
  BY <1>1, <1>2, <1>4 DEF ViewTypes, Shows
<1>6. CASE Ask(i)
  <2>1. detail.issue = i /\ requests' = requests \cup {Request(i, "command")} /\ detail.issue # none
    BY <1>2, <1>6, ViewNumbers DEF Ask
  <2>2. detail.revision <= rows[i] /\ detail.revision # 0 /\ rows[i] <= revision[i]
    BY <1>2, <2>1 DEF Shows
  <2>3. revision[i] # 0
    BY <1>2, <2>2, ViewNumbers
  <2>4. Creates'
    BY <1>1, <1>2, <2>1, <2>3 DEF Creates, Request
  <2> QED
    BY <1>1, <1>2, <1>5, <2>4, ViewNumbers DEF ViewInv, Forward
<1>7. CASE Submit(i)
  <2>1. revision[i] = 0 /\ Request(i, "canceled") \notin requests
        /\ requests' = requests \cup {Request(i, "create")}
    BY <1>7 DEF Submit
  <2>2. \A j : Request(j, "canceled") \in requests' => Request(j, "canceled") \in requests
    BY <2>1 DEF Request
  <2>3. Creates'
    BY <1>1, <1>2, <2>1, <2>2 DEF Creates, Request
  <2> QED
    BY <1>1, <1>2, <1>5, <2>3, ViewNumbers DEF ViewInv, Forward
<1> QED
  BY <1>6, <1>7

(* An Issue changes: its revision is the only one that does, and it grows. *)
LEMMA IssueChanges ==
  ASSUME ViewInv, NEW i \in Issues, revision[i] < Final(i), Committed(i),
         UNCHANGED <<loading, window, link, woken>>
  PROVE  /\ ViewTypes => (requests' \subseteq Requested /\ answers' \subseteq Answered
                      => ViewTypes')
         /\ \A j \in Issues : rows'[j] <= revision'[j] /\ snapshot'[j] <= revision'[j]
         /\ revision'[i] = revision[i] + 1 /\ revision'[i] \in 1 .. MaxRevision
         /\ \A j \in Issues : j # i => revision'[j] = revision[j]
         /\ \A j \in Issues : revision[j] <= revision'[j] /\ (revision[j] # 0 => revision'[j] # 0)
<1>1. ViewTypes /\ Shows /\ Creates
  BY DEF ViewInv
<1>2. /\ revision' = [revision EXCEPT ![i] = @ + 1]
      /\ unread' = IF link[i] = "joined" THEN unread \cup {i} ELSE unread
      /\ UNCHANGED <<loaded, snapshot, rows, selected, detail, mounted, link, woken>>
  BY DEF Committed, loading, window
<1>3. revision[i] \in Nat /\ revision[i] + 1 <= MaxRevision
  BY <1>1, ViewNumbers
<1>4. revision' \in [Issues -> 0 .. MaxRevision] /\ revision'[i] = revision[i] + 1
      /\ \A j \in Issues : j # i => revision'[j] = revision[j]
  BY <1>1, <1>2, <1>3, ViewNumbers DEF ViewTypes
<1>5. \A j \in Issues : revision[j] <= revision'[j] /\ (revision[j] # 0 => revision'[j] # 0)
  BY <1>1, <1>3, <1>4, ViewNumbers
<1>6. \A j \in Issues : revision'[j] \in Nat
  BY <1>4, ViewNumbers
<1>7. \A j \in Issues : rows'[j] <= revision'[j] /\ snapshot'[j] <= revision'[j]
  BY <1>1, <1>2, <1>5, <1>6, ViewNumbers DEF Shows
<1>8. \A j \in Issues : link'[j] = "none" => j \notin unread' \cup woken'
  BY <1>1, <1>2 DEF ViewTypes
<1>9. requests' \subseteq Requested /\ answers' \subseteq Answered => ViewTypes'
  BY <1>1, <1>2, <1>4, <1>8 DEF ViewTypes
<1>10. revision'[i] \in 1 .. MaxRevision
  BY <1>3, <1>4, ViewNumbers
<1> QED
  BY <1>4, <1>5, <1>7, <1>9, <1>10

(* An Issue changes by itself. *)
LEMMA ChangesKeep ==
  ASSUME ViewInv, NEW i \in Issues, Changes(i)
  PROVE  ViewInv' /\ Forward
<1>1. /\ revision[i] \in 1 .. Final(i) - 1 /\ Committed(i)
      /\ UNCHANGED <<loading, window, link, woken>>
      /\ UNCHANGED <<requests, answers>>
  BY DEF Changes
<1>2. ViewTypes /\ Shows /\ Creates
  BY DEF ViewInv
<1>3. revision[i] < Final(i) /\ revision[i] # 0
  BY <1>1, <1>2, ViewNumbers
<1>4. /\ ViewTypes' /\ \A j \in Issues : rows'[j] <= revision'[j] /\ snapshot'[j] <= revision'[j]
      /\ \A j \in Issues : j # i => revision'[j] = revision[j]
      /\ \A j \in Issues : revision[j] <= revision'[j] /\ (revision[j] # 0 => revision'[j] # 0)
  BY <1>1, <1>2, <1>3, IssueChanges DEF ViewTypes
<1>5. UNCHANGED <<loaded, rows, selected, detail, mounted>>
  BY <1>1 DEF loading, window
<1>6. Shows'
  BY <1>1, <1>2, <1>4, <1>5 DEF Shows
<1>7. \A j \in Issues : revision[j] \in Nat /\ revision'[j] \in Nat
  BY <1>2, <1>4, ViewNumbers DEF ViewTypes
<1>8. Creates'
  <2>1. \A q \in requests : q.issue \in Issues
    BY <1>2 DEF ViewTypes, Requested
  <2>2. \A a \in answers : a.issue \in Issues /\ a.revision \in 0 .. MaxRevision
    BY <1>2 DEF ViewTypes, Answered
  <2>3. \A q \in requests' :
          /\ q.by = "command" => revision'[q.issue] # 0
          /\ q.by = "create" => revision'[q.issue] = 0 /\
               Request(q.issue, "canceled") \notin requests'
    BY <1>1, <1>2, <1>3, <1>4, <2>1 DEF Creates
  <2>4. \A a \in answers' : a.revision <= revision'[a.issue] /\ a.revision # 0
    BY <1>1, <1>2, <1>4, <1>7, <2>2, ViewNumbers DEF Creates
  <2> QED
    BY <1>1, <1>2, <1>5, <2>3, <2>4 DEF Creates
<1>9. Forward
  BY <1>2, <1>5, ViewNumbers DEF Forward
<1> QED
  BY <1>4, <1>6, <1>8, <1>9 DEF ViewInv

(* Events are polled, and the refresh they ask for is made. *)
LEMMA EventsKeep ==
  ASSUME ViewInv, NEW i \in Issues, Poll(i) \/ Refresh(i)
  PROVE  ViewInv' /\ Forward
<1>1. ViewTypes /\ Shows /\ Creates
  BY DEF ViewInv
<1>2. /\ UNCHANGED <<revision, loaded, snapshot, rows, selected, detail, mounted, link, answers>>
      /\ link[i] # "none"
  BY <1>1 DEF Poll, Refresh, loading, window, ViewTypes
<1>3. loaded = "shown"
  BY <1>1, <1>2 DEF Shows
<1>4. \A j \in Issues : link'[j] = "none" => j \notin unread' \cup woken'
  BY <1>1, <1>2 DEF Poll, Refresh, ViewTypes
<1>5. /\ requests' \subseteq Requested
      /\ \A q \in requests' : q \in requests \/ q.by \in Reads
  BY <1>1 DEF Poll, Refresh, ViewTypes, Request, Requested, Reads
<1>6. Creates'
  BY <1>1, <1>2, <1>5, CreatesKeeps DEF Creates
<1>7. ViewTypes' /\ Shows'
  BY <1>1, <1>2, <1>3, <1>4, <1>5 DEF ViewTypes, Shows
<1>8. Forward
  BY <1>1, <1>2, ViewNumbers DEF Forward
<1> QED
  BY <1>6, <1>7, <1>8 DEF ViewInv

(* A read is answered with the revision there is. *)
LEMMA ReadServed ==
  ASSUME ViewInv, NEW q \in requests, ServeRead(q)
  PROVE  ViewInv' /\ Forward
<1>1. /\ UpdateIssue(Answer(q.issue, q.by, revision[q.issue]), requests \ {q})
      /\ UNCHANGED <<revision, loading, answers>>
  BY DEF ServeRead
<1>2. ViewTypes /\ loaded = "shown" /\ q.issue \in Issues
  BY DEF ViewInv, ViewTypes, Shows, Requested
<1>3. revision[q.issue] \in 0 .. MaxRevision /\ revision[q.issue] <= revision[q.issue]
  BY <1>2, ViewNumbers DEF ViewTypes
<1> DEFINE a == Answer(q.issue, q.by, revision[q.issue])
<1>4. a.issue = q.issue /\ a.revision = revision[q.issue]
  BY DEF Answer
<1> HIDE DEF a
<1>5. a.issue \in Issues /\ a.revision \in 0 .. MaxRevision /\ a.revision <= revision[a.issue]
      /\ UpdateIssue(a, requests \ {q})
  BY <1>1, <1>2, <1>3, <1>4 DEF a
<1> QED
  BY <1>1, <1>2, <1>5, UpdateKeeps

(* A command is carried out, and answered with the revision it has made: at most one
   answer creates an Issue. *)
LEMMA CommandServed ==
  ASSUME ViewInv, NEW q \in requests, ServeCommand(q)
  PROVE  ViewInv' /\ Forward
<1> DEFINE i == q.issue
<1>1. /\ q.by \notin Reads /\ requests' = requests \ {q}
      /\ UNCHANGED <<loading, window, link, woken>>
      /\ answers' = IF q.by = "canceled" THEN answers
                    ELSE answers \cup {Answer(i, q.by, revision'[i])}
  BY DEF ServeCommand
<1>2. ViewTypes /\ Shows /\ Creates /\ i \in Issues /\ loaded = "shown"
      /\ q.by \in {"command", "create", "canceled"}
  BY <1>1 DEF ViewInv, ViewTypes, Shows, Requested
<1>3. UNCHANGED <<loaded, rows, selected, detail, mounted>>
  BY <1>1 DEF loading, window
<1>4. revision[i] \in Nat /\ Final(i) \in Nat /\ Final(i) >= 1
  BY <1>2, ViewNumbers
<1>5. q.by = "command" => revision[i] # 0
  BY <1>2 DEF Creates
<1>6. q.by = "create" => revision[i] = 0
  BY <1>2 DEF Creates
<1>7. \/ revision[i] < Final(i) /\ Committed(i)
      \/ UNCHANGED <<revision, unread>> /\ q.by # "create"
  BY <1>4, <1>6 DEF ServeCommand
<1> HIDE DEF i
<1>8. /\ \A j \in Issues : rows'[j] <= revision'[j] /\ snapshot'[j] <= revision'[j]
      /\ \A j \in Issues : j # i => revision'[j] = revision[j]
      /\ \A j \in Issues : revision[j] <= revision'[j] /\ (revision[j] # 0 => revision'[j] # 0)
      /\ revision'[i] \in 0 .. MaxRevision
      /\ q.by # "canceled" => revision'[i] # 0
      /\ requests' \subseteq Requested /\ answers' \subseteq Answered => ViewTypes'
  <2>1. CASE revision[i] < Final(i) /\ Committed(i)
    BY <1>1, <1>2, <2>1, IssueChanges
  <2>2. CASE UNCHANGED <<revision, unread>> /\ q.by # "create"
    <3>1. UNCHANGED snapshot
      BY <1>1 DEF loading
    <3>2. \A j \in Issues : rows'[j] <= revision'[j] /\ snapshot'[j] <= revision'[j]
      BY <1>2, <1>3, <2>2, <3>1 DEF Shows
    <3>3. requests' \subseteq Requested /\ answers' \subseteq Answered => ViewTypes'
      BY <1>1, <1>2, <1>3, <2>2, <3>1 DEF ViewTypes
    <3> QED
      BY <1>2, <1>5, <2>2, <3>2, <3>3, ViewNumbers DEF ViewTypes
  <2> QED
    BY <1>7, <2>1, <2>2
<1>9. requests' \subseteq Requested /\ answers' \subseteq Answered
  BY <1>1, <1>2, <1>8 DEF ViewTypes, Answer, Answered
<1>10. Shows'
  BY <1>1, <1>2, <1>3, <1>8 DEF Shows
<1>11. \A j \in Issues : revision[j] \in Nat /\ revision'[j] \in Nat
  BY <1>2, <1>8, <1>9, ViewNumbers DEF ViewTypes
<1>12. \A r \in requests' :
         /\ r.by = "command" => revision'[r.issue] # 0
         /\ r.by = "create" => revision'[r.issue] = 0 /\
               Request(r.issue, "canceled") \notin requests'
  <2> TAKE r \in requests'
  <2>1. r \in requests /\ r # q /\ r.issue \in Issues
    BY <1>1, <1>2 DEF ViewTypes, Requested
  <2>2. r.by = "command" => revision'[r.issue] # 0
    BY <1>2, <1>8, <2>1 DEF Creates
  <2>3. ASSUME r.by = "create"
        PROVE  revision'[r.issue] = 0 /\ Request(r.issue, "canceled") \notin requests'
    <3>1. revision[r.issue] = 0 /\ Request(r.issue, "canceled") \notin requests
      BY <1>2, <2>1, <2>3 DEF Creates
    <3>2. r.issue # i
      <4>1. ASSUME r.issue = i PROVE FALSE
        <5>1. q.by # "command"
          BY <1>5, <3>1, <4>1
        <5>2. q.by # "canceled"
          <6>1. ASSUME q.by = "canceled" PROVE FALSE
            <7>1. q = Request(i, "canceled")
              BY <1>2, <6>1 DEF ViewTypes, Requested, Request, i
            <7> QED
              BY <3>1, <4>1, <7>1
          <6> QED
            BY <6>1
        <5>3. q.by = "create"
          BY <1>2, <5>1, <5>2
        <5>4. q = r
          BY <1>2, <2>1, <2>3, <4>1, <5>3 DEF ViewTypes, Requested, i
        <5> QED
          BY <2>1, <5>4
      <4> QED
        BY <4>1
    <3> QED
      BY <1>1, <1>8, <2>1, <3>1, <3>2
  <2> QED
    BY <2>2, <2>3
<1>13. \A a \in answers : a.issue \in Issues /\ a.revision \in Nat
  BY <1>2, ViewNumbers DEF ViewTypes, Answered
<1>14. \A a \in answers : a.revision <= revision'[a.issue] /\ a.revision # 0
  BY <1>2, <1>8, <1>11, <1>13 DEF Creates
<1>15. \A a \in answers' :
         /\ a.revision <= revision'[a.issue] /\ a.revision # 0
         /\ a.by = "create" => rows'[a.issue] = 0
  <2> TAKE a \in answers'
  <2>1. CASE a \in answers
    BY <1>2, <1>3, <1>14, <2>1 DEF Creates
  <2>2. CASE a \notin answers
    <3>1. a = Answer(i, q.by, revision'[i]) /\ q.by # "canceled"
      BY <1>1, <2>2
    <3>2. a.issue = i /\ a.by = q.by /\ a.revision = revision'[i]
      BY <3>1 DEF Answer
    <3>3. a.by = "create" => rows[i] = 0
      BY <1>2, <1>6, <3>2, ViewNumbers DEF Shows, i
    <3> QED
      BY <1>2, <1>3, <1>8, <1>11, <3>1, <3>2, <3>3
  <2> QED
    BY <2>1, <2>2
<1>16. \A a, b \in answers' : a.by = "create" /\ b.by = "create" /\ a.issue = b.issue => a = b
  <2>1. ASSUME q.by = "create", NEW a \in answers, a.issue = i PROVE FALSE
    <3>1. a.revision <= revision[i] /\ a.revision # 0 /\ a.revision \in Nat
      BY <1>2, <1>13, <2>1 DEF Creates
    <3>2. revision[i] = 0
      BY <1>6, <2>1
    <3> QED
      BY <3>1, <3>2
  <2>2. \A a \in answers' : a.by = "create" =>
          a \in answers \/ (q.by = "create" /\ a = Answer(i, q.by, revision'[i]) /\ a.issue = i)
    BY <1>1 DEF Answer
  <2> QED
    BY <1>2, <2>1, <2>2 DEF Creates
<1>17. Forward
  BY <1>2, <1>3, ViewNumbers DEF Forward
<1> QED
  BY <1>8, <1>9, <1>10, <1>12, <1>15, <1>16, <1>17 DEF ViewInv, Creates

(* An answer arrives; one that creates an Issue finds no row of it. *)
LEMMA AnswerReceived ==
  ASSUME ViewInv, NEW a \in answers, Receive(a)
  PROVE  ViewInv' /\ Forward
<1>1. answers' = answers \ {a} /\ UNCHANGED <<revision, loading>>
      /\ IF a.by = "create" THEN Created(a) ELSE UpdateIssue(a, requests)
  BY DEF Receive
<1>2. /\ ViewTypes /\ Shows /\ Creates /\ loaded = "shown" /\ loaded' = "shown"
      /\ snapshot' = snapshot
      /\ a.issue \in Issues /\ a.revision \in 0 .. MaxRevision /\ a.revision <= revision[a.issue]
      /\ a.revision # 0
  BY <1>1 DEF ViewInv, ViewTypes, Shows, Creates, Answered, loading
<1>3. CASE a.by # "create"
  <2>1. UpdateIssue(a, requests) /\ answers' \subseteq answers
    BY <1>1, <1>3
  <2> QED
    BY <1>1, <1>2, <2>1, UpdateKeeps
<1>4. CASE a.by = "create"
  <2> DEFINE newRows == [rows EXCEPT ![a.issue] = a.revision]
  <2>1. Render(newRows, a.issue, TRUE, requests)
        /\ detail' = [issue |-> a.issue, revision |-> a.revision]
    BY <1>1, <1>4 DEF Created
  <2>2. /\ newRows \in [Issues -> 0 .. MaxRevision] /\ newRows[a.issue] = a.revision
        /\ \A i \in Issues : i # a.issue => newRows[i] = rows[i]
    BY <1>2 DEF ViewTypes
  <2> HIDE DEF newRows
  <2>3. rows[a.issue] = 0 /\ a.revision \in Nat
    BY <1>2, <1>4, ViewNumbers DEF Creates
  <2>4. \A i \in Issues : newRows[i] >= rows[i] /\ newRows[i] <= revision[i]
    BY <1>2, <2>2, <2>3, ViewNumbers DEF Shows
  <2>5. \A b \in answers' : b.by = "create" => newRows[b.issue] = 0
    <3> TAKE b \in answers'
    <3>1. HAVE b.by = "create"
    <3>2. b \in answers /\ b # a /\ b.issue \in Issues
      BY <1>1, <1>2 DEF ViewTypes, Answered
    <3>3. b.issue # a.issue /\ rows[b.issue] = 0
      BY <1>2, <1>4, <3>1, <3>2 DEF Creates
    <3> QED
      BY <2>2, <3>2, <3>3
  <2>6. detail' \in [issue : Issues, revision : 0 .. MaxRevision] /\ detail'.revision # 0
        /\ detail'.revision = newRows[detail'.issue]
    BY <1>2, <2>1, <2>2
  <2> QED
    BY <1>1, <1>2, <2>1, <2>2, <2>4, <2>5, <2>6, ShowsKeeps
<1> QED
  BY <1>3, <1>4

(* A request times out, and is carried out all the same. *)
LEMMA RequestTimesOut ==
  ASSUME ViewInv, NEW q \in requests, TimeOut(q)
  PROVE  ViewInv' /\ Forward
<1> DEFINE canceled == IF q.by \in {"command", "create"} THEN {Request(q.issue, "canceled")} ELSE {}
<1>1. /\ requests' = (requests \ {q}) \cup canceled
      /\ UNCHANGED <<revision, loaded, snapshot, rows, selected, detail, mounted, link,
                     unread, woken, answers>>
  BY DEF TimeOut, loading, window, links
<1>2. ViewTypes /\ Shows /\ Creates /\ q.issue \in Issues /\ loaded = "shown"
  BY DEF ViewInv, ViewTypes, Shows, Requested
<1>3. requests' \subseteq Requested
  BY <1>1, <1>2 DEF ViewTypes, Request, Requested
<1>4. \A r \in requests' : r.by \in {"command", "create"} => r \in requests /\ r # q
  BY <1>1 DEF Request
<1>5. \A j : Request(j, "canceled") \in requests' =>
        Request(j, "canceled") \in requests \/ (j = q.issue /\ q.by \in {"command", "create"})
  BY <1>1 DEF Request
<1>6. ASSUME NEW r \in requests', r.by = "create"
      PROVE  Request(r.issue, "canceled") \notin requests'
  <2>1. r \in requests /\ r # q /\ revision[r.issue] = 0
        /\ Request(r.issue, "canceled") \notin requests
    BY <1>2, <1>4, <1>6 DEF Creates
  <2>2. ASSUME r.issue = q.issue, q.by \in {"command", "create"} PROVE FALSE
    <3>1. q.by = "create"
      BY <1>2, <2>1, <2>2 DEF Creates
    <3>2. q = r
      BY <1>2, <1>6, <2>1, <2>2, <3>1 DEF ViewTypes, Requested
    <3> QED
      BY <2>1, <3>2
  <2> QED
    BY <1>5, <2>1, <2>2
<1>7. Creates'
  BY <1>1, <1>2, <1>4, <1>6 DEF Creates
<1>8. ViewTypes' /\ Shows'
  BY <1>1, <1>2, <1>3 DEF ViewTypes, Shows
<1>9. Forward
  BY <1>1, <1>2, ViewNumbers DEF Forward
<1> QED
  BY <1>7, <1>8, <1>9 DEF ViewInv

(* The process is gone, with the subscriptions and requests. *)
LEMMA ViewLoses ==
  ASSUME ViewInv, ViewLosesRuntime
  PROVE  ViewInv' /\ Forward
<1>1. /\ loaded' = IF loaded \in {"asked", "answered"} THEN "failed" ELSE loaded
      /\ snapshot' = Unchanged
      /\ link' = [i \in Issues |-> IF link[i] = "none" THEN "none" ELSE "lost"]
      /\ unread' = {} /\ requests' = {} /\ woken' \in SUBSET woken
      /\ UNCHANGED <<revision, rows, selected, detail, mounted, answers>>
  BY DEF ViewLosesRuntime, window
<1>2. ViewTypes /\ Shows /\ Creates
  BY DEF ViewInv
<1>3. Unchanged \in [Issues -> 0 .. MaxRevision] /\ \A i \in Issues : Unchanged[i] = 0
  BY <1>2, ViewNumbers DEF Unchanged
<1>4. link' \in [Issues -> Links] /\ \A i \in Issues : link'[i] = "none" => link[i] = "none"
  BY <1>1, <1>2 DEF ViewTypes, Links
<1>5. ViewTypes'
  BY <1>1, <1>2, <1>3, <1>4 DEF ViewTypes
<1>6. \A i \in Issues : rows'[i] <= revision'[i] /\ snapshot'[i] <= revision'[i]
  BY <1>1, <1>2, <1>3, ViewNumbers DEF Shows
<1>7. Shows'
  <2>1. loaded' # "shown" => loaded # "shown"
    BY <1>1
  <2>2. \A i \in Issues : link[i] = "none" => link'[i] = "none"
    BY <1>1
  <2> QED
    BY <1>1, <1>2, <1>6, <2>1, <2>2 DEF Shows
<1>8. Creates'
  BY <1>1, <1>2 DEF Creates
<1>9. Forward
  BY <1>1, <1>2, ViewNumbers DEF Forward
<1> QED
  BY <1>5, <1>7, <1>8, <1>9 DEF ViewInv

(* The invariant holds at first. *)
LEMMA InitViewHolds ==
  ASSUME NEW existing, InitView(existing)
  PROVE  ViewInv
<1>1. /\ revision = [i \in Issues |-> IF i \in existing THEN 1 ELSE 0]
      /\ loaded = "no" /\ snapshot = Unchanged /\ rows = Unchanged
      /\ selected = none /\ detail = Nothing /\ mounted = TRUE
      /\ link = [i \in Issues |-> "none"] /\ unread = {} /\ woken = {}
      /\ requests = {} /\ answers = {}
  BY DEF InitView
<1>2. MaxRevision \in Nat /\ MaxRevision >= 2
  BY ViewAssumption
<1>3. revision \in [Issues -> 0 .. MaxRevision] /\ Unchanged \in [Issues -> 0 .. MaxRevision]
      /\ \A i \in Issues : Unchanged[i] = 0 /\ revision[i] \in Nat
  BY <1>1, <1>2 DEF Unchanged
<1>4. detail \in [issue : Issues \cup {none}, revision : 0 .. MaxRevision]
  BY <1>1, <1>2 DEF Nothing
<1>5. ViewTypes
  BY <1>1, <1>3, <1>4 DEF ViewTypes, Links
<1>6. \A i \in Issues : rows[i] <= revision[i] /\ snapshot[i] <= revision[i]
  BY <1>1, <1>3
<1>7. Shows /\ Creates
  BY <1>1, <1>6 DEF Shows, Creates, Nothing
<1> QED
  BY <1>5, <1>7 DEF ViewInv

-----------------------------------------------------------------------------
(* The form. *)

(* The first of a sequence is replaced. *)
LEMMA FrontReplaced ==
  ASSUME NEW S, NEW s \in Seq(S), s # <<>>, NEW x \in S, NEW t, t = <<x>> \o Tail(s)
  PROVE  /\ t \in Seq(S) /\ Len(t) = Len(s) /\ t # <<>> /\ t[1] = x
         /\ \A j \in 1 .. Len(s) : j # 1 => t[j] = s[j]
<1>1. Tail(s) \in Seq(S) /\ Len(Tail(s)) = Len(s) - 1 /\ <<x>> \in Seq(S) /\ Len(<<x>>) = 1
      /\ Len(s) \in Nat
      /\ \A j \in 1 .. Len(s) - 1 : Tail(s)[j] = s[j + 1]
  OBVIOUS
<1>2. t \in Seq(S) /\ Len(t) = 1 + (Len(s) - 1)
  BY <1>1
<1>3. t[1] = x
  BY <1>1
<1>4. ASSUME NEW j \in 1 .. Len(s), j # 1 PROVE t[j] = s[j]
  <2>1. t[j] = Tail(s)[j - 1]
    BY <1>1, <1>4
  <2> QED
    BY <1>1, <1>4, <2>1
<1>5. Len(t) = Len(s) /\ Len(s) # 0
  BY <1>1, <1>2
<1> QED
  BY <1>2, <1>3, <1>4, <1>5

(* The first of a sequence is gone. *)
LEMMA FrontGone ==
  ASSUME NEW S, NEW s \in Seq(S), s # <<>>, NEW t, t = Tail(s)
  PROVE  /\ t \in Seq(S) /\ Len(t) = Len(s) - 1 /\ Len(s) \in Nat /\ Len(s) >= 1
         /\ \A j \in 1 .. Len(t) : t[j] = s[j + 1]
         /\ t # <<>> => 1 \in 1 .. Len(t) /\ Len(s) >= 2
<1>1. t \in Seq(S) /\ Len(s) \in Nat /\ Len(s) >= 1 /\ Len(t) = Len(s) - 1
  OBVIOUS
<1>2. \A j \in 1 .. Len(t) : t[j] = s[j + 1]
  BY <1>1
<1>3. t # <<>> => Len(t) >= 1
  BY <1>1
<1> QED
  BY <1>1, <1>2, <1>3

(* mergeWorkspaceInspection: what it makes of a configuration is one. *)
LEMMA Merged ==
  ASSUME NEW config \in Configs, NEW found \in Findings
  PROVE  Merge(config, found) \in Configs
<1>1. found = "nothing" \/ found = "remote" \/ found = "unavailable"
  BY DEF Findings
<1> QED
  BY <1>1 DEF Merge, Configs

(* A form that is mounted is one, and shows its row with what the inspection adds. *)
LEMMA Mounted ==
  ASSUME NEW row \in Projects, NEW found \in Findings
  PROVE  /\ Initial(row, found) \in Forms /\ Initial(row, found).row = row
         /\ Initial(row, found).enabled = row.enabled /\ Initial(row, found).draft = {}
         /\ Initial(row, found).config = Merge(row.config, found)
         /\ Initial(row, found).found = found /\ Initial(row, found).saved = (row.revision # 0)
<1>1. row.config \in Configs /\ row.enabled \in BOOLEAN
  BY DEF Projects
<1>2. Merge(row.config, found) \in Configs
  BY <1>1, Merged
<1> HIDE DEF Merge
<1> QED
  BY <1>1, <1>2 DEF Initial, Forms

(* Nothing is configured of a project that is not there, and nothing known of its directory. *)
LEMMA NothingYet ==
  /\ NewProject \in Projects /\ NewProject.revision = 0
  /\ NoInspection \in Inspections /\ "nothing" \in Findings
BY DEF NewProject, Projects, Configs, NoInspection, Inspections, Findings

(* What the types of the form say at a point. *)
LEMMA FormNumbers ==
  ASSUME SettingsInv, FormTypes
  PROVE  /\ project \in Projects /\ project.revision \in Nat
         /\ Len(submissions) \in Nat /\ DOMAIN submissions = 1 .. Len(submissions)
         /\ submissions # <<>> => 1 \in 1 .. Len(submissions)
         /\ submissions # <<>> => NextSave = submissions[1]
         /\ \A j \in 1 .. Len(submissions) :
              submissions[j] \in Submissions /\ submissions[j].from.revision \in Nat
<1>1. project \in Projects /\ project.revision \in Nat
  BY DEF SettingsInv, SettingsTypes, Projects
<1>2. submissions \in Seq(Submissions)
  BY DEF FormTypes
<1>3. \A s \in Submissions : s.from.revision \in Nat
  BY DEF Submissions, Projects
<1> QED
  BY <1>1, <1>2, <1>3 DEF NextSave

(* Steps that leave the form and what is saved alone. *)
LEMMA FormRests ==
  ASSUME FormInv, UNCHANGED formVars, UNCHANGED scenario,
         scenario \in FormScenarios =>
           /\ UNCHANGED project
           /\ \/ UNCHANGED mutation
              \/ mutation'.pc = "idle"
              \/ /\ mutation.pc \in {"writing", "undoing"} /\ mutation'.pc \in {"writing", "undoing"}
                 /\ mutation'.expected = mutation.expected
  PROVE  FormInv'
<1>1. UNCHANGED <<listed, editor, inspection, form, submissions, unheard>>
  BY DEF formVars
<1>2. FormTypes'
  BY <1>1 DEF FormInv, FormTypes
<1>3. CASE scenario \notin FormScenarios
  BY <1>1, <1>2, <1>3 DEF FormInv
<1>4. CASE scenario \in FormScenarios
  <2>1. Served /\ Heard /\ UNCHANGED project
    BY <1>4 DEF FormInv
  <2>2. Heard'
    BY <1>1, <2>1 DEF Heard, Known, HasMade, Made
  <2>3. \A j \in 1 .. Len(submissions') : Proper(submissions[j])' /\ InOrder(j)'
    BY <1>1, <2>1 DEF Served, Proper, InOrder, Made, Known
  <2>4. mutation'.pc # "idle" =>
          /\ submissions # <<>> /\ submissions[1].pc = "running"
          /\ mutation'.expected = submissions[1].expected
          /\ mutation'.pc \in {"writing", "undoing"} => submissions[1].from = project
          /\ mutation'.pc = "refreshing" => Made(submissions[1])
    BY <1>4, <2>1 DEF Served
  <2>5. Served'
    BY <1>1, <2>1, <2>3, <2>4 DEF Served, Made
  <2> QED
    BY <1>2, <1>4, <2>2, <2>5 DEF FormInv
<1> QED
  BY <1>3, <1>4

(* The save the oldest submission asked for is made. *)
LEMMA FormPersists ==
  ASSUME FormInv, SettingsInv, scenario \in FormScenarios, UNCHANGED formVars, UNCHANGED scenario, Persist
  PROVE  FormInv'
<1>1. UNCHANGED <<listed, editor, inspection, form, submissions, unheard>>
      /\ mutation.pc = "writing"
  BY DEF formVars, Persist
<1>2. FormTypes /\ Served /\ Heard
  BY DEF FormInv
<1>3. CASE mutation.expected # project.revision
  <2>1. mutation' = [mutation EXCEPT !.pc = "undoing"] /\ UNCHANGED project
        /\ mutation \in Mutations
    BY <1>3 DEF Persist, SettingsInv, SettingsTypes
  <2>2. mutation'.pc = "undoing" /\ mutation'.expected = mutation.expected
    BY <2>1 DEF Mutations
  <2> QED
    BY <1>1, <2>1, <2>2, FormRests
<1>4. CASE mutation.expected = project.revision
  <2>1. /\ project' = [revision |-> project.revision + 1, enabled |-> mutation.enabled,
                       refs |-> Refs(project, mutation.patch), config |-> mutation.config]
        /\ mutation' = [mutation EXCEPT !.pc = "refreshing"] /\ mutation \in Mutations
    BY <1>4 DEF Persist, SettingsInv, SettingsTypes
  <2>2. project'.revision = project.revision + 1 /\ project.revision \in Nat
        /\ mutation'.pc = "refreshing" /\ mutation'.expected = mutation.expected
    BY <1>2, <2>1, FormNumbers DEF Mutations
  <2>3. /\ submissions # <<>> /\ submissions[1].pc = "running" /\ submissions[1].from = project
        /\ mutation.expected = submissions[1].expected
    BY <1>1, <1>2 DEF Served
  <2>4. 1 \in 1 .. Len(submissions)
    BY <1>2, <2>3, FormNumbers
  <2>5. submissions[1].form.row = project
    BY <1>2, <1>4, <2>3, <2>4 DEF Served, Proper, Known
  <2>6. Made(submissions[1])'
    BY <1>1, <2>2, <2>3 DEF Made
  <2>7. \A row \in Projects : Known(row) =>
          row.revision <= project'.revision /\ row.revision # project'.revision
    <3>1. \A row \in Projects : row.revision \in Nat
      BY DEF Projects
    <3> QED
      BY <2>2, <3>1 DEF Known
  <2>8. \A row \in Projects : Known(row) => (row.revision <= project'.revision
                                              /\ (row.revision = project'.revision => row = project'))
    BY <2>7
  <2>9. ASSUME NEW j \in 1 .. Len(submissions) PROVE Proper(submissions[j])' /\ InOrder(j)'
    <3>1. submissions[j] \in Submissions /\ Proper(submissions[j]) /\ InOrder(j)
      BY <1>2, FormNumbers DEF Served
    <3>2. submissions[j].form.row \in Projects
      BY <3>1 DEF Submissions, Forms
    <3>3. Known(submissions[j].form.row)'
      BY <1>1, <2>8, <3>1, <3>2 DEF Proper, Known
    <3>4. CASE j = 1
      BY <1>1, <2>3, <2>5, <3>1, <3>3, <3>4 DEF Proper, InOrder
    <3>5. CASE j # 1
      <4>1. submissions[j].pc = "sent"
        BY <3>1, <3>5 DEF InOrder
      <4> QED
        BY <1>1, <3>1, <3>3, <4>1 DEF Proper, InOrder, Made
    <3> QED
      BY <3>4, <3>5
  <2>10. Served'
    BY <1>1, <2>2, <2>3, <2>6, <2>9 DEF Served
  <2>11. Heard'
    <3>1. listed \in Projects /\ editor.row \in Projects /\ form.row \in Projects
      BY <1>2 DEF FormTypes, Forms
    <3>2. Known(listed)' /\ Known(editor.row)' /\ Known(form.row)'
      BY <1>1, <1>2, <2>8, <3>1 DEF Heard, Known
    <3>3. HasMade'
      BY <1>1, <2>3, <2>6 DEF HasMade
    <3>4. project'.revision # 0
      BY <2>2
    <3> QED
      BY <1>1, <1>2, <2>3, <3>2, <3>3, <3>4 DEF Heard
  <2>12. FormTypes'
    BY <1>1, <1>2 DEF FormTypes
  <2> QED
    BY <2>10, <2>11, <2>12 DEF FormInv
<1> QED
  BY <1>3, <1>4

(* A form is mounted for a row the project has had. *)
LEMMA FormMounts ==
  ASSUME FormInv, SettingsInv, scenario \in FormScenarios,
         UNCHANGED <<scenario, project, mutation, listed, unheard>>,
         NEW row \in Projects, NEW found \in Findings, Mount(row, found), Known(row),
         editor' \in [open : BOOLEAN, row : Projects], Known(editor'.row),
         inspection' \in Inspections,
         editor'.open /\ ~unheard /\ ~HasMade => row = project /\ editor'.row = project
  PROVE  FormInv'
<1>1. FormTypes /\ Served /\ Heard
  BY DEF FormInv
<1>2. /\ form' = [Initial(row, found) EXCEPT !.missed = submissions # <<>>]
      /\ submissions' = [j \in 1 .. Len(submissions) |-> [submissions[j] EXCEPT !.own = FALSE]]
      /\ Len(submissions) \in Nat
  BY <1>1, FormNumbers DEF Mount
<1>3. /\ form' \in Forms /\ form'.row = row /\ form'.enabled = row.enabled /\ form'.draft = {}
      /\ form'.saved = (row.revision # 0) /\ form'.missed = (submissions # <<>>)
      /\ form'.config = Merge(row.config, found) /\ form'.found = found
  <2> DEFINE rest == submissions # <<>>
  <2>1. rest \in BOOLEAN /\ form' = [Initial(row, found) EXCEPT !.missed = rest]
    BY <1>2
  <2> HIDE DEF rest
  <2>2. /\ form' \in Forms /\ form'.row = Initial(row, found).row /\ form'.missed = rest
        /\ form'.enabled = Initial(row, found).enabled /\ form'.draft = Initial(row, found).draft
        /\ form'.saved = Initial(row, found).saved /\ form'.config = Initial(row, found).config
        /\ form'.found = Initial(row, found).found
    BY <2>1, Mounted DEF Forms
  <2> QED
    BY <2>2, Mounted DEF rest
<1>4. ASSUME NEW j \in 1 .. Len(submissions)
      PROVE  /\ submissions'[j] \in Submissions /\ submissions'[j].own = FALSE
             /\ submissions'[j].pc = submissions[j].pc /\ submissions'[j].form = submissions[j].form
             /\ submissions'[j].from = submissions[j].from
             /\ submissions'[j].expected = submissions[j].expected
  <2>1. submissions[j] \in Submissions /\ submissions'[j] = [submissions[j] EXCEPT !.own = FALSE]
    BY <1>1, <1>2, FormNumbers
  <2> QED
    BY <2>1 DEF Submissions
<1>5. submissions' \in Seq(Submissions) /\ Len(submissions') = Len(submissions)
      /\ (submissions' # <<>> <=> submissions # <<>>)
  <2>1. submissions' \in [1 .. Len(submissions) -> Submissions]
    BY <1>2, <1>4
  <2>2. submissions' \in Seq(Submissions) /\ Len(submissions') = Len(submissions)
    BY <1>2, <2>1
  <2> QED
    BY <1>1, <1>2, <2>2 DEF FormTypes
<1>6. FormTypes'
  BY <1>1, <1>3, <1>5 DEF FormTypes
<1>7. ASSUME NEW j \in 1 .. Len(submissions) PROVE Made(submissions[j])' <=> Made(submissions[j])
  BY <1>4 DEF Made
<1>8. ASSUME NEW j \in 1 .. Len(submissions) PROVE Proper(submissions[j])' /\ InOrder(j)'
  <2>1. Proper(submissions[j]) /\ InOrder(j)
    BY <1>1 DEF Served
  <2>2. Known(submissions[j].form.row)'
    BY <1>4, <2>1 DEF Proper, Known
  <2>3. Proper(submissions[j])'
    BY <1>4, <1>7, <2>1, <2>2 DEF Proper
  <2>4. InOrder(j)'
    BY <1>4, <2>1 DEF InOrder
  <2> QED
    BY <2>3, <2>4
<1>9. submissions # <<>> => 1 \in 1 .. Len(submissions)
  BY <1>1, FormNumbers
<1>10. Served'
  BY <1>1, <1>4, <1>5, <1>7, <1>8, <1>9 DEF Served
<1>11. HasMade' <=> HasMade
  BY <1>5, <1>7, <1>9 DEF HasMade
<1>12. submissions = <<>> => ~HasMade
  BY DEF HasMade
<1>13. Known(listed)' /\ Known(editor.row)' /\ Known(form.row)'
  BY <1>1, <1>3 DEF Heard, Known
<1>14. Heard'
  BY <1>1, <1>3, <1>5, <1>11, <1>12, <1>13 DEF Heard
<1> QED
  BY <1>6, <1>10, <1>14 DEF FormInv

(* The editor is opened or closed, or its directory inspected. *)
LEMMA EditorKeeps ==
  ASSUME FormInv, SettingsInv, scenario \in FormScenarios, UNCHANGED scenario,
         OpenEditor \/ CancelEditor \/ InspectProject
  PROVE  FormInv'
<1>1. FormTypes /\ Served /\ Heard
  BY DEF FormInv
<1>2. UNCHANGED <<project, mutation, listed, unheard>>
  BY DEF OpenEditor, CancelEditor, InspectProject, Inspected, settingsVars
<1>3. listed \in Projects /\ editor \in [open : BOOLEAN, row : Projects]
      /\ inspection \in Inspections
  BY <1>1 DEF FormTypes
<1>4. CASE OpenEditor
  <2>1. PICK found \in Findings :
          /\ editor' = [open |-> TRUE, row |-> listed] /\ Mount(listed, found)
          /\ inspection' \in Inspections
    <3>1. editor' = [open |-> TRUE, row |-> listed] /\ Mount(listed, inspection'.found)
      BY <1>4 DEF OpenEditor
    <3>2. inspection' \in Inspections
      <4>1. CASE inspection' = NoInspection \/ inspection' = [NoInspection EXCEPT !.asking = TRUE]
        <5>1. [NoInspection EXCEPT !.asking = TRUE] \in Inspections
          BY NothingYet DEF Inspections
        <5> QED
          BY <4>1, <5>1, NothingYet
      <4>2. ASSUME NEW found \in Findings,
                   inspection' = [known |-> TRUE, asking |-> FALSE, found |-> found]
            PROVE  inspection' \in Inspections
        BY <4>2 DEF Inspections
      <4> QED
        BY <1>4, <4>1, <4>2 DEF OpenEditor
    <3>3. inspection'.found \in Findings
      BY <3>2 DEF Inspections
    <3> QED
      BY <3>1, <3>2, <3>3
  <2>2. Known(listed) /\ (~unheard /\ ~HasMade => listed = project)
    BY <1>1 DEF Heard
  <2> QED
    BY <1>2, <1>3, <2>1, <2>2, FormMounts
<1>5. CASE CancelEditor
  <2>1. /\ editor' = [open |-> FALSE, row |-> NewProject] /\ Mount(NewProject, "nothing")
        /\ inspection' = NoInspection
    BY <1>5 DEF CancelEditor
  <2>2. Known(NewProject)
    BY <1>1, NothingYet, FormNumbers DEF Heard, Known
  <2> QED
    BY <1>2, <1>3, <2>1, <2>2, NothingYet, FormMounts
<1>6. CASE InspectProject
  <2>1. PICK known \in BOOLEAN, found \in Findings : Inspected(known, found)
    BY <1>6, NothingYet DEF InspectProject
  <2>2. /\ editor.open /\ inspection' = [known |-> known, asking |-> FALSE, found |-> found]
        /\ \/ UNCHANGED <<form, submissions>>
           \/ Mount(editor.row, found)
        /\ UNCHANGED editor
    BY <2>1 DEF Inspected
  <2>3. inspection' \in Inspections
    BY <2>2 DEF Inspections
  <2>4. CASE UNCHANGED <<form, submissions>>
    <3>1. FormTypes'
      BY <1>1, <1>2, <2>2, <2>3, <2>4 DEF FormTypes
    <3>2. Heard'
      BY <1>1, <1>2, <2>2, <2>4 DEF Heard, Known, HasMade, Made
    <3>3. Served'
      BY <1>1, <1>2, <2>2, <2>4 DEF Served, Proper, InOrder, Known, Made
    <3> QED
      BY <3>1, <3>2, <3>3 DEF FormInv
  <2>5. CASE Mount(editor.row, found)
    <3>1. Known(editor.row)
          /\ (~unheard /\ ~HasMade => editor.row = project) /\ editor.row \in Projects
      BY <1>1, <1>3, <2>2 DEF Heard
    <3> QED
      BY <1>2, <1>3, <2>2, <2>3, <2>5, <3>1, FormMounts
  <2> QED
    BY <2>2, <2>4, <2>5
<1> QED
  BY <1>4, <1>5, <1>6

(* The settings are the project, the save under way and the source, among others. *)
LEMMA SettingsSame ==
  ASSUME UNCHANGED settingsVars
  PROVE  UNCHANGED project /\ UNCHANGED mutation /\ UNCHANGED source
BY DEF settingsVars

(* Whatever is edited, the form keeps its row and its save. *)
LEMMA FieldEdited ==
  ASSUME FormTypes, EditIntegration \/ EditWorkspace \/ SelectDirectory \/ TypeSecrets
  PROVE  \E value \in Forms :
           Edited(value) /\ value.row = form.row /\ value.saving = form.saving
<1>1. /\ form \in Forms /\ form.config \in Configs /\ form.found \in Findings
      /\ form.enabled \in BOOLEAN
  BY DEF FormTypes, Forms
<1>3. ASSUME NEW config \in Configs, NEW found \in Findings
      PROVE  LET value == [form EXCEPT !.found = found, !.config = config] IN
             value \in Forms /\ value.row = form.row /\ value.saving = form.saving
  BY <1>1 DEF Forms
<1>4. ASSUME NEW config \in Configs
      PROVE  LET value == [form EXCEPT !.config = config] IN
             value \in Forms /\ value.row = form.row /\ value.saving = form.saving
  BY <1>1 DEF Forms
<1>5. /\ {} \in Configs /\ {"git"} \in Configs /\ form.config \cap {"git"} \in Configs
      /\ form.config \ {"push"} \in Configs /\ form.config \cup {"push"} \in Configs
  BY <1>1 DEF Configs
<1>6. CASE SelectDirectory
  <2>1. PICK found \in Findings :
          Edited([form EXCEPT !.found = found,
                              !.config = Merge(form.config \cap {"git"}, found)])
    BY <1>6, Zenon DEF SelectDirectory
  <2> DEFINE config == Merge(form.config \cap {"git"}, found)
  <2>2. config \in Configs
    BY <1>5, Merged
  <2> HIDE DEF config
  <2> DEFINE value == [form EXCEPT !.found = found, !.config = config]
  <2>3. Edited(value)
    BY <2>1 DEF config
  <2>4. value \in Forms /\ value.row = form.row /\ value.saving = form.saving
    BY <1>3, <2>2
  <2> HIDE DEF value
  <2> QED
    BY <2>3, <2>4
<1>7. ASSUME NEW config \in Configs, Edited([form EXCEPT !.config = config])
      PROVE  \E value \in Forms :
               Edited(value) /\ value.row = form.row /\ value.saving = form.saving
  <2> DEFINE value == [form EXCEPT !.config = config]
  <2>1. Edited(value)
    BY <1>7
  <2>2. value \in Forms /\ value.row = form.row /\ value.saving = form.saving
    BY <1>4
  <2> HIDE DEF value
  <2> QED
    BY <2>1, <2>2
<1>8. CASE EditWorkspace
  <2> DEFINE switched == IF "git" \in form.config THEN {} ELSE Merge({"git"}, form.found)
             pushed == IF "push" \in form.config THEN form.config \ {"push"}
                       ELSE form.config \cup {"push"}
  <2>2. switched \in Configs /\ pushed \in Configs
    <3>1. Merge({"git"}, form.found) \in Configs
      BY <1>1, <1>5, Merged
    <3> HIDE DEF Merge
    <3> QED
      BY <1>5, <3>1
  <2>3. \/ Edited([form EXCEPT !.config = switched])
        \/ Edited([form EXCEPT !.config = pushed])
    BY <1>8, Zenon DEF EditWorkspace
  <2> HIDE DEF switched, pushed
  <2> QED
    BY <1>7, <2>2, <2>3
<1>10. CASE EditIntegration
  <2> DEFINE value == [form EXCEPT !.enabled = ~form.enabled]
  <2>1. Edited(value)
    BY <1>10, Zenon DEF EditIntegration
  <2>2. value \in Forms /\ value.row = form.row /\ value.saving = form.saving
    BY <1>1 DEF Forms
  <2> HIDE DEF value
  <2> QED
    BY <2>1, <2>2
<1>9. CASE TypeSecrets
  <2> DEFINE value == [form EXCEPT !.draft = Keys]
  <2>1. Edited(value)
    BY <1>9, Zenon DEF TypeSecrets
  <2>2. value \in Forms /\ value.row = form.row /\ value.saving = form.saving
    BY <1>1 DEF Forms
  <2> HIDE DEF value
  <2> QED
    BY <2>1, <2>2
<1> QED
  BY <1>10, <1>6, <1>8, <1>9

(* A form that is edited does not say that it is saved. *)
LEMMA FormEdited ==
  ASSUME FormInv, scenario \in FormScenarios, UNCHANGED scenario,
         EditIntegration \/ EditWorkspace \/ SelectDirectory \/ TypeSecrets
  PROVE  /\ FormInv'
         /\ UNCHANGED supervisor /\ UNCHANGED faults /\ UNCHANGED settingsVars
<1>1. FormTypes /\ Served /\ Heard
  BY DEF FormInv
<1>2. PICK value \in Forms :
        Edited(value) /\ value.row = form.row /\ value.saving = form.saving
  BY <1>1, FieldEdited
<1>3. /\ UNCHANGED <<project, mutation, listed, editor, inspection, submissions, unheard>>
      /\ UNCHANGED supervisor /\ UNCHANGED faults /\ UNCHANGED settingsVars
      /\ form' \in Forms /\ form'.saved = FALSE /\ form'.row = form.row
      /\ form'.saving = form.saving
  <2>1. /\ UNCHANGED <<listed, editor, inspection, submissions, unheard>>
        /\ UNCHANGED supervisor /\ UNCHANGED faults /\ UNCHANGED settingsVars
        /\ form' = [value EXCEPT !.saved = FALSE]
    BY <1>2 DEF Edited
  <2>2. form' \in Forms /\ form'.saved = FALSE /\ form'.row = form.row
        /\ form'.saving = form.saving
    BY <1>2, <2>1 DEF Forms
  <2> QED
    BY <2>1, <2>2, SettingsSame
<1>4. FormTypes'
  BY <1>1, <1>3 DEF FormTypes
<1>5. Heard'
  BY <1>1, <1>3 DEF Heard, Known, HasMade, Made
<1>6. Served'
  BY <1>1, <1>3 DEF Served, Proper, InOrder, Known, Made
<1> QED
  BY <1>3, <1>4, <1>5, <1>6 DEF FormInv

(* A form has one submission of its own at most. *)
LEMMA FormSubmitted ==
  ASSUME FormInv, SettingsInv, scenario \in FormScenarios, UNCHANGED scenario, SubmitForm
  PROVE  FormInv'
<1>1. FormTypes /\ Served /\ Heard
  BY DEF FormInv
<1>2. UNCHANGED <<project, mutation, listed, editor, inspection, unheard>> /\ editor.open
      /\ ~form.saving
  BY DEF SubmitForm, settingsVars
<1>3. CASE form' = [form EXCEPT !.saved = FALSE] /\ UNCHANGED submissions
  <2>1. form' \in Forms /\ form'.saved = FALSE /\ form'.row = form.row /\ form'.saving = form.saving
    BY <1>1, <1>3 DEF FormTypes, Forms
  <2>2. FormTypes' /\ Heard' /\ Served'
    BY <1>1, <1>2, <1>3, <2>1 DEF FormTypes, Heard, Known, HasMade, Made, Served, Proper, InOrder
  <2> QED
    BY <2>2 DEF FormInv
<1>4. CASE /\ form' = [form EXCEPT !.saving = TRUE, !.saved = FALSE]
           /\ submissions' = Append(submissions, Payload)
  <2>1. form' \in Forms /\ form'.saved = FALSE /\ form'.row = form.row /\ form'.saving = TRUE
    BY <1>1, <1>4 DEF FormTypes, Forms
  <2>2. /\ Payload \in Submissions /\ Payload.pc = "sent" /\ Payload.form = form
        /\ Payload.expected = form.row.revision
    <3>1. form \in Forms /\ form.row.revision \in Nat /\ NewProject \in Projects
      BY <1>1, NothingYet DEF FormTypes, Forms, Projects
    <3> QED
      BY <3>1 DEF Payload, Submissions
  <2> DEFINE n == Len(submissions)
  <2>3. n \in Nat /\ submissions \in Seq(Submissions)
    BY <1>1 DEF FormTypes
  <2>4. /\ submissions' \in Seq(Submissions) /\ Len(submissions') = n + 1
        /\ submissions'[n + 1] = Payload
        /\ \A j \in 1 .. n : submissions'[j] = submissions[j]
    BY <1>4, <2>2, <2>3
  <2>5. submissions' # <<>> /\ (submissions # <<>> => 1 \in 1 .. n)
    BY <2>3, <2>4
  <2>6. FormTypes'
    BY <1>1, <1>2, <2>1, <2>4 DEF FormTypes
  <2>7. ASSUME NEW j \in 1 .. Len(submissions') PROVE Proper(submissions[j])' /\ InOrder(j)'
    <3>1. CASE j \in 1 .. n
      <4>1. Proper(submissions[j]) /\ InOrder(j) /\ ~submissions[j].own
            /\ submissions'[j] = submissions[j]
        BY <1>1, <1>2, <2>4, <3>1 DEF Served, InOrder
      <4> QED
        BY <1>2, <4>1 DEF Proper, InOrder, Known, Made
    <3>2. CASE j = n + 1
      <4>1. submissions'[j] = Payload /\ Known(form.row)
        BY <1>1, <2>4, <3>2 DEF Heard
      <4> QED
        BY <1>2, <2>1, <2>2, <2>4, <3>2, <4>1 DEF Proper, InOrder, Known, Made
    <3> QED
      BY <2>3, <2>4, <3>1, <3>2
  <2>8. HasMade' <=> HasMade
    <3>1. CASE submissions # <<>>
      BY <1>2, <2>4, <2>5, <3>1 DEF HasMade, Made
    <3>2. CASE submissions = <<>>
      <4>1. submissions'[1] = Payload
        BY <2>4, <3>2
      <4> QED
        BY <2>2, <3>2, <4>1 DEF HasMade, Made
    <3> QED
      BY <3>1, <3>2
  <2>9. Heard'
    BY <1>1, <1>2, <2>1, <2>5, <2>8 DEF Heard, Known
  <2>10. mutation.pc # "idle" => submissions # <<>> /\ submissions'[1] = submissions[1]
    BY <1>1, <2>4, <2>5 DEF Served
  <2>11. Served'
    BY <1>1, <1>2, <2>5, <2>7, <2>10 DEF Served, Made
  <2> QED
    BY <2>6, <2>9, <2>11 DEF FormInv
<1> QED
  BY <1>3, <1>4 DEF SubmitForm

(* The oldest submission is taken up. *)
LEMMA FormServed ==
  ASSUME FormInv, SettingsInv, scenario \in FormScenarios, UNCHANGED scenario, ServeForm
  PROVE  FormInv'
<1>1. FormTypes /\ Served /\ Heard /\ submissions \in Seq(Submissions)
  BY DEF FormInv, FormTypes
<1>2. /\ submissions # <<>> /\ NextSave.pc = "sent" /\ mutation.pc = "idle"
      /\ UNCHANGED <<listed, editor, inspection, form, unheard>>
  BY DEF ServeForm
<1>3. /\ NextSave = submissions[1] /\ NextSave \in Submissions /\ 1 \in 1 .. Len(submissions)
      /\ project \in Projects /\ project.revision \in Nat /\ Len(submissions) \in Nat
  BY <1>1, <1>2, FormNumbers
<1>4. PICK pc \in {"refused", "running"} :
        /\ Pass(pc) /\ UNCHANGED project
        /\ IF pc = "refused" THEN UNCHANGED mutation
           ELSE mutation'.pc = "writing" /\ mutation'.expected = NextSave.expected
  <2>1. CASE NextSave.expected = 0 /\ project.revision # 0
    BY <2>1 DEF ServeForm, settingsVars
  <2>2. CASE ~(NextSave.expected = 0 /\ project.revision # 0)
    <3>1. /\ Pass("running")
          /\ Save(Patch(NextSave), NextSave.form.enabled, NextSave.form.config, NextSave.expected)
      BY <2>2 DEF ServeForm
    <3>2. UNCHANGED project /\ mutation'.pc = "writing" /\ mutation'.expected = NextSave.expected
      BY <3>1 DEF Save
    <3> QED
      BY <3>1, <3>2
  <2> QED
    BY <2>1, <2>2
<1> DEFINE served == [NextSave EXCEPT !.pc = pc, !.from = project]
<1>5. /\ served \in Submissions /\ served.pc = pc /\ served.from = project
      /\ served.own = NextSave.own
      /\ served.form = NextSave.form /\ served.expected = NextSave.expected
  BY <1>3 DEF Submissions
<1>6. submissions' = <<served>> \o Tail(submissions)
  BY <1>4 DEF Pass
<1> HIDE DEF served
<1>7. /\ submissions' \in Seq(Submissions) /\ Len(submissions') = Len(submissions)
      /\ submissions' # <<>>
      /\ submissions'[1] = served
      /\ \A j \in 1 .. Len(submissions) : j # 1 => submissions'[j] = submissions[j]
  BY <1>1, <1>2, <1>5, <1>6, FrontReplaced
<1>8. FormTypes'
  BY <1>1, <1>2, <1>7 DEF FormTypes
<1>9. ~HasMade /\ ~HasMade'
  <2>1. ~HasMade
    BY <1>2, <1>3 DEF HasMade, Made
  <2>2. ~(project'.revision > submissions'[1].from.revision)
    BY <1>3, <1>4, <1>5, <1>7
  <2> QED
    BY <2>1, <2>2 DEF HasMade, Made
<1>10. Heard'
  BY <1>1, <1>2, <1>4, <1>9 DEF Heard, Known
<1>11. ASSUME NEW j \in 1 .. Len(submissions) PROVE Proper(submissions[j])' /\ InOrder(j)'
  <2>1. Proper(submissions[j]) /\ InOrder(j)
    BY <1>1 DEF Served
  <2>2. CASE j = 1
    <3>1. ~Made(submissions[1])'
      BY <1>7, <1>9 DEF HasMade
    <3>2. Known(submissions[1].form.row)'
      BY <1>3, <1>4, <1>5, <1>7, <2>1, <2>2 DEF Proper, Known
    <3> QED
      BY <1>2, <1>3, <1>5, <1>7, <2>1, <2>2, <3>1, <3>2 DEF Proper, InOrder
  <2>3. CASE j # 1
    <3>1. submissions'[j] = submissions[j]
      BY <1>7, <2>3
    <3> QED
      BY <1>2, <1>4, <1>7, <2>1, <3>1 DEF Proper, InOrder, Known, Made
  <2> QED
    BY <2>2, <2>3
<1>12. Served'
  <2>1. \A j \in 1 .. Len(submissions') : Proper(submissions[j])' /\ InOrder(j)'
    BY <1>7, <1>11
  <2>2. mutation'.pc # "idle" =>
          /\ pc = "running" /\ mutation'.pc = "writing" /\ mutation'.expected = NextSave.expected
    BY <1>2, <1>4
  <2> QED
    BY <1>4, <1>5, <1>7, <2>1, <2>2 DEF Served
<1> QED
  BY <1>8, <1>10, <1>12 DEF FormInv

(* What is left when the oldest save has ended. *)
LEMMA RestOfSaves ==
  ASSUME FormInv, SettingsInv, scenario \in FormScenarios, submissions # <<>>,
         submissions' = Tail(submissions),
         UNCHANGED <<project, mutation>>, mutation.pc = "idle", editor'.open \/ ~editor.open,
         ~NextSave.own => form'.saving = form.saving \/ ~editor.open
  PROVE  /\ submissions' \in Seq(Submissions) /\ ~HasMade' /\ Served'
         /\ NextSave.own => submissions' = <<>>
         /\ (submissions' # <<>> <=> Len(submissions) > 1)
<1>1. FormTypes /\ Served /\ Heard /\ submissions \in Seq(Submissions)
  BY DEF FormInv, FormTypes
<1>2. /\ submissions' \in Seq(Submissions) /\ Len(submissions') = Len(submissions) - 1
      /\ Len(submissions) \in Nat /\ Len(submissions) >= 1
      /\ \A j \in 1 .. Len(submissions') : submissions'[j] = submissions[j + 1]
      /\ submissions' # <<>> => 1 \in 1 .. Len(submissions') /\ Len(submissions) >= 2
  BY <1>1, FrontGone
<1>3. NextSave = submissions[1] /\ 1 \in 1 .. Len(submissions)
  BY <1>1, FormNumbers
<1>4. NextSave.own => Len(submissions) = 1
  BY <1>1, <1>3 DEF Served, InOrder
<1>5. ASSUME NEW j \in 1 .. Len(submissions')
      PROVE  /\ Proper(submissions[j])' /\ InOrder(j)' /\ submissions'[j].pc = "sent"
  <2>1. j + 1 \in 1 .. Len(submissions) /\ submissions'[j] = submissions[j + 1] /\ j + 1 > 1
    BY <1>2
  <2>2. Proper(submissions[j + 1]) /\ InOrder(j + 1)
    BY <1>1, <2>1 DEF Served
  <2>3. submissions'[j].pc = "sent"
    BY <2>1, <2>2 DEF InOrder
  <2>4. Proper(submissions[j])'
    BY <2>1, <2>2, <2>3 DEF Proper, Known, Made
  <2>5. InOrder(j)'
    <3>1. ASSUME submissions'[j].own PROVE j = Len(submissions') /\ form'.saving /\ editor'.open
      <4>1. j + 1 = Len(submissions) /\ form.saving /\ editor.open
        BY <2>1, <2>2, <3>1 DEF InOrder
      <4>2. ~NextSave.own
        BY <1>2, <1>4, <4>1
      <4>3. j = Len(submissions')
        <5>1. Len(submissions') = Len(submissions) - 1 /\ Len(submissions) \in Nat
          BY <1>2
        <5> QED
          BY <4>1, <5>1
      <4>4. form'.saving = form.saving
        BY <4>1, <4>2
      <4>5. form'.saving
        BY <4>1, <4>4, Zenon
      <4> QED
        BY <4>1, <4>3, <4>5, Zenon
    <3> QED
      BY <2>3, <3>1 DEF InOrder
  <2> QED
    BY <2>3, <2>4, <2>5
<1>6. ~HasMade'
  BY <1>2, <1>5 DEF HasMade, Made
<1>7. Served'
  BY <1>5 DEF Served
<1>8. NextSave.own => submissions' = <<>>
  BY <1>2, <1>4
<1>9. submissions' # <<>> <=> Len(submissions) > 1
  <2>1. ASSUME submissions' = <<>> PROVE Len(submissions) = 1
    <3>1. Len(submissions') = 0
      BY <1>2, <2>1
    <3> QED
      BY <1>2, <3>1
  <2> QED
    BY <1>2, <2>1
<1> QED
  BY <1>2, <1>6, <1>7, <1>8, <1>9

(* The answer to the oldest submission, or its failure. *)
LEMMA FormAnswered ==
  ASSUME FormInv, SettingsInv, scenario \in FormScenarios, UNCHANGED scenario, AnswerForm
  PROVE  FormInv'
<1>1. FormTypes /\ Served /\ Heard
  BY DEF FormInv
<1>2. /\ submissions # <<>> /\ NextSave.pc # "sent"
      /\ (NextSave.pc = "running" => mutation.pc = "idle")
      /\ UNCHANGED <<project, mutation>>
  BY DEF AnswerForm, settingsVars
<1>3. /\ NextSave = submissions[1] /\ 1 \in 1 .. Len(submissions) /\ NextSave \in Submissions
      /\ project \in Projects /\ project.revision \in Nat
  BY <1>1, <1>2, FormNumbers
<1>4. mutation.pc = "idle"
  BY <1>1, <1>2, <1>3 DEF Served
<1>5. HasMade <=> Made(NextSave)
  BY <1>2, <1>3 DEF HasMade
<1>6. CASE NotSaved
  <2>1. /\ unheard' = (unheard \/ Made(NextSave)) /\ submissions' = Tail(submissions)
        /\ form' = IF NextSave.own THEN [form EXCEPT !.saving = FALSE] ELSE form
        /\ UNCHANGED <<listed, editor, inspection>>
    BY <1>6 DEF NotSaved
  <2>2. /\ form' \in Forms /\ form'.saved = form.saved /\ form'.row = form.row
        /\ form'.missed = form.missed /\ form'.config = form.config /\ form'.found = form.found
        /\ form'.enabled = form.enabled /\ form'.draft = form.draft
        /\ (~NextSave.own => form'.saving = form.saving)
    BY <1>1, <2>1 DEF FormTypes, Forms
  <2>3. submissions' \in Seq(Submissions) /\ ~HasMade' /\ Served'
    BY <1>2, <1>4, <2>1, <2>2, RestOfSaves
  <2>4. unheard' \in BOOLEAN
    BY <1>1, <2>1 DEF FormTypes, Made
  <2>5. FormTypes'
    BY <1>1, <2>1, <2>2, <2>3, <2>4 DEF FormTypes
  <2>6. ~unheard' => ~unheard /\ ~HasMade
    BY <1>5, <2>1
  <2>7. Heard'
    BY <1>1, <1>2, <2>1, <2>2, <2>6 DEF Heard, Known
  <2> QED
    BY <2>3, <2>5, <2>7 DEF FormInv
<1>7. CASE Made(NextSave) /\ Saved
  <2>1. /\ listed' = project /\ editor' = [open |-> TRUE, row |-> project]
        /\ inspection' = [inspection EXCEPT !.asking = TRUE] /\ unheard' = FALSE
        /\ submissions' = Tail(submissions)
        /\ \/ NextSave.own /\ form' = Initial(project, form.found)
           \/ ~NextSave.own /\ editor.open /\ UNCHANGED form
           \/ ~NextSave.own /\ ~editor.open /\
              form' = [Initial(project, inspection.found) EXCEPT !.missed = Len(submissions) > 1]
    BY <1>7 DEF Saved, Confirmed
  <2>2. ~NextSave.own => form'.saving = form.saving \/ ~editor.open
    BY <2>1
  <2>3. /\ submissions' \in Seq(Submissions) /\ ~HasMade' /\ Served'
        /\ NextSave.own => submissions' = <<>>
        /\ (submissions' # <<>> <=> Len(submissions) > 1)
    BY <1>2, <1>4, <2>1, <2>2, RestOfSaves
  <2>4. form.found \in Findings /\ inspection.found \in Findings
    BY <1>1 DEF FormTypes, Forms, Inspections
  <2> DEFINE other == [Initial(project, inspection.found) EXCEPT !.missed = Len(submissions) > 1]
  <2>5. /\ other \in Forms /\ other.row = project /\ other.missed = (Len(submissions) > 1)
        /\ other.enabled = project.enabled /\ other.draft = {}
        /\ other.config = Merge(project.config, other.found)
    <3> DEFINE rest == Len(submissions) > 1
               shows == Initial(project, inspection.found)
    <3>1. rest \in BOOLEAN /\ other = [shows EXCEPT !.missed = rest]
      OBVIOUS
    <3>2. /\ shows \in Forms /\ shows.row = project /\ shows.enabled = project.enabled
          /\ shows.draft = {} /\ shows.config = Merge(project.config, shows.found)
      BY <1>3, <2>4, Mounted
    <3> HIDE DEF rest, other, shows
    <3>3. /\ other \in Forms /\ other.row = shows.row /\ other.missed = rest
          /\ other.enabled = shows.enabled /\ other.draft = shows.draft
          /\ other.config = shows.config /\ other.found = shows.found
      BY <3>1, <3>2 DEF Forms
    <3> QED
      BY <3>2, <3>3 DEF rest
  <2> HIDE DEF other
  <2>6. form' \in Forms
    <3>1. form \in Forms /\ Initial(project, form.found) \in Forms
      BY <1>1, <1>3, <2>4, Mounted DEF FormTypes
    <3>2. form' = Initial(project, form.found) \/ form' = form \/ form' = other
      BY <2>1, Zenon DEF other
    <3> QED
      BY <2>5, <3>1, <3>2, Zenon
  <2>7. inspection' \in Inspections
    BY <1>1, <2>1 DEF FormTypes, Inspections
  <2>8. editor' \in [open : BOOLEAN, row : Projects]
    BY <1>3, <2>1
  <2>9. FormTypes'
    BY <1>3, <2>1, <2>3, <2>6, <2>7, <2>8 DEF FormTypes
  <2>10. Known(project)
    BY <1>3 DEF Known
  <2>11. CASE form' = form
    <3>1. Known(form.row)' /\ Known(listed)' /\ Known(editor.row)'
      BY <1>1, <1>2, <2>1, <2>10, <2>11 DEF Heard, Known
    <3>2. ~form.saved \/ form.missed
      BY <1>1, <1>2 DEF Heard
    <3> QED
      BY <1>1, <1>2, <2>1, <2>3, <2>9, <2>11, <3>1, <3>2 DEF FormInv, Heard
  <2>12. CASE form' # form
    <3>1. /\ form'.row = project /\ form'.enabled = project.enabled /\ form'.draft = {}
          /\ form'.config = Merge(project.config, form'.found)
      <4>1. CASE form' = other
        BY <2>5, <4>1
      <4>2. CASE form' = Initial(project, form.found)
        <5> DEFINE shows == Initial(project, form.found)
        <5>1. /\ shows.row = project /\ shows.enabled = project.enabled /\ shows.draft = {}
              /\ shows.config = Merge(project.config, form.found) /\ shows.found = form.found
          BY <1>3, <2>4, Mounted
        <5> HIDE DEF shows
        <5> QED
          BY <4>2, <5>1 DEF shows
      <4> QED
        BY <2>1, <2>12, <4>1, <4>2 DEF other
    <3>2. submissions' # <<>> => form'.missed
      BY <2>1, <2>3, <2>5, <2>12 DEF other
    <3>3. Known(form.row)' /\ Known(listed)' /\ Known(editor.row)'
      BY <1>2, <2>1, <2>10, <3>1 DEF Known
    <3> QED
      BY <1>1, <1>2, <2>1, <2>3, <2>9, <3>1, <3>2, <3>3 DEF FormInv, Heard
  <2> QED
    BY <2>11, <2>12
<1> QED
  BY <1>6, <1>7 DEF AnswerForm

(* A submission's request times out. *)
LEMMA FormGivesUp ==
  ASSUME FormInv, SettingsInv, scenario \in FormScenarios, UNCHANGED scenario,
         NEW i \in DOMAIN submissions, FormTimesOut(i)
  PROVE  FormInv'
<1>1. FormTypes /\ Served /\ Heard /\ submissions \in Seq(Submissions)
  BY DEF FormInv, FormTypes
<1>2. i \in 1 .. Len(submissions) /\ Len(submissions) \in Nat
  BY <1>1, FormNumbers
<1>3. /\ UNCHANGED <<project, mutation, listed, editor, inspection, unheard>>
      /\ submissions' = [submissions EXCEPT ![i].heard = FALSE, ![i].own = FALSE]
      /\ form' = IF submissions[i].own THEN [form EXCEPT !.saving = FALSE] ELSE form
  BY DEF FormTimesOut, settingsVars
<1>4. /\ form' \in Forms /\ form'.saved = form.saved /\ form'.row = form.row
      /\ form'.missed = form.missed /\ form'.config = form.config /\ form'.found = form.found
      /\ form'.enabled = form.enabled /\ form'.draft = form.draft
      /\ (~submissions[i].own => form'.saving = form.saving)
  BY <1>1, <1>3 DEF FormTypes, Forms
<1>5. /\ submissions' \in Seq(Submissions) /\ Len(submissions') = Len(submissions)
      /\ \A j \in 1 .. Len(submissions) : j # i => submissions'[j] = submissions[j]
      /\ submissions'[i] = [submissions[i] EXCEPT !.heard = FALSE, !.own = FALSE]
  <2> DEFINE lost == [submissions[i] EXCEPT !.heard = FALSE, !.own = FALSE]
  <2>1. submissions[i] \in Submissions
    BY <1>1, <1>2
  <2>2. lost \in Submissions
    BY <2>1 DEF Submissions
  <2>3. submissions' = [submissions EXCEPT ![i] = lost]
    BY <1>1, <1>2, <1>3
  <2> HIDE DEF lost
  <2>4. /\ submissions' \in Seq(Submissions) /\ Len(submissions') = Len(submissions)
        /\ \A j \in 1 .. Len(submissions) : j # i => submissions'[j] = submissions[j]
        /\ submissions'[i] = lost
    BY <1>1, <1>2, <2>2, <2>3
  <2> QED
    BY <2>4 DEF lost
<1>6. ASSUME NEW j \in 1 .. Len(submissions)
      PROVE  /\ submissions'[j].pc = submissions[j].pc /\ submissions'[j].form = submissions[j].form
             /\ submissions'[j].from = submissions[j].from
             /\ submissions'[j].expected = submissions[j].expected
             /\ submissions'[j].own => j # i /\ submissions[j].own
  <2>1. submissions[j] \in Submissions /\ submissions[i] \in Submissions
    BY <1>1, <1>2
  <2>2. CASE j = i
    BY <1>5, <2>1, <2>2 DEF Submissions
  <2>3. CASE j # i
    BY <1>5, <2>3
  <2> QED
    BY <2>2, <2>3
<1>7. submissions' # <<>> /\ submissions # <<>> /\ 1 \in 1 .. Len(submissions)
  BY <1>2, <1>5
<1>8. HasMade' <=> HasMade
  BY <1>3, <1>6, <1>7 DEF HasMade, Made
<1>9. FormTypes'
  BY <1>1, <1>3, <1>4, <1>5 DEF FormTypes
<1>10. Heard'
  BY <1>1, <1>3, <1>4, <1>7, <1>8 DEF Heard, Known
<1>11. ASSUME NEW j \in 1 .. Len(submissions) PROVE Proper(submissions[j])' /\ InOrder(j)'
  <2>1. Proper(submissions[j]) /\ InOrder(j) /\ InOrder(i)
    BY <1>1, <1>2 DEF Served
  <2>2. Proper(submissions[j])'
    BY <1>3, <1>6, <2>1 DEF Proper, Known, Made
  <2>3. ASSUME submissions'[j].own PROVE j = Len(submissions') /\ form'.saving /\ editor'.open
    <3>1. j # i /\ j = Len(submissions) /\ form.saving /\ editor.open
      BY <1>6, <2>1, <2>3 DEF InOrder
    <3>2. ~submissions[i].own
      BY <2>1, <3>1 DEF InOrder
    <3> QED
      BY <1>3, <1>4, <1>5, <3>1, <3>2
  <2>4. InOrder(j)'
    BY <1>6, <2>1, <2>3 DEF InOrder
  <2> QED
    BY <2>2, <2>4
<1>12. Served'
  BY <1>1, <1>3, <1>5, <1>6, <1>7, <1>11 DEF Served, Made
<1> QED
  BY <1>9, <1>10, <1>12 DEF FormInv

(* The process is gone: a save that was made is unheard of. *)
LEMMA FormLoses ==
  ASSUME FormInv, SettingsInv, UNCHANGED scenario, FormLosesRuntime, SettingsLoseRuntime
  PROVE  FormInv'
<1>1. /\ FormTypes /\ UNCHANGED project /\ mutation' = NoMutation
      /\ unheard' = (unheard \/ \E j \in DOMAIN submissions : Made(submissions[j]))
      /\ form' = [form EXCEPT !.saving = FALSE] /\ submissions' = <<>>
      /\ UNCHANGED <<listed, editor, inspection>>
  BY DEF FormInv, FormLosesRuntime, SettingsLoseRuntime
<1>2. /\ form' \in Forms /\ form'.saved = form.saved /\ form'.row = form.row
      /\ form'.missed = form.missed /\ form'.config = form.config /\ form'.found = form.found
      /\ form'.enabled = form.enabled /\ form'.draft = form.draft
  BY <1>1 DEF FormTypes, Forms
<1>3. submissions' \in Seq(Submissions) /\ Len(submissions') = 0 /\ unheard' \in BOOLEAN
  BY <1>1 DEF FormTypes, Made
<1>4. FormTypes'
  BY <1>1, <1>2, <1>3 DEF FormTypes
<1>5. CASE scenario \notin FormScenarios
  BY <1>1, <1>4, <1>5 DEF FormInv
<1>6. CASE scenario \in FormScenarios
  <2>1. Served /\ Heard
    BY <1>6 DEF FormInv
  <2>2. ~unheard' => ~unheard /\ ~HasMade
    BY <1>1, FormNumbers DEF HasMade
  <2>3. Heard'
    BY <1>1, <1>2, <2>1, <2>2 DEF Heard, Known
  <2>4. Served'
    BY <1>1, <1>3, Nobody DEF Served
  <2> QED
    BY <1>4, <1>6, <2>3, <2>4 DEF FormInv
<1> QED
  BY <1>5, <1>6

(* The invariant holds at first. *)
LEMMA InitFormHolds ==
  ASSUME InitForm, InitSettings
  PROVE  FormInv
<1>1. /\ project = NewProject /\ mutation.pc = "idle" /\ listed = NewProject
      /\ editor = [open |-> FALSE, row |-> NewProject]
      /\ inspection \in Inspections
      /\ form = Initial(NewProject, "nothing") /\ submissions = <<>> /\ unheard = FALSE
  BY Nobody, NothingYet DEF InitForm, InitSettings, NewProject
<1>2. NewProject \in Projects /\ NewProject.revision = 0
  BY NothingYet
<1>3. form \in Forms /\ form.row = NewProject
  BY <1>1, <1>2, NothingYet, Mounted
<1>4. submissions \in Seq(Submissions) /\ Len(submissions) = 0
  BY <1>1
<1>5. FormTypes
  BY <1>1, <1>2, <1>3, <1>4 DEF FormTypes
<1>6. Heard
  BY <1>1, <1>2, <1>3 DEF Heard, Known
<1>7. Served
  BY <1>1, <1>4 DEF Served
<1> QED
  BY <1>1, <1>5, <1>6, <1>7 DEF FormInv

(* The invariant says what FormTruthful asks. *)
LEMMA FormIsTruthful ==
  ASSUME FormInv
  PROVE  FormTruthful
<1>1. CASE scenario \in FormScenarios
  <2>1. FormTypes /\ Served /\ Heard
    BY <1>1 DEF FormInv
  <2>2. \A s \in Range(submissions) : \E j \in 1 .. Len(submissions) : s = submissions[j]
    BY <2>1 DEF FormTypes, Range
  <2>3. \A s \in Range(submissions) : Made(s) => s.form.row = s.from
    BY <2>1, <2>2 DEF Served, Proper
  <2> QED
    BY <2>1, <2>3 DEF Heard, FormTruthful
<1>2. CASE scenario \notin FormScenarios
  <2>1. ~editor.open /\ submissions = <<>>
    BY <1>2 DEF FormInv
  <2>2. Range(submissions) = {}
    BY <2>1 DEF Range
  <2> QED
    BY <2>1, <2>2 DEF FormTruthful
<1> QED
  BY <1>1, <1>2

-----------------------------------------------------------------------------
(* The steps of the application. *)

(* A step of what is in the process, or depends on it. *)
Quiet == UNCHANGED supervisor /\ (UNCHANGED faults \/ \E kind \in Faults : Fault(kind))

(* Such a step keeps the invariant of the supervisor. *)
LEMMA QuietKeeps ==
  ASSUME SupervisorInv, Quiet
  PROVE  SupervisorInv' /\ Serving' = Serving
BY SupervisorRests DEF Quiet

(* What depends on the settings while they rest. *)
LEMMA SourceRests ==
  ASSUME SettingsInv, SentryInv, DingTalkInv, Serving' = Serving,
         UNCHANGED <<settingsVars, sentryVars, dingtalkVars, scenario>>
  PROVE  SettingsInv' /\ SentryInv' /\ DingTalkInv'
<1>1. UNCHANGED source /\ UNCHANGED sentryVars /\ UNCHANGED dingtalkVars /\ UNCHANGED settingsVars
      /\ UNCHANGED scenario
  BY DEF settingsVars
<1>2. poll.pc # "waiting" => source'.state = "running"
  BY <1>1 DEF SentryInv
<1>3. stream = "open" => source'.state = "running"
  BY <1>1 DEF DingTalkInv
<1> QED
  BY <1>1, <1>2, <1>3, SettingsRest, SentryRests, StreamRests

(* A process starts, fails to, or exits: all that depends on it goes with it. *)
LEMMA ProcessKeeps ==
  ASSUME DesktopInvariant, Process, UNCHANGED scenario
  PROVE  DesktopInvariant' /\ Forward
<1> SUFFICES ASSUME NEW p \in Processes,
                    \/ Started(p) /\ StartsSources /\
                       UNCHANGED <<viewVars, sentryVars, dingtalkVars, formVars>>
                    \/ /\ scenario \in {"settings", "dingtalk"} /\ (StartFails(p) \/ StartupTimeout(p))
                       /\ UNCHANGED <<viewVars, settingsVars, sentryVars, dingtalkVars, formVars>>
                    \/ Exits(p) /\ LosesRuntime
             PROVE  DesktopInvariant' /\ Forward
  BY DEF Process
<1>1. SupervisorInv /\ SettingsInv /\ SentryInv /\ DingTalkInv /\ ViewInv /\ FormInv
      /\ scenario \in Scenarios
  BY DEF DesktopInvariant
<1>2. CASE Started(p) /\ StartsSources /\ UNCHANGED <<viewVars, sentryVars, dingtalkVars, formVars>>
  <2>1. SupervisorInv' /\ Serving' /\ ~Serving
    BY <1>1, <1>2, StartedKeeps
  <2>2. SettingsInv'
    BY <1>1, <1>2, <2>1, StartsKeep
  <2>3. source.state = "none"
    BY <1>1, <2>1 DEF SettingsInv
  <2>4. SentryInv' /\ DingTalkInv'
    BY <1>1, <1>2, <2>3, SentryRests, StreamRests DEF SentryInv, DingTalkInv
  <2>5. FormInv'
    BY <1>1, <1>2, FormRests DEF StartsSources
  <2> QED
    BY <1>1, <1>2, <2>1, <2>2, <2>4, <2>5, ViewRests DEF DesktopInvariant
<1>3. CASE /\ StartFails(p) \/ StartupTimeout(p)
           /\ UNCHANGED <<viewVars, settingsVars, sentryVars, dingtalkVars, formVars>>
  <2>1. SupervisorInv' /\ Serving' = Serving
    BY <1>1, <1>3, NotStarted
  <2>2. SettingsInv' /\ SentryInv' /\ DingTalkInv'
    BY <1>1, <1>3, <2>1, SourceRests
  <2>3. FormInv'
    BY <1>1, <1>3, FormRests, SettingsSame
  <2> QED
    BY <1>1, <1>3, <2>1, <2>2, <2>3, ViewRests DEF DesktopInvariant
<1>4. CASE Exits(p) /\ LosesRuntime
  <2>1. SupervisorInv'
    BY <1>1, <1>4, ExitsKeeps
  <2>2. SettingsInv' /\ SentryInv' /\ DingTalkInv' /\ ViewInv' /\ Forward /\ FormInv'
    BY <1>1, <1>4, SettingsLose, PollerLoses, StreamLoses, ViewLoses, FormLoses DEF LosesRuntime
  <2> QED
    BY <1>1, <2>1, <2>2 DEF DesktopInvariant
<1> QED
  BY <1>2, <1>3, <1>4

(* The application quits. *)
LEMMA QuittingKeeps ==
  ASSUME DesktopInvariant, Quits, UNCHANGED scenario
  PROVE  DesktopInvariant' /\ Forward
<1>1. SupervisorInv /\ SettingsInv /\ SentryInv /\ DingTalkInv /\ ViewInv /\ FormInv
      /\ scenario \in Scenarios
  BY DEF DesktopInvariant
<1>2. CASE Quit /\ UNCHANGED <<viewVars, settingsVars, sentryVars, dingtalkVars, formVars>>
  <2>1. SupervisorInv' /\ Serving' = Serving
    BY <1>1, <1>2, QuitsKeeps
  <2>2. SettingsInv' /\ SentryInv' /\ DingTalkInv'
    BY <1>1, <1>2, <2>1, SourceRests
  <2>3. FormInv'
    BY <1>1, <1>2, FormRests, SettingsSame
  <2> QED
    BY <1>1, <1>2, <2>1, <2>2, <2>3, ViewRests DEF DesktopInvariant
<1>3. CASE Killed /\ LosesRuntime
  <2>1. SupervisorInv'
    BY <1>1, <1>3, KilledKeeps
  <2>2. SettingsInv' /\ SentryInv' /\ DingTalkInv' /\ ViewInv' /\ Forward /\ FormInv'
    BY <1>1, <1>3, SettingsLose, PollerLoses, StreamLoses, ViewLoses, FormLoses DEF LosesRuntime
  <2> QED
    BY <1>1, <2>1, <2>2 DEF DesktopInvariant
<1> QED
  BY <1>2, <1>3 DEF Quits

(* The window and its user. *)
LEMMA WindowKeeps ==
  ASSUME DesktopInvariant, Window \/ User
  PROVE  DesktopInvariant' /\ Forward
<1>1. SupervisorInv /\ SettingsInv /\ SentryInv /\ DingTalkInv /\ ViewInv /\ FormInv
      /\ scenario \in Scenarios
  BY DEF DesktopInvariant
<1>2. UNCHANGED <<settingsVars, sentryVars, dingtalkVars, formVars, scenario>>
  BY DEF Window, User
<1>3. Quiet /\ ViewInv' /\ Forward
  <2>1. CASE AskList \/ ServeList
    BY <1>1, <2>1, ListLoads DEF AskList, ServeList, Quiet
  <2>2. CASE Load
    BY <1>1, <2>2, ListShown DEF Load, Quiet
  <2>3. ASSUME NEW i \in Issues, Poll(i) \/ Refresh(i) PROVE Quiet /\ ViewInv' /\ Forward
    BY <1>1, <2>3, EventsKeep DEF Poll, Refresh, Quiet
  <2>4. ASSUME NEW q \in requests, ServeRead(q) PROVE Quiet /\ ViewInv' /\ Forward
    BY <1>1, <2>4, ReadServed DEF ServeRead, Quiet
  <2>5. ASSUME NEW q \in requests, ServeCommand(q) PROVE Quiet /\ ViewInv' /\ Forward
    BY <1>1, <2>5, CommandServed DEF ServeCommand, Quiet
  <2>6. ASSUME NEW a \in answers, Receive(a) PROVE Quiet /\ ViewInv' /\ Forward
    BY <1>1, <2>6, AnswerReceived DEF Receive, Quiet
  <2>7. CASE GoTo \/ Deselect
    BY <1>1, <2>7, UserMoves DEF GoTo, Deselect, Quiet
  <2>8. ASSUME NEW i \in Issues, Select(i) PROVE Quiet /\ ViewInv' /\ Forward
    BY <1>1, <2>8, UserMoves DEF Select, Quiet
  <2>9. ASSUME NEW i \in Issues, Ask(i) \/ Submit(i) PROVE Quiet /\ ViewInv' /\ Forward
    BY <1>1, <2>9, UserAsks DEF Ask, Submit, Quiet
  <2>10. ASSUME NEW i \in Issues, Changes(i) PROVE Quiet /\ ViewInv' /\ Forward
    BY <1>1, <2>10, ChangesKeep DEF Changes, Quiet
  <2>11. ASSUME NEW q \in requests, TimeOut(q) PROVE Quiet /\ ViewInv' /\ Forward
    BY <1>1, <2>11, RequestTimesOut DEF TimeOut, Fault, Quiet
  <2> QED
    BY <2>1, <2>2, <2>3, <2>4, <2>5, <2>6, <2>7, <2>8, <2>9, <2>10, <2>11 DEF Window, User
<1>4. SupervisorInv' /\ Serving' = Serving
  BY <1>1, <1>3, QuietKeeps
<1>5. SettingsInv' /\ SentryInv' /\ DingTalkInv'
  BY <1>1, <1>2, <1>4, SourceRests
<1>6. FormInv'
  BY <1>1, <1>2, FormRests, SettingsSame
<1> QED
  BY <1>1, <1>2, <1>3, <1>4, <1>5, <1>6 DEF DesktopInvariant

(* A source is replaced only after its poll and its stream have ended. *)
LEMMA SourceChanges ==
  ASSUME SettingsInv, SentryInv, DingTalkInv, RefreshProject(SourceEnded)
  PROVE  poll.pc = "waiting" /\ stream # "open"
<1>1. source.state # "none" => SourceEnded
  BY DEF RefreshProject
<1>2. ASSUME poll.pc # "waiting" PROVE FALSE
  <2>1. source.state = "running" /\ scenario = "sentry"
    BY <1>2 DEF SentryInv
  <2> QED
    BY <1>1, <1>2, <2>1 DEF SourceEnded, PollerEnded
<1>3. ASSUME stream = "open" PROVE FALSE
  <2>1. source.state = "running" /\ scenario = "dingtalk"
    BY <1>3 DEF DingTalkInv
  <2> QED
    BY <1>1, <1>3, <2>1 DEF SourceEnded, StreamEnded
<1> QED
  BY <1>2, <1>3

(* The steps of a save. *)
LEMMA SettingsKeep ==
  ASSUME DesktopInvariant, Settings
  PROVE  DesktopInvariant' /\ Forward
<1>1. SupervisorInv /\ SettingsInv /\ SentryInv /\ DingTalkInv /\ ViewInv /\ FormInv
      /\ scenario \in Scenarios
  BY DEF DesktopInvariant
<1>2. UNCHANGED <<viewVars, sentryVars, dingtalkVars, formVars, scenario>>
  BY DEF Settings
<1>3. Quiet
  BY DEF Settings, WriteSecret, Persist, UndoSecret, Undone, AbortSource, RefreshProject,
         StartSource, Fault, Quiet
<1>4. SettingsInv'
  BY <1>1, WriteKeeps, PersistKeeps, UndoKeeps, UndoneKeeps, AbortKeeps, RefreshKeeps DEF Settings
<1>5. poll.pc # "waiting" => source'.state = "running"
  <2>1. CASE WriteSecret \/ Persist \/ UndoSecret \/ Undone
    BY <1>1, <2>1 DEF WriteSecret, Persist, UndoSecret, Undone, SentryInv
  <2>2. CASE AbortSource
    <3>1. source' = [source EXCEPT !.aborted = TRUE] /\ source \in Sources
      BY <1>1, <2>2 DEF AbortSource, SettingsInv, SettingsTypes
    <3>2. source'.state = source.state
      BY <3>1 DEF Sources
    <3> QED
      BY <1>1, <3>2 DEF SentryInv
  <2>3. CASE RefreshProject(SourceEnded)
    BY <1>1, <2>3, SourceChanges
  <2> QED
    BY <2>1, <2>2, <2>3 DEF Settings
<1>6. stream = "open" => source'.state = "running"
  <2>1. CASE WriteSecret \/ Persist \/ UndoSecret \/ Undone
    BY <1>1, <2>1 DEF WriteSecret, Persist, UndoSecret, Undone, DingTalkInv
  <2>2. CASE AbortSource
    <3>1. source' = [source EXCEPT !.aborted = TRUE] /\ source \in Sources
      BY <1>1, <2>2 DEF AbortSource, SettingsInv, SettingsTypes
    <3>2. source'.state = source.state
      BY <3>1 DEF Sources
    <3> QED
      BY <1>1, <3>2 DEF DingTalkInv
  <2>3. CASE RefreshProject(SourceEnded)
    BY <1>1, <2>3, SourceChanges
  <2> QED
    BY <2>1, <2>2, <2>3 DEF Settings
<1>7. SentryInv' /\ DingTalkInv'
  BY <1>1, <1>2, <1>5, <1>6, SentryRests, StreamRests
<1>8. FormInv'
  <2>1. CASE Persist
    <3>1. CASE scenario \in FormScenarios
      BY <1>1, <1>2, <2>1, <3>1, FormPersists
    <3>2. CASE scenario \notin FormScenarios
      BY <1>1, <1>2, <3>2, FormRests
    <3> QED
      BY <3>1, <3>2
  <2>2. CASE WriteSecret
    <3>1. UNCHANGED project /\ mutation.pc = "writing" /\ mutation \in Mutations
      BY <1>1, <2>2 DEF WriteSecret, SettingsInv, SettingsTypes
    <3>2. \E k : mutation' \in {Applied(k), [Applied(k) EXCEPT !.pc = "undoing"]}
      BY <2>2 DEF WriteSecret
    <3>3. mutation'.pc \in {"writing", "undoing"} /\ mutation'.expected = mutation.expected
      BY <3>1, <3>2 DEF Applied, Mutations
    <3> QED
      BY <1>1, <1>2, <3>1, <3>3, FormRests
  <2>3. CASE UndoSecret \/ Undone
    <3>1. UNCHANGED project /\ mutation.pc = "undoing" /\ mutation \in Mutations
      BY <1>1, <2>3 DEF UndoSecret, Undone, SettingsInv, SettingsTypes
    <3>2. mutation' \in {NoMutation, [mutation EXCEPT !.applied = Front(@)]}
      BY <2>3 DEF UndoSecret, Undone
    <3>3. mutation'.pc = "idle"
          \/ (mutation'.pc = "undoing" /\ mutation'.expected = mutation.expected)
      BY <3>1, <3>2 DEF NoMutation, Mutations
    <3> QED
      BY <1>1, <1>2, <3>1, <3>3, FormRests
  <2>4. CASE AbortSource \/ RefreshProject(SourceEnded)
    BY <1>1, <1>2, <2>4, FormRests, Nobody DEF AbortSource, RefreshProject
  <2> QED
    BY <2>1, <2>2, <2>3, <2>4 DEF Settings
<1> QED
  BY <1>1, <1>2, <1>3, <1>4, <1>7, <1>8, QuietKeeps, ViewRests DEF DesktopInvariant

(* The patches of a save are patches. *)
LEMMA PatchTypes ==
  ASSUME NEW patch \in Patches
  PROVE  patch \in SecretPatches
<1>1. [k \in Keys |-> 1] \in SecretPatches /\ <<>> \in SecretPatches
  BY Nobody
<1>2. CASE scenario = "settings"
  <2>1. patch \in UNION {[fields -> {0, 2}] : fields \in SUBSET Keys} \/ patch = [k \in Keys |-> 1]
    BY <1>2 DEF Patches
  <2>2. ASSUME NEW fields \in SUBSET Keys, patch \in [fields -> {0, 2}]
        PROVE  patch \in SecretPatches
    <3>1. patch \in [fields -> 0 .. 2]
      BY <2>2
    <3> QED
      BY <3>1 DEF SecretPatches
  <2> QED
    BY <1>1, <2>1, <2>2
<1>3. CASE scenario # "settings"
  BY <1>1, <1>3 DEF Patches
<1> QED
  BY <1>2, <1>3

(* Every way to save is a Save. *)
LEMMA SaveStarts ==
  ASSUME SettingsInv, Saves
  PROVE  \E patch \in SecretPatches, enabled \in BOOLEAN, config \in Configs, expected \in Nat :
            Save(patch, enabled, config, expected)
<1>1. /\ project \in Projects /\ project.revision \in Nat /\ project.enabled \in BOOLEAN
      /\ project.config \in Configs
  BY DEF SettingsInv, SettingsTypes, Projects
<1>2. \A expected \in Expected : expected \in Nat
  BY <1>1 DEF Expected
<1>3. <<>> \in SecretPatches
  BY Nobody
<1>4. CASE SaveProjectSettings(Patches)
  <2>1. PICK patch \in Patches, enabled \in BOOLEAN, expected \in Expected :
          Save(patch, enabled, project.config, expected)
    BY <1>4 DEF SaveProjectSettings
  <2> QED
    BY <1>1, <1>2, <2>1, PatchTypes
<1>5. CASE SetIntegrationSecrets(Patches)
  <2>1. PICK patch \in Patches : Save(patch, project.enabled, project.config, project.revision)
    BY <1>5 DEF SetIntegrationSecrets
  <2> QED
    BY <1>1, <2>1, PatchTypes
<1>6. CASE CreateProject
  <2>1. Save(<<>>, FALSE, {}, 0) /\ {} \in Configs
    BY <1>6 DEF CreateProject, Configs
  <2> QED
    BY <1>3, <2>1
<1>7. CASE UpdateProject
  <2>1. PICK enabled \in BOOLEAN, expected \in Expected :
          Save(<<>>, enabled, project.config, expected)
    BY <1>7 DEF UpdateProject
  <2> QED
    BY <1>1, <1>2, <1>3, <2>1
<1> QED
  BY <1>4, <1>5, <1>6, <1>7 DEF Saves

(* A save is asked for. *)
LEMMA SavesKeep ==
  ASSUME DesktopInvariant, Saves
  PROVE  DesktopInvariant' /\ Forward
<1>1. SupervisorInv /\ SettingsInv /\ SentryInv /\ DingTalkInv /\ ViewInv /\ FormInv
      /\ scenario \in Scenarios
  BY DEF DesktopInvariant
<1>2. UNCHANGED <<viewVars, sentryVars, dingtalkVars, formVars, scenario>> /\ scenario \notin FormScenarios
  BY DEF Saves, FormScenarios
<1>3. PICK patch \in SecretPatches, enabled \in BOOLEAN, config \in Configs, expected \in Nat :
          Save(patch, enabled, config, expected)
  BY <1>1, SaveStarts
<1>4. Quiet /\ UNCHANGED source
  BY <1>3 DEF Save, Quiet
<1>5. SettingsInv'
  BY <1>1, <1>3, SaveKeeps
<1>6. SentryInv' /\ DingTalkInv'
  BY <1>1, <1>2, <1>4, SentryRests, StreamRests DEF SentryInv, DingTalkInv
<1>7. FormInv'
  BY <1>1, <1>2, FormRests
<1> QED
  BY <1>1, <1>2, <1>4, <1>5, <1>6, <1>7, QuietKeeps, ViewRests DEF DesktopInvariant

(* The form and its submissions. *)
LEMMA FormKeeps ==
  ASSUME DesktopInvariant, Form
  PROVE  DesktopInvariant' /\ Forward
<1>1. SupervisorInv /\ SettingsInv /\ SentryInv /\ DingTalkInv /\ ViewInv /\ FormInv
      /\ scenario \in Scenarios
  BY DEF DesktopInvariant
<1>2. UNCHANGED <<viewVars, sentryVars, dingtalkVars, scenario>> /\ scenario \in FormScenarios
  BY DEF Form
<1>3. CASE ServeForm
  <2>1. CASE UNCHANGED <<supervisor, faults, settingsVars>>
    <3>1. Quiet /\ UNCHANGED settingsVars
      BY <2>1 DEF Quiet
    <3>2. SupervisorInv' /\ Serving' = Serving
      BY <1>1, <3>1, QuietKeeps
    <3>3. SettingsInv' /\ SentryInv' /\ DingTalkInv'
      BY <1>1, <1>2, <3>1, <3>2, SourceRests
    <3> QED
      BY <1>1, <1>2, <1>3, <3>2, <3>3, FormServed, ViewRests DEF DesktopInvariant
  <2>2. CASE /\ Save(Patch(NextSave), NextSave.form.enabled, NextSave.form.config, NextSave.expected)
             /\ submissions # <<>>
    <3>1. NextSave \in Submissions
      BY <1>1, <2>2, FormNumbers DEF FormInv
    <3>2. NextSave.form.draft \in SUBSET Keys /\ NextSave.form.enabled \in BOOLEAN
          /\ NextSave.form.config \in Configs /\ NextSave.expected \in Nat
      BY <3>1 DEF Submissions, Forms
    <3>3. Patch(NextSave) \in [NextSave.form.draft -> 0 .. 2]
      BY DEF Patch
    <3>4. Patch(NextSave) \in SecretPatches
      BY <3>2, <3>3 DEF SecretPatches
    <3>5. SettingsInv'
      BY <1>1, <2>2, <3>2, <3>4, SaveKeeps
    <3>6. Quiet /\ UNCHANGED source
      BY <2>2 DEF Save, Quiet
    <3>7. SentryInv' /\ DingTalkInv'
      BY <1>1, <1>2, <3>6, SentryRests, StreamRests DEF SentryInv, DingTalkInv
    <3> QED
      BY <1>1, <1>2, <1>3, <3>5, <3>6, <3>7, QuietKeeps, FormServed, ViewRests DEF DesktopInvariant
  <2> QED
    BY <1>3, <2>1, <2>2 DEF ServeForm
<1>4. CASE ~ServeForm
  <2>1. Quiet /\ UNCHANGED settingsVars /\ FormInv'
    <3>1. CASE OpenEditor \/ CancelEditor \/ InspectProject
      <4>1. UNCHANGED settingsVars
        BY <3>1 DEF OpenEditor, CancelEditor, InspectProject, Inspected
      <4>2. Quiet
        BY <3>1 DEF OpenEditor, CancelEditor, InspectProject, Inspected, Fault, Quiet
      <4> QED
        BY <1>1, <1>2, <3>1, <4>1, <4>2, EditorKeeps
    <3>2. CASE EditIntegration \/ EditWorkspace \/ SelectDirectory \/ TypeSecrets
      BY <1>1, <1>2, <3>2, FormEdited DEF Quiet
    <3>3. CASE SubmitForm
      BY <1>1, <1>2, <3>3, FormSubmitted DEF SubmitForm, Quiet
    <3>4. CASE AnswerForm
      <4>1. Quiet /\ UNCHANGED settingsVars
        BY <3>4 DEF AnswerForm, Fault, Quiet
      <4> QED
        BY <1>1, <1>2, <3>4, <4>1, FormAnswered
    <3>5. ASSUME NEW j \in DOMAIN submissions, FormTimesOut(j)
          PROVE  Quiet /\ UNCHANGED settingsVars /\ FormInv'
      <4>1. Quiet /\ UNCHANGED settingsVars
        BY <3>5 DEF FormTimesOut, Fault, Quiet
      <4> QED
        BY <1>1, <1>2, <3>5, <4>1, FormGivesUp
    <3> QED
      BY <1>4, <3>1, <3>2, <3>3, <3>4, <3>5 DEF Form
  <2>2. SupervisorInv' /\ Serving' = Serving
    BY <1>1, <2>1, QuietKeeps
  <2>3. SettingsInv' /\ SentryInv' /\ DingTalkInv'
    BY <1>1, <1>2, <2>1, <2>2, SourceRests
  <2> QED
    BY <1>1, <1>2, <2>1, <2>2, <2>3, ViewRests DEF DesktopInvariant
<1> QED
  BY <1>3, <1>4

(* The Sentry source, and Sentry's events. *)
LEMMA PollerKeeps ==
  ASSUME DesktopInvariant,
         Sentry \/ (/\ scenario = "sentry" /\ \E g \in Groups : NewEvent(g) \/ Purge(g)
                    /\ UNCHANGED <<viewVars, dingtalkVars, formVars, scenario>>)
  PROVE  DesktopInvariant' /\ Forward
<1>1. SupervisorInv /\ SettingsInv /\ SentryInv /\ DingTalkInv /\ ViewInv /\ FormInv
      /\ scenario \in Scenarios
  BY DEF DesktopInvariant
<1>2. UNCHANGED <<viewVars, dingtalkVars, formVars, scenario>> /\ scenario = "sentry"
  BY DEF Sentry
<1>3. Quiet /\ UNCHANGED settingsVars
  <2>1. CASE \E g \in Groups : NewEvent(g) \/ Purge(g)
    BY <2>1 DEF NewEvent, Purge, Fault, Quiet
  <2>2. CASE EndPoll \/ PollIssue \/ SaveWatermark
    BY <2>2 DEF EndPoll, PollIssue, SaveWatermark, Quiet
  <2>3. CASE CollectEvents
    BY <2>3 DEF CollectEvents, Fault, Quiet
  <2>4. CASE Deliver
    BY <2>4 DEF Deliver, Fault, Quiet
  <2>5. CASE ListIssues
    <3>1. UNCHANGED <<supervisor, faults, settingsVars>>
      BY <2>5 DEF ListIssues
    <3> QED
      BY <3>1 DEF Quiet
  <2> QED
    BY <2>1, <2>2, <2>3, <2>4, <2>5 DEF Sentry
<1>4. SentryInv'
  BY <1>1, <1>2, EventComes, EventPurged, SentryEnds, CollectKeeps, DeliverKeeps, WatermarkKeeps DEF Sentry
<1>5. SupervisorInv' /\ Serving' = Serving
  BY <1>1, <1>3, QuietKeeps
<1>6. SettingsInv'
  BY <1>1, <1>3, <1>5, SettingsRest
<1>7. DingTalkInv'
  BY <1>1, <1>2, <1>3, SettingsSame, StreamRests DEF DingTalkInv
<1>8. FormInv'
  BY <1>1, <1>2, <1>3, SettingsSame, FormRests
<1> QED
  BY <1>1, <1>2, <1>4, <1>5, <1>6, <1>7, <1>8, ViewRests DEF DesktopInvariant

(* The DingTalk source, and its messages. *)
LEMMA StreamKeeps ==
  ASSUME DesktopInvariant,
         \/ Stream \/ \E m \in Messages : Delivers(m)
         \/ /\ scenario = "dingtalk" /\ \E m \in Messages : SendMessage(m)
            /\ UNCHANGED <<viewVars, sentryVars, formVars, scenario>>
  PROVE  DesktopInvariant' /\ Forward
<1>1. SupervisorInv /\ SettingsInv /\ SentryInv /\ DingTalkInv /\ ViewInv /\ FormInv
      /\ scenario \in Scenarios
  BY DEF DesktopInvariant
<1>2. UNCHANGED <<viewVars, sentryVars, formVars, scenario>> /\ scenario = "dingtalk"
  BY DEF Stream, Delivers
<1>3. Quiet /\ UNCHANGED settingsVars /\ DingTalkInv'
  <2>1. ASSUME NEW m \in Messages, SendMessage(m)
        PROVE  Quiet /\ UNCHANGED settingsVars /\ DingTalkInv'
    BY <1>1, <1>2, <2>1, MessageSent DEF SendMessage, Quiet
  <2>2. ASSUME NEW m \in Messages, Receives(m) PROVE Quiet /\ UNCHANGED settingsVars /\ DingTalkInv'
    BY <1>1, <1>2, <2>2, Received DEF Receives, Quiet
  <2>3. CASE OpenStream
    BY <1>1, <1>2, <2>3, StreamOpens DEF OpenStream, Quiet
  <2>4. CASE CloseStream
    BY <1>1, <1>2, <2>4, StreamCloses DEF CloseStream, Quiet
  <2>5. ASSUME NEW c \in Calls, OnInput(c) PROVE Quiet /\ UNCHANGED settingsVars /\ DingTalkInv'
    BY <1>1, <1>2, <2>5, InputTaken DEF OnInput, Fault, Quiet
  <2>6. ASSUME NEW c \in Calls, Acknowledge(c) PROVE Quiet /\ UNCHANGED settingsVars /\ DingTalkInv'
    BY <1>1, <1>2, <2>6, InputAcknowledged DEF Acknowledge, Quiet
  <2> QED
    BY <2>1, <2>2, <2>3, <2>4, <2>5, <2>6 DEF Stream, Delivers
<1>4. SupervisorInv' /\ Serving' = Serving
  BY <1>1, <1>3, QuietKeeps
<1>5. SettingsInv'
  BY <1>1, <1>3, <1>4, SettingsRest
<1>6. SentryInv'
  BY <1>1, <1>2, <1>3, SettingsSame, SentryRests DEF SentryInv
<1>7. FormInv'
  BY <1>1, <1>2, <1>3, SettingsSame, FormRests
<1> QED
  BY <1>1, <1>2, <1>3, <1>4, <1>5, <1>6, <1>7, ViewRests DEF DesktopInvariant

(* Every step keeps the invariant, and no row goes back. *)
LEMMA StepKeeps ==
  ASSUME DesktopInvariant, Next
  PROVE  DesktopInvariant' /\ Forward
<1>1. CASE (Process \/ Quits) /\ UNCHANGED scenario
  BY <1>1, ProcessKeeps, QuittingKeeps
<1>2. CASE Window \/ User
  BY <1>2, WindowKeeps
<1>3. CASE Form \/ Saves \/ Settings
  BY <1>3, FormKeeps, SavesKeep, SettingsKeep
<1>4. CASE Sentry \/ Stream \/ Outside \/ \E m \in Messages : Delivers(m)
  BY <1>4, PollerKeeps, StreamKeeps DEF Outside
<1> QED
  BY <1>1, <1>2, <1>3, <1>4 DEF Next

(* So does a step that changes nothing. *)
LEMMA RestKeeps ==
  ASSUME DesktopInvariant, UNCHANGED vars
  PROVE  DesktopInvariant' /\ Forward
<1>1. SupervisorInv /\ SettingsInv /\ SentryInv /\ DingTalkInv /\ ViewInv /\ FormInv
      /\ scenario \in Scenarios
  BY DEF DesktopInvariant
<1>2. Quiet /\ UNCHANGED <<viewVars, settingsVars, sentryVars, dingtalkVars, formVars, scenario>>
  BY DEF vars, Quiet
<1>3. SupervisorInv' /\ Serving' = Serving
  BY <1>1, <1>2, QuietKeeps
<1>4. SettingsInv' /\ SentryInv' /\ DingTalkInv'
  BY <1>1, <1>2, <1>3, SourceRests
<1>5. FormInv'
  BY <1>1, <1>2, SettingsSame, FormRests
<1> QED
  BY <1>1, <1>2, <1>3, <1>4, <1>5, ViewRests DEF DesktopInvariant

(* The invariant holds at first. *)
LEMMA InitKeeps ==
  ASSUME Init
  PROVE  DesktopInvariant
<1>1. scenario \in Scenarios /\ InitSettings /\ InitSentry /\ InitDingTalk /\ InitForm
      /\ (\E existing : InitView(existing))
  BY DEF Init
<1>2. SupervisorInv
  <2>1. PICK spent \in {MaxFaults, MaxFaults - 1, 0} : InitProcess(spent)
    BY DEF Init, Spent
  <2>2. spent \in Nat
    BY ProcessAssumption
  <2> QED
    BY <2>1, <2>2, InitSupervisor
<1>3. ViewInv
  BY <1>1, InitViewHolds
<1> QED
  BY <1>1, <1>2, <1>3, InitSettingsHold, InitSentryHolds, InitStream, InitFormHolds
       DEF DesktopInvariant

(* The invariant holds throughout (utility-supervisor.ts, service.ts, sentry/src/poller.ts,
   dingtalk/src/source.ts, use-issue-list-updates.ts, project-form.tsx). *)
THEOREM DesktopInvariance == Spec => []DesktopInvariant
<1>1. Init => DesktopInvariant
  BY InitKeeps
<1>2. DesktopInvariant /\ [Next]_vars => DesktopInvariant'
  BY StepKeeps, RestKeeps
<1> QED
  BY <1>1, <1>2, PTL DEF Spec

(* The types of the state, and how it hangs together: one process at most serves, a source
   runs only under it, and an Issue that is not shown has no subscription. *)
THEOREM DesktopTypeCorrect == Spec => []TypeOK
<1>1. DesktopInvariant => TypeOK
  <2> SUFFICES ASSUME DesktopInvariant PROVE TypeOK
    OBVIOUS
  <2>1. SupervisorInv /\ SettingsInv /\ SentryInv /\ DingTalkInv /\ ViewInv
    BY DEF DesktopInvariant
  <2>2. Cardinality({p \in Processes : process[p] \in {"starting", "serving"}}) <= 1
    BY <2>1, OneProcess
  <2>3. keychain \in Secrets /\ source \in Sources /\ mutation \in Mutations
        /\ (source.state # "none" => Serving /\ source.revision \in 1 .. project.revision)
    BY <2>1 DEF SettingsInv, SettingsTypes
  <2>4. source.secrets \in Secrets /\ mutation.pc \in {"idle", "writing", "undoing", "refreshing"}
    BY <2>3 DEF Sources, Mutations
  <2>5. /\ revision \in [Issues -> 0 .. MaxRevision] /\ rows \in [Issues -> 0 .. MaxRevision]
        /\ \A i \in Issues : rows[i] <= revision[i]
        /\ loaded \in {"no", "asked", "answered", "shown", "failed"}
        /\ link \in [Issues -> Links]
        /\ \A i \in Issues : link[i] = "none" => i \notin unread \cup woken
    BY <2>1 DEF ViewInv, ViewTypes, Shows
  <2>6. /\ cursor \in Groups /\ watermark \in [Groups -> 0 .. MaxEvents]
        /\ (poll.pc # "waiting" => source.state = "running")
        /\ (stream = "open" => source.state = "running")
    BY <2>1 DEF SentryInv, DingTalkInv
  <2> QED
    BY <2>1, <2>2, <2>3, <2>4, <2>5, <2>6 DEF SupervisorInv, TypeOK
<1> QED
  BY <1>1, DesktopInvariance, PTL

(* No input is lost: from an Issue's first watermark on every event of Sentry's is in the
   intake, and a message is acknowledged only when the intake has it or never will. *)
THEOREM InputsKept == Spec => []NothingLost
<1>1. DesktopInvariant => NothingLost
  BY DEF DesktopInvariant, SentryInv, DingTalkInv, NothingLost
<1> QED
  BY <1>1, DesktopInvariance, PTL

(* Settings and secrets change together, and the source that runs is that of the saved
   revision, unless a save was cut off or could not be undone. *)
THEOREM SettingsStayAtomic == Spec => []SettingsAtomic
<1>1. DesktopInvariant => SettingsAtomic
  BY SettingsAreAtomic DEF DesktopInvariant
<1> QED
  BY <1>1, DesktopInvariance, PTL

(* A form that says that all changes are saved shows the settings that are saved, and a save
   only ever replaces the settings its form has shown. *)
THEOREM FormStaysTruthful == Spec => []FormTruthful
<1>1. DesktopInvariant => FormTruthful
  BY FormIsTruthful DEF DesktopInvariant
<1> QED
  BY <1>1, DesktopInvariance, PTL

(* A row, and the detail of one Issue, never shows an older revision than it has shown. *)
THEOREM RowsGoForward == Spec => RowsNeverGoBack
<1>1. DesktopInvariant /\ [Next]_vars =>
        [/\ \A i \in Issues : rows'[i] >= rows[i]
         /\ detail'.issue = detail.issue => detail'.revision >= detail.revision]_vars
  BY StepKeeps DEF Forward
<1> QED
  BY <1>1, DesktopInvariance, PTL DEF Spec, RowsNeverGoBack
=============================================================================
