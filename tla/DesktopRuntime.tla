--------------------------- MODULE DesktopRuntime ---------------------------
(***************************************************************************)
(* The application around the Runtime: the utility process and its         *)
(* supervisor, with what depends on the process.  A behaviour follows one  *)
(* of them: the window's Issues, the settings of a project, the form they  *)
(* are edited in, or one of its two sources while the settings change.     *)
(***************************************************************************)
EXTENDS IssueView, SentryPoller, DingTalkStream, ProjectForm

CONSTANT Scenarios

(* The form as a whole, and with edits of one part of it only. *)
FormScenarios == {"form", "integration", "workspace"}

ASSUME DesktopAssumption == Scenarios \subseteq {"window", "settings", "sentry", "dingtalk"} \cup FormScenarios

VARIABLE scenario       \* what the behaviour follows

vars == <<supervisor, faults, viewVars, settingsVars, sentryVars, dingtalkVars, formVars, scenario>>

(* A save that fills in every secret, one that leaves them as they are, or *)
(* any change of some of them. *)
Patches ==
  CASE scenario = "settings" -> (UNION {[fields -> {0, 2}] : fields \in SUBSET Keys}) \cup {[k \in Keys |-> 1]}
    [] project.revision = 0 -> {[k \in Keys |-> 1]}
    [] OTHER -> {<<>>}

SourceEnded ==
  CASE scenario = "sentry" -> PollerEnded [] scenario = "dingtalk" -> StreamEnded [] OTHER -> TRUE

(* Bound: fewer faults in the scenarios with the most states, and starts  *)
(* that fail and quitting only in the others.                              *)
Spent ==
  CASE scenario = "workspace" -> MaxFaults
    [] scenario \in {"window", "sentry", "form", "integration"} -> MaxFaults - 1
    [] OTHER -> 0

Init ==
  /\ scenario \in Scenarios
  /\ InitProcess(Spent)
  /\ InitSettings /\ InitSentry /\ (scenario = "sentry" \/ page = [g \in Groups |-> g]) /\ InitDingTalk /\ InitForm
  /\ \E existing \in {Issues, Issues \ Later} : (scenario = "window" \/ existing = Issues) /\ InitView(existing)

LosesRuntime ==
  ViewLosesRuntime /\ SettingsLoseRuntime /\ PollerLosesRuntime /\ StreamLosesRuntime /\ FormLosesRuntime

-----------------------------------------------------------------------------
Process ==
  \E p \in Processes :
     \/ Started(p) /\ StartsSources /\ UNCHANGED <<viewVars, sentryVars, dingtalkVars, formVars>>
     \/ /\ scenario \in {"settings", "dingtalk"} /\ (StartFails(p) \/ StartupTimeout(p))
        /\ UNCHANGED <<viewVars, settingsVars, sentryVars, dingtalkVars, formVars>>
     \/ Exits(p) /\ LosesRuntime

Quits ==
  \/ scenario \in {"settings", "dingtalk"} /\ Quit /\ UNCHANGED <<viewVars, settingsVars, sentryVars, dingtalkVars, formVars>>
  \/ Killed /\ LosesRuntime

Window ==
  /\ scenario = "window"
  /\ \/ AskList \/ ServeList \/ Load
     \/ \E i \in Issues : Poll(i) \/ Refresh(i)
     \/ \E q \in requests : ServeRead(q) \/ ServeCommand(q)
     \/ \E a \in answers : Receive(a)
  /\ UNCHANGED <<settingsVars, sentryVars, dingtalkVars, formVars, scenario>>

(* Bound: commands are about the Issues that are always there. *)
User ==
  /\ scenario = "window"
  /\ \/ Deselect \/ GoTo
     \/ \E i \in Issues : Select(i) \/ (i \notin Later /\ Ask(i)) \/ Submit(i) \/ Changes(i)
     \/ \E q \in requests : TimeOut(q)
  /\ UNCHANGED <<settingsVars, sentryVars, dingtalkVars, formVars, scenario>>

Settings ==
  /\ scenario # "window"
  /\ \/ WriteSecret \/ Persist \/ UndoSecret \/ Undone
     \/ AbortSource \/ RefreshProject(SourceEnded)
  /\ UNCHANGED <<viewVars, sentryVars, dingtalkVars, formVars, scenario>>

Saves ==
  /\ scenario = "settings" \/ (scenario \in {"sentry", "dingtalk"} /\ saves < 2)
  /\ \/ SaveProjectSettings(Patches) \/ SetIntegrationSecrets(Patches)
     \/ scenario = "settings" /\ (CreateProject \/ UpdateProject)
  /\ UNCHANGED <<viewVars, sentryVars, dingtalkVars, formVars, scenario>>

(* Bound: fewer saves than in "settings"; where no workspace is chosen, it *)
(* does not matter what of one an inspection finds.                        *)
Form ==
  /\ scenario \in FormScenarios
  /\ \/ OpenEditor \/ CancelEditor \/ InspectProject
     \/ scenario # "workspace" /\ (EditIntegration \/ TypeSecrets)
     \/ scenario # "integration" /\ (EditWorkspace \/ SelectDirectory)
     \/ (saves + Len(submissions) < 2 /\ SubmitForm) \/ ServeForm \/ AnswerForm \/ \E j \in DOMAIN submissions : FormTimesOut(j)
  /\ scenario = "integration" => inspection'.found = "nothing"
  /\ UNCHANGED <<viewVars, sentryVars, dingtalkVars, scenario>>

Sentry ==
  /\ scenario = "sentry"
  /\ ListIssues \/ EndPoll \/ PollIssue \/ CollectEvents \/ Deliver \/ SaveWatermark
  /\ UNCHANGED <<viewVars, dingtalkVars, formVars, scenario>>

Stream ==
  /\ scenario = "dingtalk"
  /\ OpenStream \/ CloseStream \/ \E c \in Calls : OnInput(c) \/ Acknowledge(c)
  /\ UNCHANGED <<viewVars, sentryVars, formVars, scenario>>

Delivers(m) == scenario = "dingtalk" /\ Receives(m) /\ UNCHANGED <<viewVars, sentryVars, formVars, scenario>>

Outside ==
  \/ /\ scenario = "sentry" /\ \E g \in Groups : NewEvent(g) \/ Purge(g)
     /\ UNCHANGED <<viewVars, dingtalkVars, formVars, scenario>>
  \/ /\ scenario = "dingtalk" /\ \E m \in Messages : SendMessage(m)
     /\ UNCHANGED <<viewVars, sentryVars, formVars, scenario>>

Next ==
  \/ (Process \/ Quits) /\ UNCHANGED scenario
  \/ Window \/ User \/ Form \/ Saves \/ Settings \/ Sentry \/ Stream \/ Outside \/ \E m \in Messages : Delivers(m)

(* The processes and their event loops go on, and DingTalk sends again;    *)
(* nothing has to go wrong, and nobody has to do anything.  A behaviour     *)
(* has one scenario, whose event loop it is that goes on.                  *)
Fairness ==
  /\ WF_vars((\E p \in Processes : Started(p)) /\ Process /\ UNCHANGED scenario)
  /\ WF_vars(Window \/ Sentry \/ Stream) /\ WF_vars(Settings)
  /\ \A m \in Messages : WF_vars(Delivers(m))

Spec == Init /\ [][Next]_vars /\ Fairness

-----------------------------------------------------------------------------
(* The types of the state, and how it hangs together: a client is only     *)
(* given out for the child that runs; a source runs only under a process,  *)
(* with a project that is saved; an Issue that is not shown has neither    *)
(* subscription nor refresh; a cursor never leaves Sentry's pages.         *)
TypeOK ==
  /\ process \in [Processes -> {"none", "starting", "serving", "broken", "gone"}]
  /\ child \in Processes \cup {none} /\ launching \in {none, child}
  /\ shown \in {"starting", "ready", "restarting", "disconnected", "stopping", "stopped"}
  /\ Connected => Serving
  /\ Cardinality({p \in Processes : process[p] \in {"starting", "serving"}}) <= 1
  /\ revision \in [Issues -> 0 .. MaxRevision] /\ rows \in [Issues -> 0 .. MaxRevision]
  /\ \A i \in Issues : rows[i] <= revision[i]
  /\ loaded \in {"no", "asked", "answered", "shown", "failed"}
  /\ link \in [Issues -> Links]
  /\ \A i \in Issues : link[i] = "none" => i \notin unread \cup woken
  /\ keychain \in Secrets /\ source.secrets \in Secrets
  /\ source.state # "none" => Serving /\ source.revision \in 1 .. project.revision
  /\ mutation.pc \in {"idle", "writing", "undoing", "refreshing"}
  /\ cursor \in Groups /\ watermark \in [Groups -> 0 .. MaxEvents]
  /\ poll.pc # "waiting" => source.state = "running"
  /\ stream = "open" => source.state = "running"

(* No input is lost.  From an Issue's first watermark on, no event of      *)
(* Sentry's is passed over: what lies below the watermark is in the        *)
(* intake, whatever failed, arrived or exited while a poll was under way.  *)
(* And DingTalk is told that a message has arrived only when the intake    *)
(* has it or never will: what was not acknowledged is sent again.          *)
NothingSkipped ==
  \A g \in Groups : \A k \in first[g] .. watermark[g] : k = 0 \/ <<g, k>> \in accepted

AcknowledgedIsKept == acknowledged \subseteq taken \cup Refused

NothingLost == NothingSkipped /\ AcknowledgedIsKept

(* Settings and secrets change together.  When no save is under way the    *)
(* keychain holds what the saved revision was saved with, unless a save    *)
(* was cut off or could not be undone; and the source that runs is that of *)
(* the saved revision, with the secrets the keychain holds.                *)
SettingsAtomic ==
  /\ mutation.pc \in {"idle", "refreshing"} /\ ~torn => keychain = meant
  /\ mutation.pc = "idle" /\ source.state = "running" /\ ~torn =>
       source = RunsWith(project, keychain) \/ source.aborted

(* A form that says that all changes are saved shows the settings that are *)
(* saved - of the workspace's configuration, what the inspection the form  *)
(* has makes of it - unless a save's answer never reached the window or    *)
(* came when another form was mounted; and a save only ever replaces the   *)
(* settings its form has shown.                                            *)
FormTruthful ==
  /\ editor.open /\ form.saved /\ ~form.missed /\ ~unheard =>
       /\ form.row = project /\ form.enabled = project.enabled /\ form.draft = {}
       /\ form.config = Merge(project.config, form.found)
  /\ \A s \in Range(submissions) : Made(s) => s.form.row = s.from

(* A row, and the detail of one Issue, never shows an older revision than  *)
(* it has shown, however late an answer arrives.                           *)
RowsNeverGoBack ==
  [][/\ \A i \in Issues : rows'[i] >= rows[i]
     /\ detail'.issue = detail.issue => detail'.revision >= detail.revision]_vars

(* A row that is behind catches up, with the detail when it is selected,   *)
(* unless the user has left the Issues, or its subscription or its last    *)
(* refresh has failed.                                                     *)
Behind(i) ==
  /\ mounted /\ rows[i] # 0 /\ link[i] # "lost" /\ i \notin missed
  /\ \/ rows[i] < revision[i]
     \/ selected = i /\ detail # [issue |-> i, revision |-> revision[i]]

RowsCatchUp == []<>(\A i \in Issues : ~Behind(i))

(* While a source runs, every Issue of Sentry's is taken up, and every     *)
(* event from then on and every message reaches the intake, whatever       *)
(* request, intake or process has failed before.  Excepted are an Issue no *)
(* poll can follow any more - its watermark is no longer in the pages that *)
(* are read, or an event above it is refused - and the Issues of other     *)
(* pages: the cursor stays on its page.  Those of its own page are served. *)
Lost(g) ==
  LET w == watermark[g] IN
  IF w = 0 THEN oldest[g] <= events[g] /\ <<g, events[g]>> \in refused
  ELSE w < oldest[g] \/ events[g] - w >= MaxPages \/ \E k \in w + 1 .. events[g] : <<g, k>> \in refused

Reached(g) == \A h \in Groups : Lost(h) => h # g /\ page[h] = page[g]

Undelivered ==
  \/ scenario = "sentry" /\ \E g \in Groups : Reached(g) /\
        IF first[g] = 0 THEN oldest[g] <= events[g]
        ELSE \E k \in first[g] .. events[g] : <<g, k>> \notin accepted
  \/ sent \ (Refused \cup taken) # {}

EventsDelivered ==
  []<>(source.state = "running" /\ ~source.aborted => ~Undelivered)
=============================================================================
