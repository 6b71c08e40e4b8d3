# Oh My Bug ?! — verification of the Runtime and its Desktop

TLA+ models of Oh My Bug (this repository), TLC configurations that check them
on small instances, and proofs, checked by TLAPS, of theorems that hold for
every value of the constants.

The Runtime drives *Issues*: an integration's input becomes an Issue, a
workspace is prepared, a coding Agent assesses it, a human decides, the Agent
repairs it, visual evidence is captured and checked, a human reviews the
delivery, and the Runtime publishes it. A Desktop application starts the Runtime
in a utility process and shows all of this in a window. The project asks of the
system what is hard to test: what happens when a human pauses or cancels, an
input arrives, a process dies, the app-server answers late, a developer commits
or a window is left *at any await of any stage*.

## 1. Inventory

Inside a process, "concurrency" is the interleaving of asynchronous functions at
their awaits; there are three processes of the product's own (Electron's main
process with its windows, the utility process with the Runtime, the Codex
app-server) and those it starts (Git, a captured application, a browser).
Durable state is one SQLite file, whose transactions are synchronous, a keychain,
Git repositories and a directory of evidence.

| Component (source) | State it keeps | Operations | What makes it correct |
|---|---|---|---|
| Issue aggregate (`packages/core/src/issue`, `orchestration/reviews.ts`) | the Issue's status, iteration, draft, delivery, review, pause, failure, revision | transitions, result recorders, review choices | only legal moves; every write counts in `revision`; nothing of an older iteration passes for the current one |
| RuntimeWorker (`orchestration/worker.ts`) | none of its own: an operation's snapshot, between awaits | assess, repair, captureEvidence, inspectEvidence, recoverFinalization | results are stored only when the Issue is still the one they were computed from; automatic retries end |
| its pump (same file) | `running`, `wakeRequested`, `accepting`, the map of active operations, `failedInPump` | kick, drain, beginShutdown | slots are used; one failing Issue does not hold others up; drain ends, at quiescence |
| IssueOperationCoordinator | the active operation of each Issue and its signal | run, interrupt | one operation per Issue |
| RuntimeCommands (`orchestration/commands.ts`) | `pausing` | submitReview, approveDelivery, retryIssue, rebuildAgentSession, grantIssueCapabilities, pauseIssue, resumeIssue, cancelIssue, acceptIntegrationInput | a human's decision is never overwritten; a pause becomes resumable, and only when nothing runs |
| WorkspaceCoordinator | workspace bindings | prepare, finalize, validateFinalizationRecovery, recover | only an accepted delivery is published, once it is current |
| Startup reconciliation (`recovery.ts`), OhMyBugRuntime (`runtime.ts`) | phase of the Runtime | start, stop | what a crash or a stop interrupts goes on after the next start |
| SQLite stores (`packages/storage/src/sqlite`) | rows with `revision`, `pending_operation`; bindings; sessions; checkpoints; input keys | transactions | optimistic concurrency; uniqueness |
| Evidence store, media inspector (`packages/storage/src/evidence`) | content-addressed files with descriptors; intake and probe directories | prepareIntake, import, inspect, removeIntake | nothing half-written is shown as evidence, nothing shown disappears |
| Host capture (`evidence/playwright-capture-provider.ts`) | processes, a browser, helpers | capture, abort | a capture leaves no process behind |
| Codex adapter (`packages/agent-codex/src`) | active turns with their abort controllers, provider threads, command streams | createSession, stage turns with one correction, cancel; activity; permissions of a stage | an aborted turn ends; a result belongs to its turn; the Agent may do what it is told |
| App-server client, RPC client, supervisor, host (`app-server/`) | pending requests, subscriptions, child process, generation | startTurn, interrupt, start, stop, restart | every request settles once; a restart replaces the client |
| Git provider (`packages/workspace-git`) | worktree, branch, base, recovery sessions | acquire, observe/validateRepair, publish, release, recoveries | the base is only fast-forwarded over what was integrated; publication can be repeated |
| Integrations (`integrations/manager.ts`, Sentry, DingTalk, intake) | sources, cursors, watermarks, input keys | poll, stream, acknowledge, accept | every input accepted, none acknowledged before |
| Service (`service.ts`), secret store | projects with revisions, secrets | save settings, set secrets | both change or neither does |
| Protocol and Electron supervisor (`protocol/`, `utility-supervisor.ts`) | requests, subscriptions, child process | request, cancel, subscribe, restart | every request answered once; events in order |
| Desktop user interface (`desktop/src/web`, `tray-task-model.ts`) | the list, the selected Issue, the project form | refresh, commands, save | rows never go back; what is offered is accepted; what is shown as saved is |

**How they interact.** A command or an input writes the Issue's row with a
`pending_operation` and *kicks* the worker. The pump lists pending operations
and runs each in the coordinator. An operation *claims* the row (clears
`pending_operation`, remembers the Issue), calls the Agent, the workspace
provider, the capture provider or the evidence store, and writes its result with
the next `pending_operation` in a transaction that first compares revisions.
`pauseIssue` writes `PAUSED`, aborts the operation's signal and the Agent's turn
and awaits both. `stop()` refuses commands, cancels the sessions' turns once and
drains; `start()` restores workspaces and queues again what was interrupted. The
Agent is a turn of the app-server, over a connection its supervisor and host
replace after an exit. The window polls events by subscription, refreshes what
they tell of, and sends commands that may time out and still be made.

The hard behaviours, with their lines, are the `hazards` of `PROJECT.json`; each
names the properties that would catch it going wrong.

## 2. Modules

Five systems of modules, each checked by runs of its own. They meet where one
calls another: what the callee may answer is nondeterministic in the caller, and
is what the callee's own module shows it to answer.

**The Issue** (`IssueRuntime`, one Issue; `IssueScheduler`, the pump)

| Module | Models | State and actions |
|---|---|---|
| `IssueWorkflow` | `issue/workflow.ts`, `results.ts`, `reviews.ts` | Operators on an Issue record: `Transitions` is the table of `workflow.ts`, each `Record…` operator one recorder, `ReviewChoices` and `SubmitReview` the reviews. |
| `RuntimeState` | the shared variables | `issue`, `pending`, `binding` (the durable row), `mode` (phase), `op` (active operation: where it awaits, its snapshot, whether its signal or its turn's is aborted), `pauser` (a `pauseIssue` call), `asleep` (the operation rejected, and the pump that remembers it is not fresh); `Complete` is `complete()`. |
| `RuntimeWorker` | `worker.ts` but the pump | One action per stretch between two awaits, named for what the await brought. |
| `WorkspaceCoordinator` | `workspace-coordinator.ts` | prepare, finalize, the judgement of a recovery, and `RecoverWorkspaces` at startup. |
| `RuntimeCommands` | `commands.ts` | One action per command, what it asks of the Issue named where the window offers it (`CanRetry`, …) and, of `rebuildAgentSession`, what the store asks of the new session's name (`SessionNameFree`); `pauseIssue` is `PauseIssue`, `PauseCanceled` / `PauseNotCanceled` and `PauseSettled`. |
| `RuntimeLifecycle` | `runtime.ts`, `recovery.ts` | `ReconcileInterrupted`, `Stop`, `CancelAgents`, `Stopped`, `Crash`. |
| `IssueRuntime` | the composition for one Issue | `Init`, `Next`, `Fairness`, `Spec`, `FairSpec` and the properties. |
| `IssueOffers` | `issue-actions.tsx`, `review-panel.tsx`, `tray-task-model.ts`, `protocol/operations.ts` | What the window offers for the stored row, where the tray lists it, and what the command each button ends in asks of the Issue (`Taken`). |
| `IssueScheduler` | the pump over several Issues | The race of `waitForProgress`, `wakeRequested`, `failedInPump`, drain and shutdown. |
| `MCIssueRuntime` | constants of `IssueRuntime` for TLC | |
| `IssueRuntimeProofs`, `IssueGateProofs`, `IssueQueueProofs`, `IssueSchedulerProofs` | lemmas and theorems (section 6) | |

Issues interact only through the pump (slots, `failedInPump`), so everything
about an Issue's *content* is checked for one Issue and everything about the
*pump* for several Issues without content. `asleep` is what one Issue sees of
`failedInPump`: it is set when its operation rejects and reset by any later kick.
That is generous to the pump, which does not hear such a kick before it ends;
`IssueScheduler` has the difference and `SchedulerLostKick` shows it.

**Its workspace** (`GitPublication`: several Issues of one repository)

| Module | Models | State and actions |
|---|---|---|
| `GitRepository` | what `provider.ts` and the recoveries work on | `refs`, `remote`, the developer's `checkout` and `local` changes, `tree` (worktrees), `saved` (the provider's persisted state), `stage` and `draft` (what the Runtime's row says), `run` (the call under way, lost with the process). A commit is the set of commits in its history, so "is an ancestor of" is "is a subset of". |
| `GitWorkspace` | acquire, observeRepair, validateRepair (`repair-integration.ts`), release | one action per stretch between two Git commands that others can come between |
| `GitLegacyPublication` | `merge-recovery.ts`, `finalization-recovery.ts`, the legacy publication with its seal and automatic merge; push and the saving of what was published | the same |
| `GitPublication` | publish, fastForwardIntegratedBase; developer, remote, crash | `Publish`, `ListCheckouts`, `FastForward`; `DeveloperCommits`, `DeveloperSwitches`, … |
| `DeliveredBase` | the abstract specification of publication | `base`, `accepted`, `published`: the base only gains commits of its developer or accepted deliveries, whole; an Issue is published once |
| `GitPublicationProofs` | lemmas and theorems | |

**Its Agent** (`CodexAgent`: turns over an app-server)

| Module | Models | State and actions |
|---|---|---|
| `CodexServer` | `supervisor.ts`, `runtime-host.ts` | launches, processes and connections by generation; `Spawn`, `Connect`, `SeeExit`, `HostStops`, … |
| `CodexTurns` | `codex-agent-adapter.ts`, `codex-client.ts`, `rpc-client.ts`, `private-temp.ts` | `turn` (where `turn()` is, what its queue holds), `starting` (notifications before their turn is known), `temp`; `StageTurn`, `OpenThread`, `Receive`, `Consume`, `Finish`, `Cancel`, … |
| `CodexAgent` | the app-server (external), the Runtime's stop, the composition | `AnswerThread`, `TakeTurn`, `AnswerTurn`, `CliTurn`, … |
| `CodexAgentProofs` | lemmas and theorems | |

**A stage as the user sees it** (`AgentStage`: a behaviour follows its evidence,
its activity or its permissions)

| Module | Models | State and actions |
|---|---|---|
| `MediaFiles` | `media-inspector.ts` | files as sequences of units with announced sizes; what is a finished file, and what the inspector takes for one |
| `EvidenceStore` | `evidence-store.ts`, `atomic-write.ts` | names and bytes that outlive the process or the machine; the import as write, sync, rename of bytes and descriptor |
| `EvidenceCapture` | `playwright-capture-provider.ts` | one capture, the processes it started, which fork and end when they like, the two listings and how it ends what they find |
| `EvidenceHost` | `captureEvidence` of the worker around them | `Begin`, …, and what an end of the process or of the machine leaves |
| `AgentActivity` | `publicActivities` of the adapter, `reportActivity`, `terminal-execution.ts`, `agent-activity.tsx` | `streams` and `updates` of a turn, the Issue's `log`, and the `Terminal` computed from it |
| `StagePermissions` | `stage-capabilities.ts`, `output-schemas.ts`, `prompts.ts`, the adapter's checks, grants | what a turn is told, what its sandbox allows, what the Agent asks for and a human grants |
| `AgentStageProofs` | lemmas and theorems | |

**The application around it** (`DesktopRuntime`: a behaviour follows the window,
a project's settings, their form, or one of two sources)

| Module | Models | State and actions |
|---|---|---|
| `UtilityProcess` | `utility-supervisor.ts`, `entry.ts` | start, deadline, exit, one restart, quit |
| `IssueView` | `app.tsx`, the hooks of `web/issues`, `protocol/server.ts`, `client.ts` | the list and the detail, subscriptions with their cursors, reads, commands, timeouts |
| `ProjectSettings` | `service.ts`, `integrations/manager.ts`, `secret-store.ts` | a mutation and its secrets one by one, undo, refresh of the source |
| `ProjectForm` | `project-form.tsx`, the editor of `app.tsx` | open, inspect, edit (a switch, the workspace, another directory), submit, answer, time-out; `Merge` is what an inspection makes of the workspace's settings, `Initial` the form a row and an inspection give |
| `SentryPoller` | `sentry-poller.ts` | pages, cursor, deliveries, watermark; the events Sentry still has, the limit of their pages, those the adapter refuses |
| `DingTalkStream` | `dingtalk-stream.ts` | connection, redelivery, handling, acknowledgement |
| `DesktopRuntime` | the composition | what each loses with the process |
| `DesktopRuntimeProofs` | lemmas and theorems | |

### Abstractions

**The Issue.** Texts, timestamps and identifiers are dropped. A draft and a
delivery are the number of the Repair iteration whose implementation they
describe (0: none). That is all the properties tell apart, and it makes "evidence
of an earlier iteration" visible. A draft built by the legacy migration takes its
summary from the delivery, so it counts as that of the delivery's iteration
although the code labels it with the current one. `pausedAt` is a revision;
`finalizationRecovery` is one of three values. Agent, provider, capture and
evidence store answer nondeterministically. An operation that ends between two
awaits without a database write or a call is merged into the step before.
Two things the code has and no row of this version can reach are left out: the
migration of failures with the code `RUNTIME_INTERRUPTED`, and
`beginFinalizationRecovery`, which nothing calls. Rows an earlier version left
with the latter are an initial state (`RecoveringRow`), as are rows from before
workspace bindings existed (`UnboundRow`). The window of `IssueOffers` shows the
stored row; one that shows an older row is the subject of `IssueView`.

**Git.** A worktree is absent, clean, dirty, in a merge, or a resolved one; paths,
hashes, index flags and submodules of the clean-worktree checks are that one
value. `prepareFinalizationRecovery` and `prepareGitMergeRecovery` have no caller:
the sessions they left are initial states of the legacy Issue. Base branches that
are deleted, `mergeToBaseBranch = false` and a `MERGE_ENVIRONMENT` recovery are
left out, and cancelling an Issue is `IssueRuntime`'s.

**Codex.** A message is its kind and the turn it is of. Framing and parsing are
left out; so is that a notification that does not parse ends the pump of
notifications. The app-server is what its protocol says: it answers in order,
works on one turn of a thread at a time, and may exit at any time.

**A stage.** A file is a header and content with announced sizes, cut anywhere; the
probe by MediaInfo is external; limits, paths and links are one refusal. A capture
has one helper and one child process, and the process tree of Windows
(`taskkill`) is left out. `writeFileAtomic` is a durable rename once its directory was
synced; that the directories above it are not synced (`atomic-write.ts:19`) is below
the model. Output is characters and line ends; all lines
of a delta are one update; redaction and the splitting of long updates are left
out, as is the log before the last event that ends an execution. In
`StagePermissions` an error is one of permission or another, a result is good or
one the parsers refuse, and unrestricted host execution includes the network.

**The application.** A read is served and applied in one step (the port is FIFO);
answers to commands are not, and may be late. Posted events and the timer that
merges them are one set (`woken`), cursors are "unread" or not. One event is one
page of Sentry's events; pages that repeat are a request that fails. Of the workspace's
settings the form has whether they are Git's, whether a remote is named and whether
work is pushed to it. That a connection
fails and is tried again is a stuttering step. All secrets are typed at once in the
form. The connection test, `health()` and the tray's navigation are left out.

## 3. Properties

Of one Issue (`IssueRuntime`, `IssueOffers`):

* `SnapshotCurrent` — the Issue with the revision an operation claimed is the
  Issue it claimed; this is what makes `complete()`'s comparison sound.
* `HumanHasTheWord` — a paused Issue moves only by `resumeIssue` of a ready
  pause or by `cancelIssue`, a terminal one never.
* `ReadyMeansQuiet` — a ready pause has no operation still running.
* `HumanGate` — what is published, and what completes, is the iteration a human
  accepted; the history variables `accepted` and `published` remember both.
* `EvidenceOfThisIteration` — what is captured, checked and shown is of the
  iteration implemented last.
* `PendingFits` — a queued operation finds the status and context it demands.
* `NotStranded` — whenever the Runtime has the next move, an operation runs or
  is queued where the pump will see it.
* `OffersAreHonoured` — whatever the window offers ends in a command that takes the
  Issue as it is, whenever a human has the next move a move is offered, and the tray
  lists the Issue accordingly; but for the cancellation of an automatic stage and the
  rebuild of a session whose name is taken (`Unrebuildable`), see section 5.
* `ReachesHuman`, `PauseCompletes`, `StopCompletes` — liveness.
  `PauseBecomesReady` is `PauseCompletes` without its exceptions, as the documents
  have it; two runs refute it.

Of the pump (`IssueScheduler`): `WorkConserving`, `DrainIsQuiescent`,
`UnrelatedServed`, `DrainEnds`, `KickIsHeard`.

Of the workspace (`GitPublication`):

* `Delivers` — the module implements `DeliveredBase`: the base branch never loses
  a commit and gains only its developer's or an accepted delivery, whole.
* `PublishedEverywhere` — what is recorded as published is in the base and at the
  remote, and only then is an Issue completed.
* `DecidesRightly` — a delivery is called stale only when it is, and nothing with
  conflict markers gets into a commit of the provider.
* `ReachesRest` — every provider call ends and every automatic stage comes to a
  human's move.

Of the Agent (`CodexAgent`): `ResultIsOwn` (a stage returns the message of its own,
completed turn), `NothingLeftBehind` (a turn at work is waited for or told to
stop, and a stopped supervisor leaves no process), `TempWhileRunning` (a running
turn has its private directory), `TurnsEnd`.

Of a stage (`AgentStage`): `EvidenceKept` (what an import has returned stays
readable, of its iteration, whatever ends when, and nothing unfinished is stored),
`CaptureLeavesNothing` (no process and no directory outlives a capture or an
operation but what is excused by name: what was not listed, could not be ended, or
had lost the browser it is found by), `TerminalFaithful` (the Terminal shows the
commands, states and lines of the turn under way and no other's), `PermittedOnly`
(the Agent may do what it is told, no more than was granted, and asks once).

Of the application (`DesktopRuntime`): `NothingLost` (no event is passed over by a
watermark, no message acknowledged before it was taken in) and `EventsDelivered` (a
source that stays up takes in everything, but for a Sentry Issue every poll of which
fails, `Lost`, and those on other pages of the list), `SettingsAtomic` (secrets, settings and the running source belong
together), `FormTruthful` (a form that says "saved" shows the stored settings, those of
the workspace as the inspection it was given completes them), `RowsNeverGoBack` and
`RowsCatchUp`.

Each module tree has one type invariant, which also says how its parts of the
state hang together; every property has a mutant of the code that breaks it.

## 4. Runs

| Run | Shows | Bounds |
|---|---|---|
| `IssueSafety` | all safety properties of a new Issue and of legacy rows, with crashes, stops and failing cancellations | one Issue, `MaxRevision` 15; sessions named after the Issue; 1.3 million states |
| `IssueFaults` | `HumanGate` and `PauseCompletes` under every fault at once, host capture configured | `MaxRevision` 11; sessions with names of their own, which can be rebuilt; 0.6 million |
| `IssueProgress` | `ReachesHuman`, `StopCompletes` with crashes and stops | `MaxRevision` 12; 0.3 million |
| `SchedulerServes` | the pump with a failing Issue and a shutdown | 3 Issues, 2 slots, 2 operations each |
| `GitPublication` | publication, its refinement and its progress | 2 Issues, one legacy; 2 commits of each, 1 of the developer, 1 fault; 0.7 million |
| `CodexAgent` | turns and the app-server | 1 Issue, 2 stages, 1 restart, 2 faults, a buffer of 5; 0.8 million |
| `AgentStage` | evidence, activity, permissions | 2 iterations, 2 operations, 2 faults; 2 turns, 2 commands, 3 units of output; 8 revisions; 2.1 million |
| `DesktopRuntime` | the application: window, settings, the form's integration, the form's workspace, sources | 2 Issues of 3 revisions, 2 moves; 2 secrets, 3 saves, 2 of the form; 2 Sentry Issues of 3 and 2 events, 2 pages of events; 2 messages; 1 restart, 2 faults; 0.5 million |
| `IssueAgentCapturePause` | *violation* of `PauseBecomesReady` when the Agent captures | no faults at all |
| `IssueCrashedPause` | *violation* of `PauseBecomesReady` by a crash | one crash suffices |
| `IssueMigration` | *violation* of `EvidenceOfThisIteration` by the legacy migration | failing intake and a restart |
| `SchedulerLostKick` | *violation* of `KickIsHeard` | 2 Issues, 2 slots |

**Why the bounds are enough.** `MaxRevision` stops only users and the
environment; what has begun goes on, so no run ends in the middle of a stage. The
last command of the shortest life from intake to a publication, the acceptance of
the delivery, is given at revision 11, and the Issue is completed at 13. Within 15
an Issue of every origin is published, also with a second iteration. Within 12
(`IssueProgress`) a new Issue is published with its first; within 11 (`IssueFaults`)
it reaches the review of its delivery, and the legacy rows are published with a
first or a second iteration. Crashes, which raise no revision, strike in every
stage. One capability and two assessments give every branch of the reviews and of
`pauseForCapability`. Nothing distinguishes more Issues than slots plus one in the
pump: three on two slots have one that waits, one that runs and one that fails.

In `GitPublication` two commits of an Issue are a Repair and its repair after a
stale base; one commit of the developer makes the base move between any two steps
of either Issue; an Issue's publication is what moves the base for the other. In
`CodexAgent` one restart gives two generations, and two stages with a correcting
turn each give up to four turns of one thread; Issues share the app-server and
nothing of a turn, so one Issue is enough. Its buffer of 5 notifications
(`MaxStarting`) stands for 256: it overflows in the run, where the oldest
notifications go first; with a buffer of only 2 a turn loses its completion and
`TurnsEnd` fails. In
`AgentStage` a file of a few units has every cut a recorder can leave, and two
faults are one during the recovery from another. In `DesktopRuntime` settings and
DingTalk have two faults, the window, the form's integration and Sentry one, and the
form's workspace none; in the window commands are about the Issue that is always
there, while the other one may be created and changes by itself; starts that fail and quitting are met by settings and DingTalk; a
second process is the last, as in the code. What is typed into the integration and what
is chosen for the workspace are scenarios of their own, which meet in the theorem only
(scenario `"form"`); where no workspace is chosen, what an inspection finds is left out, for
the settings it would complete are empty. The first Sentry Issue (`Busy`) has up to three
events over a limit of two pages (`MaxPages`, for 20 of the code), so that a watermark is
found on the first page or on the second, is too many pages away, or is gone; the second shares its page of the list or is on the
next one. `FreshSessions` is what the Agent answers `createSession` with: FALSE is the
adapter the Runtime is built with, TRUE one given names of its own (its `id` option).
No configuration uses symmetry or a state constraint.
Deadlock is not checked: an Issue that waits for a human, a worker without work, an
application that has quit legitimately stand still.

**Faults** are a constant of each system, so that each run says what it tolerates.
Of the Issue: `crash`, `shutdown`, `input` (an input joins the Issue), `intake`
(preparing the evidence directory fails), `cleanup` (removing it fails), `cancel`
(cancelling a turn fails or times out), `provider` (a workspace cannot be restored
at startup). `NotStranded` does not hold with `input` (an appended input
invalidates the running operation, whose result is dropped with nothing queued),
`cleanup` (the rejected operation makes the pump forget the Issue until a kick) or
`provider`: the Issue then waits for a retry by hand or for a restart. The sources
make no promise to the contrary; these are hazards, not findings. Of Git: `crash`,
`remote` (a push fails), `dirty` (somebody changes a worktree), `switch` and
`overlap` (the developer's checkout and local changes), `repair` (a Repair is not
valid). Of Codex: `exit`, `launch`, `timeout` (an app-server that outlives the
deadline of its launch or of its end), `missing` (a thread is not found), `failed`
and `retry` (errors of a turn), `cancel`, `stop`, `terminal` (a turn of the CLI in
the shared thread). Of a
stage: `exit`, `power` (what was not synced is lost), `disk`, `listing` (of
processes, the first or the second one), `stuck` (a process that cannot be ended), `abort`, `target` (what is captured fails).
Of the application: `exit`, `start`, `slow`, `quit`, `request` (a request fails or times out, Sentry's and the inspection's too), `intake`, `keychain`, `retention`
(Sentry drops an event), `refusal` (it has one the adapter does not take).

**Fairness.** Of the Issue: `WF(OperationNext)`: the Agent, a provider and a capture
end somehow (the adapter's own turns, the capture's timeouts and Git's processes are
bounded), and the event loop runs what is ready. `WF(PauserNext)`,
`WF(RecoverWorkspaces)`, `WF(ReconcileInterrupted)`, `WF(CancelAgents)` and
`WF(Stopped)` are continuations of functions whose awaits have resolved; a
Runtime that went down is started again. No fairness on users, commands or
faults, and no strong fairness anywhere; which of its outcomes an operation has is
never fair, so progress does not rest on an Agent that succeeds in the end.
`ReachesHuman` is stated for a Runtime that finally stays up. In `IssueScheduler`
operations settle, the pump's microtasks run, and a resolved drain returns. In
`GitPublication` the provider's commands end (`WF(ProviderNext(i))`, the Agent's
Repair included), and nobody else has to do anything. In `CodexAgent` the event
loop goes on, and a server that runs answers and works; that it hangs is not
modelled, for the code has no deadline for a turn. In `DesktopRuntime` a process that
starts comes up or ends, the event loops go on, and DingTalk sends again what was
not acknowledged.

## 5. Findings

1. **A pause of an Agent's evidence capture never becomes ready**
   (`worker.ts:574`). The turn is aborted with the adapter's own error, not with
   the signal's reason, so the operation rejects and the pause is recorded as
   failed; `resumeIssue` then always answers `ISSUE_PAUSE_IN_PROGRESS`.
2. **A pause interrupted by a crash never becomes ready** (`commands.ts:313`).
   No start completes it, though nothing can be running any more.
3. **The legacy migration fires on rows of this version** (`recovery.ts:128`). A
   second Repair whose intake cannot be prepared is, after a restart, an evidence
   failure of an implementation that never happened.
4. **A kick is lost after a failure in the same pump** (`worker.ts:189`). An
   Issue queued by hand after its operation rejected waits for all other Issues
   and for another kick.

The quotes they contradict are in `PROJECT.json`. Two more, which a passing run has as an
exception of its property and not as a counterexample of its own:

* **A lost Agent session cannot be rebuilt** (`commands.ts:260`). The Codex adapter names
  the new session as the old one, `codex-<issue id>` (`codex-agent-adapter.ts:106`;
  `runtime-host.ts:85` gives it no `id`); the retired row keeps that name, which is the
  primary key (`schema.ts:21`), and the insert fails. docs/architecture.md:51 and :63 have
  "retry or confirmed session rebuild", the specification of the shared terminal of
  2026-08-26 (line 104) an action that stays available; the window offers that action,
  alone but for the cancellation, and it is always refused. `Unrebuildable` is this case:
  with FALSE for `FreshSessions` (`IssueSafety`) it is reached, with TRUE it is empty, and
  `OffersAreTaken` (section 6) has every rebuild that is offered taken; what comes of an
  Issue whose session was rebuilt is in `IssueFaults`.
* **A form says it is saved and shows what is not stored** (`project-form.tsx:426`,
  437-463). The inspection of its directory is merged into the values it shows; where no
  remote can be published to, the push is shown as off while the stored one is on, under
  the line that all changes are saved (`:104`). The design of 2026-08-22 (issue dock and
  project workspace, line 37) calls that line "the authoritative saved/unsaved indicator".
  `Merge` is what the inspection makes of the settings, and `FormTruthful` compares with
  the stored ones so completed; all other values are the stored ones themselves.

Other deviations met while modelling are in section 7.

## 6. Proofs

`IssueRuntimeProofs` begins with what the recorders return: each maps an Issue to an
Issue and raises the revision, and says which of its fields a transition changes. It
then proves, for every `Capabilities`, `AgentAssessments`,
`HostCapture`, `Faults`, `MaxRevision` and `Origins` that satisfy the assumptions
of the modules:

* `Invariance` — `Spec => []IInv`;
* `TypeCorrect`, `SnapshotsAreCurrent`, `ReadyPausesAreQuiet` — the corresponding
  properties of section 3;
* `HumanKeepsTheWord` — `HumanHasTheWord`, as an action property.

So these hold with all faults together and without the bound of any run.

**The argument.** `SnapshotCurrent` is not inductive by itself. The invariant is

    IInv == TypeOK /\ OperationFits /\ SnapshotCurrent /\ DownIsIdle
            /\ RowFits(issue, pending) /\ ReadyMeansQuiet

`OperationFits` ties the place where an operation awaits to its kind and to the
status of its snapshot (an evidence capture is of an Issue in
`EVIDENCE_CAPTURE`, …): without it a recorder applied to the snapshot need not
return an Issue at all. `RowFits` says that an Issue which is paused or has ended
has nothing queued (so that no claim can follow) and that a paused one knows the
operation it goes on with; `DownIsIdle` that a process that is down runs nothing,
which is why a restart cannot meet a snapshot. Every write either raises the revision or leaves the Issue as it
is; with snapshots never newer than the Issue this preserves `SnapshotCurrent`.
`ReadyMeansQuiet` follows because only `PauseSettled`, which waits for the
operation, makes a pause ready, and no operation starts on a paused row
(`RowFits`: nothing is pending). `HumanHasTheWord` then follows step by step: an
operation's write needs a current snapshot, and a snapshot's status is never
`PAUSED` or terminal.

The steps of `Next` are proved by groups (worker, workspace, commands, pause,
start and stop), each with one step per action.

`IssueGateProofs` goes on from there, and proves `HumanGated` (`HumanGate`, for the
same constants) and `EvidenceIsCurrent` (`EvidenceOfThisIteration`, assuming that
`"intake"` is not among the `Faults`: an intake that fails is what makes the legacy
migration apply, which is finding 3's case). Its invariant is

    GateInv == RowHolds(issue, accepted, published) /\ PublishingHolds

`RowHolds` follows an acceptance, the evidence and the draft through the statuses
that keep them, the ones the two properties do not name included: an accepted Issue
whose legacy recovery is paused or waits for a capability is still `Entrusted`, and
a paused or permission-seeking capture still `Drafted`; no review is open outside
`REVIEW_REQUIRED`. `PublishingHolds` says that while a publication is under way the
Issue stays in `FINALIZING` with the iteration and delivery of the snapshot: no
command but an input that joins applies to that status. `GateInv` is inductive on
top of `IInv`: a result that counts is computed from a snapshot that *is* the Issue,
so it is enough that each recorder keeps `RowHolds` (the lemmas `…Holds`), and that
only `accept`, on a review of a delivery, leads to `FINALIZING` (`AcceptanceChosen`).

`IssueSchedulerProofs` proves of the pump, for any finite set of Issues and any
numbers of slots and operations: `PumpTypeCorrect` (`TypeOK`), `SlotsAreUsed`
(`WorkConserving`) and `DrainReturnsAtRest` (`DrainIsQuiescent`). Its invariant adds
to the first two what the pump knows when it rests (`PumpRests`). What is not
propositional is a round of the pump, which starts the Issues that have fewer
eligible ones before them than there are free slots (`FirstOf`). The number of
eligible Issues before an Issue is its rank; the ranks number the eligible Issues
from zero without a gap (`RanksAreNumbers`), so either the slots are filled or every
eligible Issue is started (`FirstOfFillsSlots`).

`IssueQueueProofs` is about what is queued. `PendingIsFit` (`PendingFits`) holds
with all faults; `NothingStranded` (`NotStranded`) assumes that `"input"`,
`"cleanup"` and `"provider"` are not among the `Faults`, for the reasons of
section 4 (`IssueSafety` checks it with crashes, stops and failing cancellations; the
theorem has failing intakes too). The invariant, on top of `IInv`, is

    QueueInv == Equipped(issue) /\ Queued(issue, pending) /\ Equipping
                /\ (Dependable => Served)

`Equipped` says what a row carries in each status: a workspace from the first stage
on, a session and an assessment once it has been assessed, an iteration, a draft, a
delivery; where an Issue is paused or asks for a capability, what it carries is
that of the operation it goes back to (`Toward`). No run has a property for this,
and without it `PendingFits` is not inductive: a resumed Issue is queued with what it
had before the pause. `Equipping` says the same of an operation that is still making
its workspace or its session. `Served` ends the argument for `NotStranded`: an
operation that has claimed the row holds the current Issue or the Issue is halted, and
only a halted one has an operation that was aborted or is forgotten. The dropped
results, the rejected clean-ups and the unrestored workspaces are what falsifies it.

On top of both it proves `OffersAreTaken` (`OffersAreHonoured`), with all faults, from

    OfferInv == Offering(issue) /\ (Pausing => ~CanResume(issue))

`Offering` says what a row carries for the human: a review that is one of the three
kinds, a request that knows the operation it came from, and a session that is gone only where the workflow lets it be rebuilt. The last is what the window needs: it offers to rebuild
whatever the status is once the failure says that the session is gone, while
`replaceAgentSession` asks for a failed assessment or repair with a session. So the
failure has to be cleared, or be another one, wherever a row leaves those statuses; the
lemmas `…Offers` show it of every recorder. The second part keeps a ready pause and an
unfinished `pauseIssue` apart: a later resumption would be refused. What the row needs
besides (a delivery to repair, a workspace to go on in) is `QueueInv`'s. Whether the
name of a new session is free is the Agent's and the store's matter and nothing the
workflow could ensure: the theorem excepts `Unrebuildable` as the property does, for
both values of `FreshSessions`; where it is TRUE the exception is empty.

`GitPublicationProofs` proves, for any set of Issues of one repository, any of them
legacy, and all faults: `TypeCorrect`, `Published` (`PublishedEverywhere`), `Decides`
(`DecidesRightly`) and `Refinement` (`Delivers`), from

    GitInv == TypeOK /\ Rooted /\ \A i \in Issues :
                Phase(i) /\ Branch(i) /\ BaseRead(i) /\ Done(i) /\ Markers(i)

`Phase` locates a call by the Issue's stage and the saved state. `Branch` says that
from the delivery on the branch *is* the accepted commit, made of the Issue's commits
and the base's. `BaseRead` is what makes the interleavings harmless: what a call has
read of the base branch is contained in what the base is now, and the result it is
about to write contains both, or `merge --ff-only` and `update-ref` with an expected
value fail. `Done` orders the end of a publication (base, push, saved, released,
recorded), which a repeated call after a crash re-enters anywhere. `Markers` ties an
uncommitted merge to its session. The refinement is proved step by step: of the
detailed actions only those that advance the base, accept or record are steps of
`DeliveredBase`, each a lemma; all others stutter.

`AgentStageProofs` proves `StageTypeCorrect` (`TypeOK`), `EvidenceStays`
(`EvidenceKept`), `CapturesLeaveNothing` (`CaptureLeavesNothing`) and
`PermissionsHold` (`PermittedOnly`). Its invariant has three parts that share nothing
but the count of faults, as the three components do not:

    StageInv == EvidenceInv /\ PermissionInv /\ ActivityInv

`EvidenceInv` numbers the intake directories (`Numbered`: an exit or a failed removal
leaves one, and those in `litter` come first), orders the names of an import
(`Names`, `Placing`: the bytes are durable before the descriptor is written,
whatever the machine loses) and follows the process tree of a capture (`Processes`:
after the listing, what lives of the browser's tree is known, descends from a browser
that lives, or is excused; a process that ends by itself keeps this only because what it
leaves without a parent is excused with it). `PermissionInv` says that a stage under way has
what was available when it began and that what a human is asked for is new, which
bounds the questions by the capabilities. `ActivityInv` bounds what is kept of a
line. That what the inspector takes for a recording is a finished one is an induction
over the recording's elements; it is a fact about constant definitions only, stated
as the assumption `AcceptedFinished` of `MediaFiles` and evaluated by TLC for the
files of the run.

`DesktopRuntimeProofs` proves `DesktopTypeCorrect` (`TypeOK`), `InputsKept`
(`NothingLost`), `SettingsStayAtomic` (`SettingsAtomic`), `FormStaysTruthful`
(`FormTruthful`) and `RowsGoForward` (`RowsNeverGoBack`, as an action property), from

    DesktopInvariant == SupervisorInv /\ SettingsInv /\ SentryInv /\ DingTalkInv
                        /\ ViewInv /\ FormInv /\ scenario \in Scenarios

* `SupervisorInv`: what has not ended is the supervisor's child. Settings, sources and
  connections rest on it: they end with that process and no other can act.
* `SettingsInv`: a mutation knows what it has changed; outside of that the keychain is
  what is meant, unless `torn`. So the undo restores exactly what was there.
* `SentryInv`: of the Issue that is polled (`Collected`), every event between the
  watermark and the newest one is found, in the intake, or still to be read, though
  new events move the pages while they are read; a poll that runs out of events or of
  pages before the watermark hands nothing over.
* `DingTalkInv`: a message whose handling has come to its acknowledgement is taken.
* `ViewInv`: rows, detail and answers are never ahead of the store; an Issue that is
  being created has no row, and one answer tells of it. This is what lets a row be set
  without comparison when it is created, while all other writes compare revisions.
* `FormInv`: of the submissions, each with the form it was made from, only the oldest
  has been taken up, and the mutation under way is its; every row the window holds is a
  state the project has had (`Known`), and a form that says it is saved shows its row as
  `Merge` completes it with the inspection it was mounted with.

`CodexAgentProofs` proves `AgentTypeCorrect` (`TypeOK`), `ResultsAreOwn`
(`ResultIsOwn`), `NothingIsLeftBehind` (`NothingLeftBehind`) and
`TurnsHaveTheirDirectory` (`TempWhileRunning`), from

    AgentInv == ServerInv /\ TurnInv /\ TempInv /\ ResultIsOwn

* `ServerInv`: launches are numbered, a process that lives is the child or of a launch
  that will find that it has to stop, and there is something on a wire only while the
  client has not closed that connection.
* `TurnInv` says what a turn may rely on when it hears something. A request has one
  answer, and who made it waits for it (`AnsweredOnce`). What is told of a turn is so,
  however late it is heard (`So`): on the wire (`Told`), kept until the turn's number is
  known (`Buffers`) or in its queue (`Fed`). A numbered turn works at one place, over
  the connection it is waited for at (`Worked`, `Interrupted`); one whose queue has
  ended works no more, and one that was aborted was told to stop (`Streamed`). Hence
  `turn()` may leave a turn when its queue ends, and `ResultIsOwn` follows where it
  returns a message.
* `TempInv`: before a second start nothing but the turn's own end removes its directory.

`startTurn` reads its buffer of any length when the number of the turn is known
(`Subscribed`); that each step of this keeps what a queue holds is an induction along
that buffer. `Counted` provides it: a set of numbers that has 0 and, with each number
below `n`, the next one, has `n` — the least number it lacks would be the successor of
one it has.

TLC checked each of these invariants on small instances before it was proved:
`AgentInv` with one Issue, two stages and two faults, and with two Issues and one fault
(0.7 and 1.2 million states), `QueueInv` under the constants of the three Issue runs, `OfferInv` under those of
`IssueSafety` and `IssueFaults` (1.3 and 0.6 million states), `GitInv` with one and
with two faults (5.0 million states), `StageInv` and `DesktopInvariant` under those
of their runs.

**Assumptions.** The theorems assume what the modules assume of their constants and,
where it is said, a set of faults; no bound. `IsFiniteSet(Groups)` in
`SentryPoller` is there because a page of Sentry's list is a finite one.

**Only model-checked:** every invariant the runs check is proved but one.
`TerminalFaithful` compares the Terminal with a reading of the whole log that sorts,
filters and concatenates its events; its proof would be an induction along the log
through each of these library operators, and it stays with TLC. So does liveness under
fairness: `ReachesHuman`, `PauseCompletes`, `StopCompletes`, `UnrelatedServed`,
`DrainEnds`, `ReachesRest`, `TurnsEnd`, `RowsCatchUp` and `EventsDelivered` stay with
TLC.

## 7. What is not modelled, and what the properties except

Not modelled: module hooks and the workspace registry, the manual integration's
form, the conversion of Sentry's and DingTalk's payloads, queries and rows of
views, wording, styles and layout. They keep no state the properties depend on.
Partly modelled components say in `PROJECT.json` what they leave out.

A property that would not hold of the code as it is excepts the case by name, so
that what does hold can be checked. These are the exceptions, and what else was
found to differ from a document or from what a reader would expect:

*Issue and window*
* Cancel is offered in `ASSESSING`, `REPAIRING`, `EVIDENCE_CAPTURE` and
  `FINALIZATION_RECOVERY`, where `workflow.ts` has no transition for it
  (`issue-actions.tsx`; docs/agent-core.md:41): excepted in `OffersAreHonoured`, as is
  an Issue that is still being prepared (`Unprepared`).
* The rebuild of a lost session is excepted there too (`Unrebuildable`, section 5).
* Which parts of the Runtime stay open when `stop()` rejects (`runtime.ts:65-72`: a
  session without its Agent, a failing drain) is not part of the state: `Stopped` is the
  end of `stop()` either way, and `StopCompletes` says only that there is one.
* An Agent session lost during an evidence capture becomes
  `EVIDENCE_CAPTURE_PROCESS_FAILED`, from which the session cannot be rebuilt.
* `continuation` belongs to the event with the Issue's own revision
  (`worker.ts:804`): an input that joins between a command and its claim takes the
  message away from the Agent (`StagePermissions.JoinInput` has the case).
* `PauseCompletes` excepts an operation that rejects (`asleep`), which is finding 1.

*Git*
* `branchInfo` is never cleared: when `release` fails after a publication and the
  Issue is repaired, `publish` returns the old `branchInfo` (`provider.ts:438`) and
  the Issue completes without its second commit in the base.
* `acquire` is not idempotent after a crash between `worktree add` and the saving of
  the state (`provider.ts:372`): `UNPREPARED` is a place of rest of `ReachesRest`.
* A checkout switched between the listing of worktrees and `merge --ff-only`
  (`provider.ts:910`) fast-forwards another branch: `misled`, in `DeliveredBase` too.
* A legacy `finalizationRecovery` is not cleared by a Repair, which then publishes
  by the legacy way; a crash between the commit of a seal and the saving of it
  leaves `HEAD_CHANGED` for ever.

*Codex*
* A retryable `error` notification makes the adapter give a turn up that the
  app-server goes on with: `retried`, excepted in `NothingLeftBehind`.
* The dispose of a replaced client may remove a private directory a new turn has
  made again: `TempWhileRunning` speaks of the first generation. The count of references
  by which a client shares a directory (`codex-client.ts:92`) is not modelled.
* An app-server that exits during start-up is restarted by the supervisor while the
  host's start rejects and stops it; the restart does not survive.
* A cancellation during the disposal of a first turn is lost for the correcting one,
  and a first turn canceled before `thread.started` loses its provider thread.

*Stage*
* `ps` failing leaves the browser's tree, be it the first listing, before the close
  (`playwright-capture-provider.ts:234`), or the second, before any signal is sent to
  what the first one found (`:260`). A browser that ends before it was listed, by itself
  or by the close, leaves helpers that have no parent to be found by; and a process may
  not end at all. All are `excused` in `CaptureLeavesNothing`.
* What an exit leaves in the worktree stays (`litter`), as does a probe or an intake
  directory whose removal fails, which makes the operation reject (`worker.ts`'s
  `intake.cleanup()`); it counts as a generated artifact of the next Repair. A detached
  start command outlives the Runtime.
* A live WebM with two clusters of unknown size is always refused
  (`media-inspector.ts:170`).
* The partial line of a command is lost when its turn fails, and a late delta of a
  command that is over opens a stream nobody shows.

*Application*
* A project form is mounted anew when the inspection of its directory arrives
  (`app.tsx:774`): edits are lost and it says that all changes are saved, though
  docs/superpowers/specs/2026-08-22-issue-dock-and-project-workspace-design.md:37
  calls that line authoritative. Edits made while a save is under way are lost as well.
* What such a form shows of the workspace is not what is stored but what the inspection
  makes of it: a remote that is filled in, a push that is switched off (section 5).
* A save that was made is answered with an error when the secrets cannot be read for
  the answer (`service.ts:258`, `:695`): the form says it is not saved, and the window
  keeps the row from before (`unheard`), with which the next save is refused.
* A form mounted during a save shows the values before it (`missed`), and a save that
  timed out and was made is not heard of (`unheard`): both excepted in `FormTruthful`.
* A new Issue's command id is the time of its submission: repeated after a time-out
  it is a second Issue. One that timed out is in no list until the window reloads.
* Subscriptions of a window are lost when the utility process is restarted, and a
  refresh that fails is not made again: `lost` and `missed`, excepted in `RowsCatchUp`.
* A crash between the writes of secrets and their commit leaves them torn, as does an
  undo that fails: `torn`, excepted in `SettingsAtomic`.
* An event that failed before an Issue's first watermark may be passed over:
  `NothingLost` speaks from the first watermark on (`first`).
* A watermark that Sentry no longer has, one more than 20 pages of events away, and an
  event the adapter refuses make this and every later poll of their Issue fail
  (`sentry-poller.ts:124`, `:165-174`; its test pins it). As the cursor then stays where
  it is, Issues on other pages of Sentry's list are not served any more either:
  `EventsDelivered` excepts both (`Lost`, `Reached`), and says that the others of its own
  page are.
* Sentry's requests have no deadline, and what waits for the source, `stop()` included,
  waits for them.
* A Runtime that starts after its deadline runs unseen, and the window stays
  disconnected.

## 8. Plan

All systems of the plan are modelled. What is left:

1. To model: several helpers of one capture, a server that hangs, intake grouping,
   the connection test of the project form.
