---------------------------- MODULE CodexServer ----------------------------
(***************************************************************************)
(* The Codex app-server process, its supervisor (CodexAppServerSupervisor) *)
(* and the host that gives its client to the adapter                       *)
(* (CodexAppServerRuntimeHost).  A launch, the process it spawns and the   *)
(* connection to that process have the same number, their generation.      *)
(***************************************************************************)
EXTENDS Naturals, Sequences, FiniteSets

CONSTANTS
    Issues,
    RestartLimit,       \* restarts after an unexpected exit
    MaxStarting,        \* notifications kept while a turn starts
    Faults,             \* what may go wrong
    MaxFaults,          \* bound: how many things go wrong
    MaxStages           \* bound: stages of an Issue

ASSUME AgentAssumption ==
  /\ RestartLimit \in Nat /\ MaxStarting \in Nat \ {0}
  /\ Faults \subseteq {"exit", "launch", "timeout", "missing", "retry", "failed", "cancel", "stop", "terminal"}
  /\ MaxFaults \in Nat /\ MaxStages \in Nat

VARIABLES
    launch,         \* launch() of each generation
    alive,          \* the processes that run
    exited,         \* those whose exit the supervisor has seen
    child, connection, generation, stopping, restarts,  \* the supervisor's fields
    host,           \* the host's start and stop
    client,         \* the generation of runtimeClient's connection, or none
    conn,           \* the connections, as their client sees them
    draining,       \* the Runtime is stopping
    turn,           \* the adapter's and the client's state of each Issue's turn
    starting,       \* startingNotifications of its thread
    sessions,       \* the Issues whose session row has its provider thread
    temp,           \* the Issues whose private directory exists
    removing,       \* those whose directory a dispose removes
    wire,           \* what each process has sent and the client not received
    working,        \* the turns at work in the processes
    interrupts,     \* turn/interrupt requests they have not handled
    count, stages, faults,  \* how many turns, stages, ... there were
    completed,      \* history: the turns the server completed, while one is under way
    foreign         \* history: the Issues given what is no result of their turn

supervisor == <<launch, alive, exited, child, connection, generation, stopping, restarts>>
hosting == <<host, client, draining>>
directories == <<temp, removing>>
server == <<working, count, completed>>
counters == <<stages, faults>>
vars == <<supervisor, hosting, conn, turn, starting, sessions, directories, wire, server,
          interrupts, counters, foreign>>

none == 0
Generations == 1 .. RestartLimit + 1

Fault(kind) == kind \in Faults /\ faults < MaxFaults /\ faults' = faults + 1

-----------------------------------------------------------------------------
(* A process ends, and so does what it worked on.  Its connection closes   *)
(* when the client has read what is still on the wire.                     *)
Gone(gone) ==
  /\ alive' = alive \ gone
  /\ working' = {w \in working : w.gen \notin gone}
  /\ interrupts' = {r \in interrupts : r[3] \notin gone}

Hangup(gone) ==
  conn' = [g \in Generations |-> IF g \in gone /\ conn[g] = "open" THEN "closing" ELSE conn[g]]

(* stop() of the supervisor. *)
SupervisorStops ==
  /\ stopping' = TRUE /\ connection' = none /\ child' = none
  /\ Gone({child}) /\ Hangup({child, connection})

(* startHost, as soon as the first launch has ended; when it has failed,   *)
(* the host stops the supervisor.                                          *)
HostStarts(g, connected) ==
  IF g # 1 \/ host # "starting" THEN UNCHANGED <<host, client>>
  ELSE host' = "up" /\ client' = IF connected THEN g ELSE none

(* launch(): verification up to the spawn, which nothing stops.            *)
Spawn(g) ==
  /\ launch[g] = "preparing"
  /\ launch' = [launch EXCEPT ![g] = "connecting"]
  /\ alive' = alive \cup {g} /\ child' = g /\ generation' = generation + 1
  /\ UNCHANGED <<exited, connection, stopping, restarts, hosting, conn, turn, starting, sessions,
                 directories, wire, server, interrupts, counters, foreign>>

(* launch() fails: its process is killed, and the host that waited for it  *)
(* stops the supervisor, with what that has launched meanwhile.            *)
LaunchFails(g) ==
  LET stops == g = 1 /\ host = "starting" /\ ~stopping
      gone  == {g} \cup (IF stops THEN {child} ELSE {}) IN
  /\ launch' = [launch EXCEPT ![g] = "failed"]
  /\ IF stops THEN stopping' = TRUE /\ child' = none /\ connection' = none
     ELSE UNCHANGED <<stopping, child, connection>>
  /\ Gone(gone) /\ Hangup(gone)
  /\ HostStarts(g, FALSE)

VerificationFails(g) ==
  /\ launch[g] = "preparing" /\ Fault("launch")
  /\ LaunchFails(g)
  /\ UNCHANGED <<exited, generation, restarts, draining, turn, starting, sessions, directories,
                 wire, count, completed, stages, foreign>>

(* The loop of launch(): it ends without a connection when the supervisor  *)
(* stops or the process has exited, and when its time is over.             *)
LoopEnds(g) == stopping \/ g \in exited \/ child # g

Abandon(g) ==
  /\ launch[g] = "connecting"
  /\ \/ LoopEnds(g) /\ UNCHANGED faults
     \/ ~LoopEnds(g) /\ Fault("timeout")
  /\ LaunchFails(g)
  /\ UNCHANGED <<exited, generation, restarts, draining, turn, starting, sessions, directories,
                 wire, count, completed, stages, foreign>>

Connect(g) ==
  /\ launch[g] = "connecting" /\ g \in alive /\ ~LoopEnds(g)
  /\ launch' = [launch EXCEPT ![g] = "connected"]
  /\ connection' = g
  /\ conn' = [conn EXCEPT ![g] = "open"]
  /\ HostStarts(g, TRUE)
  /\ UNCHANGED <<alive, exited, child, generation, stopping, restarts, draining, turn, starting,
                 sessions, directories, wire, server, interrupts, counters, foreign>>

(* handleUnexpectedExit: one restart; nobody waits for its start().        *)
SeeExit(g) ==
  /\ launch[g] \in {"connecting", "connected", "failed"} /\ g \notin alive /\ g \notin exited
  /\ generation >= g
  /\ exited' = exited \cup {g}
  /\ IF child # g THEN UNCHANGED <<child, connection, restarts, launch>>
     ELSE /\ child' = none /\ connection' = none
          /\ IF stopping \/ restarts = RestartLimit THEN UNCHANGED <<restarts, launch>>
             ELSE /\ restarts' = restarts + 1
                  /\ launch' = [launch EXCEPT ![g + 1] = "preparing"]
  /\ UNCHANGED <<alive, generation, stopping, hosting, conn, turn, starting, sessions,
                 directories, wire, server, interrupts, counters, foreign>>

(* The app-server crashes. *)
Exit(g) ==
  /\ g \in alive /\ Fault("exit")
  /\ Gone({g}) /\ Hangup({g})
  /\ UNCHANGED <<launch, exited, child, connection, generation, stopping, restarts, hosting, turn,
                 starting, sessions, directories, wire, count, completed, stages, foreign>>

-----------------------------------------------------------------------------
(* refreshClientAfterRestart: a client is replaced once a later generation *)
(* is connected; without one it is kept, dead.                             *)
Replaced == client # none /\ connection # none /\ connection > client
CurrentClient == IF Replaced THEN connection ELSE client

(* stop() of the Runtime cancels every session, lets its turns end, and    *)
(* then stops the host: the supervisor, and the directories still there.   *)
HostStops ==
  /\ draining /\ host = "up" /\ \A i \in Issues : turn[i].pc = "idle"
  /\ host' = "stopped"
  /\ IF stopping THEN UNCHANGED <<stopping, child, connection, alive, working, interrupts, conn>>
     ELSE SupervisorStops
  /\ UNCHANGED <<launch, exited, generation, restarts, client, draining, turn, starting, sessions,
                 directories, wire, count, completed, counters, foreign>>

SupervisorNext ==
  \/ HostStops
  \/ \E g \in Generations :
       Spawn(g) \/ VerificationFails(g) \/ Abandon(g) \/ Connect(g) \/ SeeExit(g)
=============================================================================
