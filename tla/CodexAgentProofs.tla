-------------------------- MODULE CodexAgentProofs --------------------------
(***************************************************************************)
(* What holds of the turns of any number of Issues over any number of      *)
(* restarts of their app-server, with every fault: the types, that a stage *)
(* returns the message of its own completed turn, that no turn and no      *)
(* process is left behind, and that a turn has its private directory.      *)
(***************************************************************************)
EXTENDS CodexAgent, TLAPS, FiniteSetTheorems, WellFoundedInduction

(* What a process sends: the answer to a request, or what it tells of a turn. *)
Answers == {"thread", "missing", "turn"}
Ends == {"completed", "failed", "interrupted"}
Kinds == Answers \cup Ends \cup {"started", "message", "retry", "refused"}
Messages == [kind : Kinds, issue : Issues, no : Nat]

(* The types of the parts of the state. *)
Turns == [pc : Pcs, gen : Generations \cup {none}, no : Nat, aborted : BOOLEAN,
          asked : {"none", "sent", "taken", "again"}, fed : Seq(Messages),
          ended : {"no", "done", "failed"}, last : Nat, runs : 0 .. 2]
Works == [issue : Issues, no : Nat, gen : Generations, cli : BOOLEAN, said : BOOLEAN,
          retried : BOOLEAN]

ServerTypes ==
  /\ launch \in [Generations -> {"none", "preparing", "connecting", "connected", "failed"}]
  /\ alive \subseteq Generations /\ exited \subseteq Generations
  /\ child \in Generations \cup {none} /\ connection \in Generations \cup {none}
  /\ client \in Generations \cup {none}
  /\ generation \in 0 .. RestartLimit + 1 /\ restarts \in 0 .. RestartLimit
  /\ host \in {"starting", "up", "stopped"} /\ stopping \in BOOLEAN /\ draining \in BOOLEAN
  /\ conn \in [Generations -> {"none", "open", "closing", "closed"}]

TurnTypes ==
  /\ turn \in [Issues -> Turns] /\ starting \in [Issues -> Seq(Messages)]
  /\ sessions \subseteq Issues /\ temp \subseteq Issues /\ removing \subseteq Issues
  /\ wire \in [Generations -> Seq(Messages)]
  /\ working \subseteq Works /\ interrupts \subseteq Issues \X Nat \X Generations
  /\ completed \subseteq Issues \X Nat /\ count \in [Issues -> Nat]

-----------------------------------------------------------------------------
(* The supervisor.  Each launch is of the next generation, whose process is the child
   until it ends; what is alive otherwise is of a launch that will find that it has to
   stop, and what has ended sends nothing more than is on the wire. *)
Launched(g) ==
  /\ launch[g] = "preparing" =>
       g = generation + 1 /\ g <= restarts + 1 /\ child = none /\ connection = none
  /\ launch[g] \in {"connecting", "connected"} => g <= generation
  /\ g \in alive =>
       /\ launch[g] = "connecting" \/ (launch[g] = "connected" /\ child = g /\ ~stopping)
       /\ g \notin exited /\ conn[g] \notin {"closing", "closed"}
  /\ g \in exited => g <= generation
  /\ conn[g] = "none" <=> launch[g] # "connected"
  /\ wire[g] # <<>> => conn[g] \in {"open", "closing"}

ServerInv ==
  /\ ServerTypes
  /\ generation <= restarts + 1
  /\ child # none => child = generation
  /\ connection # none => connection = child
  /\ \A g \in Generations : Launched(g)

-----------------------------------------------------------------------------
(* A request has one answer, and who has made it waits for it. *)
Asked(g, m) ==
  /\ m.kind \in {"thread", "missing"} => turn[m.issue].pc = "threading"
  /\ m.kind = "turn" => turn[m.issue].pc = "starting"
  /\ turn[m.issue].gen = g /\ turn[m.issue].asked = "none"

AnsweredOnce(g) ==
  /\ \A k \in 1 .. Len(wire[g]) : wire[g][k].kind \in Answers => Asked(g, wire[g][k])
  /\ \A k, l \in 1 .. Len(wire[g]) :
       /\ wire[g][k].kind \in Answers /\ wire[g][l].kind \in Answers
       /\ wire[g][k].issue = wire[g][l].issue
       => k = l

(* What is told of a turn is so, however late it is heard: an end is the end, and a turn
   said to be tried again is. *)
Of(w, m) == w.issue = m.issue /\ w.no = m.no

So(m) ==
  /\ m.kind # "started" /\ m.no # 0 /\ m.no <= count[m.issue]
  /\ m.kind \in Ends \cup {"refused"} => \A w \in working : ~Of(w, m)
  /\ m.kind = "retry" => \A w \in working : Of(w, m) => w.retried
  /\ m.kind = "completed" /\ turn[m.issue].no = m.no => <<m.issue, m.no>> \in completed

Told(g) == \A k \in 1 .. Len(wire[g]) : wire[g][k].kind \notin Answers => So(wire[g][k])

Buffers(i) ==
  /\ Len(starting[i]) <= MaxStarting
  /\ turn[i].pc # "starting" => starting[i] = <<>>
  /\ \A k \in 1 .. Len(starting[i]) :
       /\ starting[i][k].issue = i /\ So(starting[i][k])
       /\ starting[i][k].kind \in Ends \cup {"message", "retry"}

(* What works in the processes, and who was told to stop: one turn each, and if it is the
   one that is waited for, over the connection that is waited at. *)
Worked ==
  /\ \A w \in working : /\ w.gen \in alive /\ w.no # 0 /\ w.no <= count[w.issue]
                        /\ turn[w.issue].no = w.no => turn[w.issue].gen = w.gen
  /\ \A v, w \in working : v.issue = w.issue /\ v.no = w.no => v = w

Interrupted ==
  \A r \in interrupts :
    /\ r[2] # 0 /\ r[2] <= count[r[1]]
    /\ turn[r[1]].no = r[2] => turn[r[1]].gen = r[3]
    /\ \A w \in working : w.issue = r[1] /\ w.no = r[2] => w.gen = r[3]

(* What a turn knows of itself at each point of turn(). *)
Placed(i) ==
  /\ turn[i].no <= count[i]
  /\ turn[i].pc \in {"idle", "opening"} => turn[i].no = 0 /\ turn[i].gen = none
  /\ turn[i].pc = "threading" => turn[i].no = 0 /\ turn[i].asked \in {"none", "sent"}
  /\ turn[i].pc = "starting" => (turn[i].asked = "sent" <=> turn[i].no = 0)
  /\ turn[i].pc \in {"threading", "starting", "streaming"} => turn[i].gen # none
  /\ turn[i].pc \in {"opening", "threading", "starting"} => turn[i].last = 0 /\ turn[i].ended = "no"

(* A turn that is read has its own events, and when they have ended it works no more; it
   has ended well only if the server says so, or it will read that it has not. *)
Fed(i, no, m) ==
  /\ m.no = no /\ m.issue = i
  /\ m.kind \in Ends \cup {"started", "message", "retry"}
  /\ m.kind # "started" => So(m)

Reads(i, t) ==
  /\ t.no # 0 /\ t.last \in {0, t.no}
  /\ \A k \in 1 .. Len(t.fed) : Fed(i, t.no, t.fed[k])
  /\ t.ended # "no" => \A w \in working : ~(w.issue = i /\ w.no = t.no)
  /\ t.ended = "done" =>
       \/ <<i, t.no>> \in completed
       \/ \E k \in 1 .. Len(t.fed) : t.fed[k].kind = "failed"

Streamed(i) ==
  turn[i].pc = "streaming" =>
    /\ Reads(i, turn[i])
    /\ turn[i].aborted => \A w \in working :
         w.issue = i /\ w.no = turn[i].no => <<i, turn[i].no, turn[i].gen>> \in interrupts

TurnInv ==
  /\ TurnTypes
  /\ \A g \in Generations : AnsweredOnce(g) /\ Told(g)
  /\ Worked /\ Interrupted /\ TurnsAreWatched
  /\ \A i \in Issues : Buffers(i) /\ Placed(i) /\ Streamed(i)

(* A directory is removed early only by a client that was replaced, and that is one of a
   later generation. *)
TempInv ==
  /\ client # none => generation # 0
  /\ \A i \in Issues : turn[i].gen # none => generation # 0
  /\ generation <= 1 =>
       \A i \in Issues : /\ i \in removing => turn[i].pc = "disposing"
                         /\ turn[i].pc \in {"threading", "starting", "streaming"} => i \in temp

AgentInv == ServerInv /\ TurnInv /\ TempInv /\ ResultIsOwn

-----------------------------------------------------------------------------
(* The supervisor. *)

(* What a process that ends, and one that starts, leaves as it was. *)
Ended(gone) ==
  /\ alive \ gone \subseteq alive'
  /\ working' = {w \in working : w.gen \notin gone}
  /\ interrupts' = {r \in interrupts : r[3] \notin gone}
  /\ UNCHANGED <<turn, starting, sessions, directories, wire, completed, count, foreign>>

(* A process that ends takes what it worked on with it, and what was to stop that. *)
LEMMA EndKeeps ==
  ASSUME TurnInv, NEW gone, Ended(gone)
  PROVE  TurnInv'
<1>1. /\ working' \subseteq working /\ interrupts' \subseteq interrupts
      /\ \A w \in working' : w.gen \notin gone
      /\ \A w \in working' : <<w.issue, w.no, w.gen>> \in interrupts
                             => <<w.issue, w.no, w.gen>> \in interrupts'
      /\ UNCHANGED <<turn, starting, sessions, temp, removing, wire, completed, count>>
  BY DEF Ended, directories
<1>2. \A m : So(m) => So(m)'
  BY <1>1 DEF So, Of
<1>3. TurnTypes'
  BY <1>1 DEF TurnInv, TurnTypes
<1>4. \A g \in Generations : AnsweredOnce(g)' /\ Told(g)'
  BY <1>1, <1>2 DEF TurnInv, AnsweredOnce, Asked, Told
<1>5. Worked'
  BY <1>1 DEF TurnInv, Worked, Ended
<1>6. Interrupted'
  BY <1>1 DEF TurnInv, Interrupted
<1>7. TurnsAreWatched'
  BY <1>1 DEF TurnInv, TurnsAreWatched
<1>8. ASSUME NEW i \in Issues PROVE Buffers(i)' /\ Placed(i)'
  BY <1>1, <1>2 DEF TurnInv, Buffers, Placed
<1>9. ASSUME NEW i \in Issues PROVE Streamed(i)'
  <2>1. Reads(i, turn[i]) => Reads(i, turn[i])'
    BY <1>1, <1>2 DEF Reads, Fed
  <2>2. ASSUME turn[i].pc = "streaming", turn[i].aborted, NEW w \in working', w.issue = i,
               w.no = turn[i].no
        PROVE  <<i, turn[i].no, turn[i].gen>> \in interrupts'
    <3>1. w \in working /\ turn[i].gen = w.gen
      BY <1>1, <2>2 DEF TurnInv, Worked
    <3>2. <<i, turn[i].no, turn[i].gen>> \in interrupts
      BY <2>2, <3>1 DEF TurnInv, Streamed
    <3> QED
      BY <1>1, <2>2, <3>1, <3>2
  <2> QED
    BY <1>1, <2>1, <2>2 DEF TurnInv, Streamed
<1> QED
  BY <1>3, <1>4, <1>5, <1>6, <1>7, <1>8, <1>9 DEF TurnInv

(* The generations, of which there is a first, and no more than there may be restarts. *)
LEMMA GenerationsNumbered ==
  /\ RestartLimit \in Nat /\ 1 \in Generations /\ none = 0 /\ none \notin Generations
  /\ \A g \in Generations : g \in Nat /\ g >= 1 /\ g <= RestartLimit + 1
  /\ \A g \in Nat : g >= 1 /\ g <= RestartLimit + 1 => g \in Generations
BY AgentAssumption DEF Generations, none

(* The supervisor's steps end processes and change nothing of the turns. *)
SupervisorStep ==
  /\ \E gone : Ended(gone)
  /\ ServerInv'
  /\ generation' >= generation /\ (client' # none => client # none \/ generation' # 0)

(* The process is the child of its launch. *)
LEMMA SpawnKeeps ==
  ASSUME ServerInv, NEW g \in Generations, Spawn(g)
  PROVE  SupervisorStep
<1>1. /\ launch[g] = "preparing" /\ launch' = [launch EXCEPT ![g] = "connecting"]
      /\ alive' = alive \cup {g} /\ child' = g /\ generation' = generation + 1
      /\ UNCHANGED <<exited, connection, stopping, restarts, host, client, draining, conn, wire>>
  BY DEF Spawn, hosting
<1>2. g = generation + 1 /\ g <= restarts + 1 /\ child = none /\ connection = none /\ g \notin exited
  BY <1>1, GenerationsNumbered DEF ServerInv, ServerTypes, Launched
<1>3. \A h \in Generations : launch[h] = "preparing" => h = g
  BY <1>2 DEF ServerInv, Launched
<1>4. ServerTypes'
  BY <1>1, <1>2, GenerationsNumbered DEF ServerInv, ServerTypes
<1>5. ASSUME NEW h \in Generations PROVE Launched(h)'
  <2>1. CASE h = g
    BY <1>1, <1>2, <2>1, GenerationsNumbered DEF ServerInv, ServerTypes, Launched
  <2>2. CASE h # g
    <3>1. launch'[h] = launch[h] /\ launch[h] # "preparing" /\ (h \in alive' <=> h \in alive)
      BY <1>1, <1>3, <2>2 DEF ServerInv, ServerTypes
    <3>2. h \in alive => launch[h] = "connecting"
      BY <1>2, GenerationsNumbered DEF ServerInv, Launched
    <3> QED
      BY <1>1, <3>1, <3>2, GenerationsNumbered DEF ServerInv, ServerTypes, Launched
  <2> QED
    BY <2>1, <2>2
<1>6. Ended({})
  BY DEF Spawn, Ended, server, directories
<1>7. generation' <= restarts' + 1
  BY <1>1, <1>2, GenerationsNumbered DEF ServerInv, ServerTypes
<1> QED
  BY <1>1, <1>2, <1>4, <1>5, <1>6, <1>7, GenerationsNumbered DEF ServerInv, ServerTypes, SupervisorStep

(* launch() that fails: with its process ends, for the host that waits for it, what it has
   started meanwhile. *)
LEMMA LaunchFailsKeeps ==
  ASSUME ServerInv, NEW g \in Generations, launch[g] \in {"preparing", "connecting"}, LaunchFails(g),
         UNCHANGED <<exited, generation, restarts, draining, turn, starting, sessions, directories,
                     wire, count, completed, foreign>>
  PROVE  SupervisorStep
<1> DEFINE stops == g = 1 /\ host = "starting" /\ ~stopping
           gone  == {g} \cup (IF stops THEN {child} ELSE {})
<1>1. /\ launch' = [launch EXCEPT ![g] = "failed"]
      /\ alive' = alive \ gone
      /\ conn' = [h \in Generations |-> IF h \in gone /\ conn[h] = "open" THEN "closing" ELSE conn[h]]
      /\ IF stops THEN stopping' = TRUE /\ child' = none /\ connection' = none
         ELSE UNCHANGED <<stopping, child, connection>>
      /\ host' \in {host, "up"} /\ client' \in {client, none}
  BY DEF LaunchFails, Gone, Hangup, HostStarts
<1>2. /\ working' = {w \in working : w.gen \notin gone}
      /\ interrupts' = {r \in interrupts : r[3] \notin gone}
  BY DEF LaunchFails, Gone
<1> HIDE DEF stops, gone
<1>3. gone \cap Generations \subseteq {g, child} /\ (stops => child \in gone) /\ g \in gone
  BY DEF gone
<1>4. \A h \in alive' : h \in alive /\ h # g /\ (stops => h # child)
  BY <1>1, <1>3
<1>5. ServerTypes'
  BY <1>1, <1>4, GenerationsNumbered DEF ServerInv, ServerTypes
<1>6. ASSUME NEW h \in Generations PROVE Launched(h)'
  <2>1. launch'[h] = (IF h = g THEN "failed" ELSE launch[h])
    BY <1>1 DEF ServerInv, ServerTypes
  <2>2. conn'[h] = conn[h] \/ (conn[h] = "open" /\ conn'[h] = "closing" /\ h \notin alive')
    BY <1>1
  <2>3. conn[g] = "none"
    BY DEF ServerInv, Launched
  <2>4. \/ child' = child /\ connection' = connection /\ stopping' = stopping
        \/ child' = none /\ connection' = none /\ stops
    BY <1>1
  <2>5. Launched(h)
    BY DEF ServerInv
  <2>6. h \in alive' => launch[h] = "connecting"
                        \/ (launch[h] = "connected" /\ child' = h /\ ~stopping')
    BY <1>4, <2>4, <2>5 DEF Launched
  <2>7. h \in alive' => h \in alive /\ h # g
    BY <1>4
  <2> QED
    BY <2>1, <2>2, <2>3, <2>4, <2>5, <2>6, <2>7 DEF Launched
<1>7. Ended(gone)
  BY <1>1, <1>2 DEF Ended
<1> QED
  BY <1>1, <1>5, <1>6, <1>7, GenerationsNumbered DEF ServerInv, ServerTypes, SupervisorStep

(* A connection is the child's. *)
LEMMA ConnectKeeps ==
  ASSUME ServerInv, NEW g \in Generations, Connect(g)
  PROVE  SupervisorStep
<1>1. /\ launch[g] = "connecting" /\ g \in alive /\ ~stopping /\ child = g
      /\ launch' = [launch EXCEPT ![g] = "connected"] /\ connection' = g
      /\ conn' = [conn EXCEPT ![g] = "open"]
      /\ UNCHANGED <<alive, exited, child, generation, stopping, restarts, draining, wire>>
  BY DEF Connect, LoopEnds
<1>2. host' \in {host, "up"} /\ client' \in {client, g}
  BY DEF Connect, HostStarts
<1>3. g = generation /\ \A h \in Generations : launch[h] = "preparing" => child = none
  BY <1>1, GenerationsNumbered DEF ServerInv, Launched
<1>4. ServerTypes'
  BY <1>1, <1>2 DEF ServerInv, ServerTypes
<1>5. ASSUME NEW h \in Generations PROVE Launched(h)'
  <2>1. CASE h = g
    BY <1>1, <1>3, <2>1, GenerationsNumbered DEF ServerInv, ServerTypes, Launched
  <2>2. CASE h # g
    <3>1. launch'[h] = launch[h] /\ launch[h] # "preparing" /\ conn'[h] = conn[h]
      BY <1>1, <1>3, <2>2, GenerationsNumbered DEF ServerInv, ServerTypes
    <3> QED
      BY <1>1, <3>1 DEF ServerInv, Launched
  <2> QED
    BY <2>1, <2>2
<1>6. Ended({})
  BY DEF Connect, Ended, server, directories
<1> QED
  BY <1>1, <1>2, <1>3, <1>4, <1>5, <1>6, GenerationsNumbered DEF ServerInv, ServerTypes, SupervisorStep

(* handleUnexpectedExit: the restart is the next generation's. *)
LEMMA SeeExitKeeps ==
  ASSUME ServerInv, NEW g \in Generations, SeeExit(g)
  PROVE  SupervisorStep
<1>1. /\ launch[g] \in {"connecting", "connected", "failed"} /\ g \notin alive
      /\ generation >= g /\ exited' = exited \cup {g}
      /\ UNCHANGED <<alive, generation, stopping, host, client, draining, conn, wire>>
  BY DEF SeeExit, hosting
<1>2. Ended({})
  BY DEF SeeExit, Ended, server, directories
<1>3. CASE UNCHANGED <<child, connection, restarts, launch>>
  <2>1. ServerTypes'
    BY <1>1, <1>3 DEF ServerInv, ServerTypes
  <2>2. \A h \in Generations : Launched(h)'
    BY <1>1, <1>3 DEF ServerInv, Launched
  <2> QED
    BY <1>1, <1>2, <1>3, <2>1, <2>2, GenerationsNumbered DEF ServerInv, ServerTypes, SupervisorStep
<1>4. CASE child = g /\ child' = none /\ connection' = none /\ UNCHANGED <<restarts, launch>>
  <2>1. ServerTypes'
    BY <1>1, <1>4 DEF ServerInv, ServerTypes
  <2>2. ASSUME NEW h \in Generations PROVE Launched(h)'
    <3>1. h \in alive => h # g
      BY <1>1
    <3> QED
      BY <1>1, <1>4, <3>1 DEF ServerInv, Launched
  <2> QED
    BY <1>1, <1>2, <1>4, <2>1, <2>2, GenerationsNumbered DEF ServerInv, ServerTypes, SupervisorStep
<1>5. CASE /\ child = g /\ child' = none /\ connection' = none /\ restarts # RestartLimit
           /\ restarts' = restarts + 1 /\ launch' = [launch EXCEPT ![g + 1] = "preparing"]
  <2>1. g = generation /\ generation <= restarts + 1 /\ restarts + 1 <= RestartLimit
        /\ restarts \in Nat
    BY <1>5, GenerationsNumbered DEF ServerInv, ServerTypes
  <2>2. g + 1 \in Generations /\ restarts' \in 0 .. RestartLimit
    BY <1>5, <2>1, GenerationsNumbered
  <2>3. ServerTypes'
    BY <1>1, <1>5, <2>2 DEF ServerInv, ServerTypes
  <2>4. ASSUME NEW h \in Generations PROVE Launched(h)'
    <3>1. CASE h = g + 1
      <4>1. launch'[h] = "preparing"
        BY <1>5, <3>1 DEF ServerInv, ServerTypes
      <4>2. launch[h] \notin {"connecting", "connected"}
        BY <2>1, <3>1, GenerationsNumbered DEF ServerInv, Launched
      <4>3. Launched(h) /\ h \notin alive /\ h # g
        BY <2>1, <3>1, <4>2, GenerationsNumbered DEF ServerInv, Launched
      <4> QED
        BY <1>1, <1>5, <2>1, <3>1, <4>1, <4>2, <4>3 DEF Launched
    <3>2. CASE h # g + 1
      <4>1. launch'[h] = launch[h] /\ (launch[h] = "preparing" => FALSE)
        BY <1>5, <2>1, <3>2, GenerationsNumbered DEF ServerInv, ServerTypes, Launched
      <4>2. h \in alive => h # g
        BY <1>1
      <4>3. h \in alive => launch[h] = "connecting"
        BY <1>5, <4>2 DEF ServerInv, Launched
      <4>4. h \in exited' => h <= generation
        BY <1>1, <2>1, GenerationsNumbered DEF ServerInv, Launched
      <4>5. h \in alive => h \notin exited'
        BY <1>1, <4>2 DEF ServerInv, Launched
      <4> QED
        BY <1>1, <4>1, <4>3, <4>4, <4>5 DEF ServerInv, Launched
    <3> QED
      BY <3>1, <3>2
  <2>5. generation' <= restarts' + 1
    BY <1>1, <1>5, <2>1, GenerationsNumbered
  <2> QED
    BY <1>1, <1>2, <1>5, <2>3, <2>4, <2>5, GenerationsNumbered DEF ServerInv, ServerTypes, SupervisorStep
<1> QED
  BY <1>3, <1>4, <1>5 DEF SeeExit

(* The app-server crashes. *)
LEMMA ExitKeeps ==
  ASSUME ServerInv, NEW g \in Generations, Exit(g)
  PROVE  SupervisorStep
<1>1. /\ alive' = alive \ {g}
      /\ conn' = [h \in Generations |-> IF h \in {g} /\ conn[h] = "open" THEN "closing" ELSE conn[h]]
      /\ UNCHANGED <<launch, exited, child, connection, generation, stopping, restarts, host, client,
                     draining, wire>>
  BY DEF Exit, Gone, Hangup, hosting
<1>2. Ended({g})
  BY DEF Exit, Gone, Ended, directories
<1>3. ServerTypes'
  BY <1>1 DEF ServerInv, ServerTypes
<1>4. ASSUME NEW h \in Generations PROVE Launched(h)'
  <2>1. conn'[h] = conn[h] \/ (h = g /\ conn[h] = "open" /\ conn'[h] = "closing")
    BY <1>1
  <2> QED
    BY <1>1, <2>1 DEF ServerInv, Launched
<1> QED
  BY <1>1, <1>2, <1>3, <1>4, GenerationsNumbered DEF ServerInv, ServerTypes, SupervisorStep

(* stop() of the host. *)
LEMMA HostStopsKeeps ==
  ASSUME ServerInv, HostStops
  PROVE  SupervisorStep
<1>1. /\ host' = "stopped"
      /\ UNCHANGED <<launch, exited, generation, restarts, client, draining, wire>>
  BY DEF HostStops
<1>2. CASE UNCHANGED <<stopping, child, connection, alive, working, interrupts, conn>>
  <2>1. Ended({})
    BY <1>2 DEF HostStops, Ended, directories, counters
  <2> QED
    BY <1>1, <1>2, <2>1, GenerationsNumbered DEF ServerInv, ServerTypes, Launched, SupervisorStep
<1>3. CASE SupervisorStops
  <2>1. /\ stopping' = TRUE /\ connection' = none /\ child' = none /\ alive' = alive \ {child}
        /\ conn' = [h \in Generations |->
             IF h \in {child, connection} /\ conn[h] = "open" THEN "closing" ELSE conn[h]]
    BY <1>3 DEF SupervisorStops, Gone, Hangup
  <2>2. Ended({child})
    BY <1>3 DEF HostStops, SupervisorStops, Gone, Ended, directories, counters
  <2>3. ServerTypes'
    BY <1>1, <2>1 DEF ServerInv, ServerTypes
  <2>4. ASSUME NEW h \in Generations PROVE Launched(h)'
    <3>1. conn'[h] = conn[h] \/ (h = child /\ conn[h] = "open" /\ conn'[h] = "closing")
      BY <2>1, GenerationsNumbered DEF ServerInv
    <3>2. h \in alive' => h \in alive /\ h # child
      BY <2>1
    <3> QED
      BY <1>1, <2>1, <3>1, <3>2 DEF ServerInv, Launched
  <2> QED
    BY <1>1, <2>1, <2>2, <2>3, <2>4, GenerationsNumbered DEF ServerInv, ServerTypes, SupervisorStep
<1> QED
  BY <1>2, <1>3 DEF HostStops

-----------------------------------------------------------------------------
(* The queue of a turn. *)

(* A set of numbers that has 0, and with each the next, has all. *)
LEMMA Counted ==
  ASSUME NEW S, 0 \in S, \A n \in Nat : n \in S => n + 1 \in S
  PROVE  \A n \in Nat : n \in S
<1> DEFINE R == OpToRel(<, Nat)
           T == Nat \ S
<1>1. IsWellFoundedOn(R, Nat)
  BY NatLessThanWellFounded
<1>2. \A x, y \in Nat : <<x, y>> \in R <=> x < y
  BY DEF OpToRel
<1> HIDE DEF R
<1>3. SUFFICES ASSUME T # {} PROVE FALSE
  OBVIOUS
<1>4. PICK m \in T : \A s \in T : ~(<<s, m>> \in R)
  BY <1>1, <1>3, WFMin
<1>5. m # 0 /\ m - 1 \in Nat /\ m - 1 < m
  OBVIOUS
<1>6. m - 1 \in S
  BY <1>2, <1>4, <1>5
<1> QED
  BY <1>5, <1>6

(* What holds of the queue of a turn when it is subscribed, and still when an event of its
   own has been delivered to it, holds of the queue with all that arrived before, however
   much. *)
LEMMA QueueRead ==
  ASSUME NEW i \in Issues, NEW X, starting[i] \in Seq(Messages),
         [turn[i] EXCEPT !.pc = "streaming", !.fed = <<Message("started", i, turn[i].no)>>] \in X,
         \A k \in 1 .. Len(starting[i]), t \in X :
           Own(turn[i], starting[i][k]) => Delivered(t, starting[i][k]) \in X
  PROVE  Subscribed(i) \in X
<1> DEFINE n == Len(starting[i])
           base == [turn[i] EXCEPT !.pc = "streaming", !.fed = <<Message("started", i, turn[i].no)>>]
           read(t, k) == IF Own(turn[i], starting[i][k]) THEN Delivered(t, starting[i][k]) ELSE t
<1> DEFINE Is(f, m) == f = [k \in 0 .. m |-> IF k = 0 THEN base ELSE read(f[k - 1], k)]
           queue == CHOOSE f : Is(f, n)
           E == {m \in Nat : \E f : Is(f, m)}
<1>0. Subscribed(i) = queue[n]
  BY DEF Subscribed
<1>n. n \in Nat /\ base \in X /\ \A k \in 1 .. n, t \in X : read(t, k) \in X
  OBVIOUS
<1> HIDE DEF n, base, read
<1>1. 0 \in E
  <2>1. Is([k \in 0 .. 0 |-> base], 0)
    OBVIOUS
  <2> QED
    BY <2>1
<1>2. ASSUME NEW m \in Nat, m \in E PROVE m + 1 \in E
  <2>1. PICK f : Is(f, m)
    BY <1>2
  <2> DEFINE h == [k \in 0 .. m + 1 |-> IF k = m + 1 THEN read(f[m], m + 1) ELSE f[k]]
  <2>2. ASSUME NEW k \in 0 .. m + 1
        PROVE  h[k] = IF k = 0 THEN base ELSE read(h[k - 1], k)
    <3>1. CASE k = 0
      BY <2>1, <3>1
    <3>2. CASE k = m + 1
      BY <3>2
    <3>3. CASE k # 0 /\ k # m + 1
      <4>1. k \in 0 .. m /\ k - 1 \in 0 .. m /\ k - 1 # m + 1 /\ k - 1 \in 0 .. m + 1
        BY <3>3
      <4>2. h[k] = f[k] /\ h[k - 1] = f[k - 1]
        BY <3>3, <4>1
      <4>3. f[k] = read(f[k - 1], k)
        BY <2>1, <3>3, <4>1
      <4> QED
        BY <3>3, <4>2, <4>3
    <3> QED
      BY <3>1, <3>2, <3>3
  <2>3. Is(h, m + 1)
    BY <2>2
  <2> HIDE DEF h, Is
  <2> QED
    BY <2>3
<1>3. n \in E
  <2> HIDE DEF E
  <2> QED
    BY <1>1, <1>2, <1>n, Counted
<1>4. Is(queue, n)
  <2>1. \E f : Is(f, n)
    BY <1>3
  <2> QED
    BY <2>1
<1> HIDE DEF queue
<1> DEFINE S == {k \in Nat : k <= n => queue[k] \in X}
<1>5. 0 \in S
  BY <1>4, <1>n
<1>6. ASSUME NEW k \in Nat, k \in S PROVE k + 1 \in S
  <2>1. SUFFICES ASSUME k + 1 <= n PROVE queue[k + 1] \in X
    BY <1>n
  <2>2. k + 1 \in 0 .. n /\ k + 1 \in 1 .. n /\ k + 1 # 0 /\ (k + 1) - 1 = k /\ k <= n
    BY <1>n, <2>1
  <2>3. queue[k + 1] = read(queue[k], k + 1)
    BY <1>4, <2>2
  <2> QED
    BY <1>6, <1>n, <2>2, <2>3
<1>7. n \in S
  <2> HIDE DEF S
  <2> QED
    BY <1>5, <1>6, <1>n, Counted
<1> QED
  BY <1>0, <1>7, <1>n

(* An event that is so keeps a queue what is read of it, and what else the turn knows. *)
LEMMA DeliveredReads ==
  ASSUME NEW i \in Issues, NEW t \in Turns, Reads(i, t), t.no = turn[i].no,
         NEW m \in Messages, m.issue = i, m.no = t.no, m.kind \notin Answers, So(m)
  PROVE  /\ Delivered(t, m) \in Turns /\ Reads(i, Delivered(t, m))
         /\ \A f \in {"pc", "gen", "no", "aborted", "asked", "last", "runs"} :
              Delivered(t, m)[f] = t[f]
<1>1. CASE t.ended # "no"
  BY <1>1 DEF Delivered
<1>2. CASE t.ended = "no" /\ m.kind = "refused"
  <2>1. Delivered(t, m) = [t EXCEPT !.ended = "failed"]
    BY <1>2 DEF Delivered
  <2>2. \A w \in working : ~(w.issue = i /\ w.no = t.no)
    BY <1>2 DEF So, Of
  <2> QED
    BY <2>1, <2>2 DEF Turns, Reads
<1>3. CASE t.ended = "no" /\ m.kind # "refused"
  <2> DEFINE end == IF m.kind = "interrupted" THEN "failed"
                    ELSE IF m.kind \in {"completed", "failed"} THEN "done" ELSE "no"
             fed == Append(t.fed, m)
  <2>1. Delivered(t, m) = [t EXCEPT !.fed = fed, !.ended = end]
    <3>1. CASE m.kind \in {"completed", "failed", "interrupted"}
      BY <1>3, <3>1 DEF Delivered
    <3>2. CASE m.kind \notin {"completed", "failed", "interrupted"}
      <4>1. Delivered(t, m) = [t EXCEPT !.fed = fed] /\ end = "no"
        BY <1>3, <3>2 DEF Delivered
      <4> QED
        BY <1>3, <4>1 DEF Turns
    <3> QED
      BY <3>1, <3>2
  <2>2. fed \in Seq(Messages) /\ Len(fed) = Len(t.fed) + 1 /\ fed[Len(t.fed) + 1] = m
        /\ \A k \in 1 .. Len(t.fed) : fed[k] = t.fed[k]
    BY DEF Turns
  <2>3. \A k \in 1 .. Len(fed) : Fed(i, t.no, fed[k])
    <3>1. Fed(i, t.no, m)
      BY <1>3 DEF Fed, Messages, Kinds
    <3> QED
      BY <2>2, <3>1 DEF Reads, Turns
  <2>4. end # "no" => \A w \in working : ~(w.issue = i /\ w.no = t.no)
    BY <1>3 DEF So, Of, Ends
  <2>5. end = "done" => <<i, t.no>> \in completed \/ \E k \in 1 .. Len(fed) : fed[k].kind = "failed"
    <3>1. Len(t.fed) + 1 \in 1 .. Len(fed)
      BY <2>2 DEF Turns
    <3> QED
      BY <2>2, <3>1 DEF So
  <2>6. end \in {"no", "done", "failed"}
    OBVIOUS
  <2> HIDE DEF fed, end
  <2>7. Delivered(t, m) \in Turns
    BY <2>1, <2>2, <2>6 DEF Turns
  <2>8. /\ Delivered(t, m).fed = fed /\ Delivered(t, m).ended = end
        /\ \A f \in {"pc", "gen", "no", "aborted", "asked", "last", "runs"} : Delivered(t, m)[f] = t[f]
    BY <2>1 DEF Turns
  <2>9. Delivered(t, m).no = t.no /\ Delivered(t, m).last = t.last
    BY <2>8
  <2> QED
    BY <2>3, <2>4, <2>5, <2>7, <2>8, <2>9 DEF Reads
<1> QED
  BY <1>1, <1>2, <1>3

(* The queue with which a turn is subscribed is read as one of its own. *)
LEMMA SubscribedReads ==
  ASSUME TurnInv, NEW i \in Issues, turn[i].pc = "starting", turn[i].no # 0
  PROVE  /\ Subscribed(i) \in Turns /\ Reads(i, Subscribed(i)) /\ Subscribed(i).pc = "streaming"
         /\ Subscribed(i).no = turn[i].no /\ Subscribed(i).gen = turn[i].gen
         /\ Subscribed(i).aborted = turn[i].aborted /\ Subscribed(i).asked = turn[i].asked
         /\ Subscribed(i).last = turn[i].last
<1> DEFINE X == {t \in Turns : /\ Reads(i, t) /\ t.pc = "streaming"
                                /\ t.no = turn[i].no /\ t.gen = turn[i].gen
                                /\ t.aborted = turn[i].aborted /\ t.asked = turn[i].asked
                                /\ t.last = turn[i].last}
           start == Message("started", i, turn[i].no)
           base == [turn[i] EXCEPT !.pc = "streaming", !.fed = <<start>>]
<1>1. turn[i] \in Turns /\ starting[i] \in Seq(Messages)
  BY DEF TurnInv, TurnTypes
<1>2. turn[i].ended = "no" /\ turn[i].last = 0
  BY DEF TurnInv, Placed
<1>3. start \in Messages /\ Fed(i, turn[i].no, start)
  BY <1>1 DEF Message, Messages, Kinds, Fed, Turns
<1>4. base \in Turns /\ base.fed = <<start>> /\ base.ended = "no" /\ base.last = 0 /\ base.no = turn[i].no
      /\ base.pc = "streaming" /\ base.gen = turn[i].gen /\ base.aborted = turn[i].aborted
      /\ base.asked = turn[i].asked
  <2> HIDE DEF start
  <2>1. <<start>> \in Seq(Messages)
    BY <1>3
  <2> DEFINE fed == <<start>>
  <2> HIDE DEF fed
  <2>2. fed \in Seq(Messages)
    BY <2>1 DEF fed
  <2>3. /\ [turn[i] EXCEPT !.pc = "streaming", !.fed = fed] \in Turns
        /\ \A b : b = [turn[i] EXCEPT !.pc = "streaming", !.fed = fed] =>
             /\ b.fed = fed /\ b.ended = "no" /\ b.last = 0 /\ b.no = turn[i].no
             /\ b.pc = "streaming" /\ b.gen = turn[i].gen /\ b.aborted = turn[i].aborted
             /\ b.asked = turn[i].asked
    BY <1>1, <1>2, <2>2 DEF Turns, Pcs
  <2> QED
    BY <2>3 DEF fed
<1> HIDE DEF base, start
<1>5. base \in X
  <2>1. \A k \in 1 .. Len(base.fed) : base.fed[k] = start
    BY <1>4
  <2> QED
    BY <1>2, <1>3, <1>4, <2>1 DEF Reads
<1>6. ASSUME NEW k \in 1 .. Len(starting[i]), NEW t \in X, Own(turn[i], starting[i][k])
      PROVE  Delivered(t, starting[i][k]) \in X
  <2> DEFINE m == starting[i][k]
  <2>1. m \in Messages /\ m.issue = i /\ m.no = t.no /\ So(m) /\ m.kind \notin Answers
    BY <1>1, <1>6 DEF TurnInv, Buffers, Own, Answers, Ends
  <2>2. /\ Delivered(t, m) \in Turns /\ Reads(i, Delivered(t, m))
        /\ \A f \in {"pc", "gen", "no", "aborted", "asked", "last", "runs"} : Delivered(t, m)[f] = t[f]
    <3> HIDE DEF m
    <3> QED
      BY <2>1, DeliveredReads
  <2> HIDE DEF m
  <2>3. /\ Delivered(t, m).pc = t.pc /\ Delivered(t, m).no = t.no /\ Delivered(t, m).gen = t.gen
        /\ Delivered(t, m).aborted = t.aborted /\ Delivered(t, m).asked = t.asked
        /\ Delivered(t, m).last = t.last
    BY <2>2
  <2> QED
    BY <2>2, <2>3 DEF m
<1>7. Subscribed(i) \in X
  <2> HIDE DEF X
  <2> QED
    BY <1>1, <1>5, <1>6, QueueRead DEF base, start
<1> QED
  BY <1>7

-----------------------------------------------------------------------------
(* Every step of the supervisor, and the end of a process. *)
LEMMA SupervisorKeeps ==
  ASSUME AgentInv, SupervisorNext \/ \E g \in Generations : Exit(g)
  PROVE  AgentInv'
<1>1. SupervisorStep
  <2>1. ASSUME NEW g \in Generations, VerificationFails(g) PROVE SupervisorStep
    BY <2>1, LaunchFailsKeeps DEF AgentInv, VerificationFails
  <2>2. ASSUME NEW g \in Generations, Abandon(g) PROVE SupervisorStep
    BY <2>2, LaunchFailsKeeps DEF AgentInv, Abandon
  <2> QED
    BY <2>1, <2>2, SpawnKeeps, ConnectKeeps, SeeExitKeeps, ExitKeeps, HostStopsKeeps
    DEF AgentInv, SupervisorNext
<1>2. PICK gone : Ended(gone)
  BY <1>1 DEF SupervisorStep
<1>3. TurnInv'
  BY <1>2, EndKeeps DEF AgentInv
<1>4. ServerInv' /\ generation' >= generation /\ (client' # none => client # none \/ generation' # 0)
  BY <1>1 DEF SupervisorStep
<1>5. generation \in Nat /\ generation' \in Nat
  BY <1>4, GenerationsNumbered DEF AgentInv, ServerInv, ServerTypes
<1>6. (generation # 0 => generation' # 0) /\ (generation' <= 1 => generation <= 1)
  BY <1>4, <1>5
<1>7. UNCHANGED <<turn, temp, removing, foreign>>
  BY <1>2 DEF Ended, directories
<1>8. TempInv'
  BY <1>4, <1>6, <1>7 DEF AgentInv, TempInv
<1> QED
  BY <1>3, <1>4, <1>7, <1>8 DEF AgentInv, ResultIsOwn

-----------------------------------------------------------------------------
(* The turns. *)

(* What is so stays so: numbers are given once, a turn that ended does not work again, and
   what completed is kept as long as its turn is. *)
LEMMA StillSo ==
  ASSUME \A j \in Issues : count[j] \in Nat /\ count'[j] \in Nat /\ count'[j] >= count[j],
         \A w \in working' :
           \/ w.no > count[w.issue]
           \/ \E v \in working : v.issue = w.issue /\ v.no = w.no /\ (v.retried => w.retried),
         \A j \in Issues :
           \/ turn'[j].no = 0 \/ turn'[j].no > count[j]
           \/ /\ turn'[j].no = turn[j].no
              /\ <<j, turn[j].no>> \in completed => <<j, turn[j].no>> \in completed'
  PROVE  \A m \in Messages : So(m) => So(m)'
<1> SUFFICES ASSUME NEW m \in Messages, So(m) PROVE So(m)'
  OBVIOUS
<1>1. m.no # 0 /\ m.no <= count[m.issue] /\ m.issue \in Issues /\ m.no \in Nat
  BY DEF So, Messages
<1>2. m.no <= count'[m.issue]
  BY <1>1
<1>3. ASSUME NEW w \in working', Of(w, m)
      PROVE  \E v \in working : Of(v, m) /\ (v.retried => w.retried)
  BY <1>1, <1>3 DEF Of
<1>4. turn'[m.issue].no = m.no => /\ turn[m.issue].no = m.no
                                  /\ <<m.issue, m.no>> \in completed => <<m.issue, m.no>> \in completed'
  <2> DEFINE j == m.issue
             no == m.no
  <2>1. \/ turn'[j].no = 0 \/ turn'[j].no > count[j]
        \/ /\ turn'[j].no = turn[j].no
           /\ <<j, turn[j].no>> \in completed => <<j, turn[j].no>> \in completed'
    BY <1>1
  <2>2. no # 0 /\ no <= count[j] /\ count[j] \in Nat /\ no \in Nat
    BY <1>1
  <2> HIDE DEF j, no
  <2>3. turn'[j].no = no => ~(turn'[j].no > count[j]) /\ turn'[j].no # 0
    BY <2>2
  <2>4. turn'[j].no = no => /\ turn[j].no = no
                            /\ <<j, no>> \in completed => <<j, no>> \in completed'
    BY <2>1, <2>3
  <2> QED
    BY <2>4 DEF j, no
<1> QED
  BY <1>1, <1>2, <1>3, <1>4 DEF So

(* What is read of a queue stays so with it. *)
LEMMA ReadsStay ==
  ASSUME NEW i \in Issues, NEW t \in Turns, Reads(i, t),
         \A m \in Messages : So(m) => So(m)',
         \A w \in working' : w.issue = i /\ w.no = t.no =>
           \E v \in working : v.issue = i /\ v.no = t.no,
         <<i, t.no>> \in completed => <<i, t.no>> \in completed'
  PROVE  Reads(i, t)'
<1>1. \A m \in Messages : Fed(i, t.no, m) => Fed(i, t.no, m)'
  BY DEF Fed
<1>2. \A k \in 1 .. Len(t.fed) : t.fed[k] \in Messages
  BY DEF Turns
<1>3. \A k \in 1 .. Len(t.fed) : Fed(i, t.no, t.fed[k])'
  BY <1>1, <1>2 DEF Reads
<1> QED
  BY <1>3 DEF Reads

(* What a turn is after a step is what the step says of it. *)
LEMMA StreamedIs ==
  ASSUME NEW i \in Issues, NEW t \in Turns, turn'[i] = t,
         t.pc = "streaming" => Reads(i, t)',
         t.pc = "streaming" /\ t.aborted =>
           \A w \in working' : w.issue = i /\ w.no = t.no => <<i, t.no, t.gen>> \in interrupts'
  PROVE  Streamed(i)'
<1>1. ASSUME t.pc = "streaming" PROVE Reads(i, turn[i])'
  <2>1. ASSUME NEW k \in 1 .. Len(turn'[i].fed) PROVE Fed(i, turn[i].no, turn[i].fed[k])'
    <3>1. PICK m \in Messages : m = t.fed[k]
      BY <2>1 DEF Turns
    <3>2. Fed(i, t.no, t.fed[k])'
      BY <1>1, <2>1 DEF Reads
    <3>3. Fed(i, t.no, m)'
      BY <3>1, <3>2 DEF Fed, So, Of
    <3> QED
      BY <3>1, <3>3 DEF Fed, So, Of
  <2>2. t.no # 0 /\ t.last \in {0, t.no}
    BY <1>1 DEF Reads
  <2>3. t.ended # "no" => \A w \in working' : ~(w.issue = i /\ w.no = t.no)
    BY <1>1 DEF Reads
  <2>4. t.ended = "done" => \/ <<i, t.no>> \in completed'
                            \/ \E k \in 1 .. Len(t.fed) : t.fed[k].kind = "failed"
    BY <1>1 DEF Reads
  <2> QED
    BY <2>1, <2>2, <2>3, <2>4 DEF Reads
<1> QED
  BY <1>1 DEF Streamed

(* A step that has nothing to do with the turns leaves them as they were. *)
LEMMA StreamedStays ==
  ASSUME NEW i \in Issues, turn[i] \in Turns, Streamed(i),
         UNCHANGED <<turn, working, count, completed, interrupts>>
  PROVE  Streamed(i)'
<1>1. PICK t \in Turns : t = turn[i]
  OBVIOUS
<1>2. \A m \in Messages : So(m) => So(m)'
  BY DEF So, Of
<1>3. ASSUME t.pc = "streaming" PROVE Reads(i, t)'
  <2>1. Reads(i, t)
    BY <1>1, <1>3 DEF Streamed
  <2> QED
    BY <1>2, <2>1, ReadsStay
<1>4. t.pc = "streaming" /\ t.aborted =>
        \A w \in working' : w.issue = i /\ w.no = t.no => <<i, t.no, t.gen>> \in interrupts'
  BY <1>1 DEF Streamed
<1> QED
  BY <1>1, <1>3, <1>4, StreamedIs

(* A step of one Issue's turn, which is still of its number and its connection, or of none. *)
LEMMA TurnChanges ==
  ASSUME TurnInv, NEW i \in Issues, NEW t \in Turns, NEW buffer \in Seq(Messages),
         turn' = [turn EXCEPT ![i] = t], starting' = [starting EXCEPT ![i] = buffer],
         UNCHANGED <<alive, working, count>>,
         sessions' \subseteq Issues, temp' \subseteq Issues, removing' \subseteq Issues,
         interrupts \subseteq interrupts',
         interrupts' \subseteq interrupts \cup {<<i, t.no, t.gen>>},
         interrupts' # interrupts => t.no # 0 /\ t.gen \in Generations,
         completed' \subseteq completed,
         \A c \in completed : c \in completed' \/ (c[1] = i /\ t.no = 0),
         t.no = 0 \/ (t.no = turn[i].no /\ t.gen = turn[i].gen),
         wire' \in [Generations -> Seq(Messages)],
         (\A m \in Messages : So(m) => So(m)')
           => \A g \in Generations : AnsweredOnce(g)' /\ Told(g)',
         turn[i].pc \in {"starting", "streaming"} =>
           \/ t.pc \in {"starting", "streaming"} /\ t.no # 0
           \/ \A w \in working : w.issue = i /\ w.no = turn[i].no =>
                w.cli \/ w.retried \/ <<w.issue, w.no, w.gen>> \in interrupts',
         Buffers(i)', Placed(i)', Streamed(i)'
  PROVE  TurnInv'
<1>0. turn'[i] = t /\ starting'[i] = buffer /\ turn[i] \in Turns
      /\ \A j \in Issues : j # i => turn'[j] = turn[j] /\ starting'[j] = starting[j]
  BY DEF TurnInv, TurnTypes
<1>t. t.no \in Nat /\ (t.no # 0 => t.no <= count[i] /\ turn[i].no = t.no /\ turn[i].gen = t.gen)
  BY DEF TurnInv, Placed, Turns
<1>1. \A m \in Messages : So(m) => So(m)'
  <2>1. \A j \in Issues : count[j] \in Nat /\ count'[j] \in Nat /\ count'[j] >= count[j]
    BY DEF TurnInv, TurnTypes
  <2>2. ASSUME NEW j \in Issues
        PROVE  \/ turn'[j].no = 0
               \/ /\ turn'[j].no = turn[j].no
                  /\ <<j, turn[j].no>> \in completed => <<j, turn[j].no>> \in completed'
    <3>1. CASE j = i
      BY <1>0, <3>1
    <3>2. CASE j # i
      BY <1>0, <3>2
    <3> QED
      BY <3>1, <3>2
  <2>3. \A w \in working' :
          \E v \in working : v.issue = w.issue /\ v.no = w.no /\ (v.retried => w.retried)
    OBVIOUS
  <2> QED
    BY <2>1, <2>2, <2>3, StillSo
<1>2. \A g \in Generations : AnsweredOnce(g)' /\ Told(g)'
  BY <1>1
<1>3. Worked'
  <2>1. ASSUME NEW w \in working, turn'[w.issue].no = w.no PROVE turn'[w.issue].gen = w.gen
    <3>1. w.no # 0 /\ w.issue \in Issues /\ (turn[w.issue].no = w.no => turn[w.issue].gen = w.gen)
      BY DEF TurnInv, TurnTypes, Worked, Works
    <3> QED
      BY <1>0, <1>t, <2>1, <3>1
  <2> QED
    BY <2>1 DEF TurnInv, Worked
<1>4. Interrupted'
  <2>1. ASSUME NEW r \in interrupts'
        PROVE  /\ r[2] # 0 /\ r[2] <= count[r[1]]
               /\ turn'[r[1]].no = r[2] => turn'[r[1]].gen = r[3]
               /\ \A w \in working : w.issue = r[1] /\ w.no = r[2] => w.gen = r[3]
    <3>1. CASE r \in interrupts
      <4>1. r[1] \in Issues /\ r[2] # 0 /\ (turn[r[1]].no = r[2] => turn[r[1]].gen = r[3])
        BY <3>1 DEF TurnInv, TurnTypes, Interrupted
      <4>2. turn'[r[1]].no = r[2] => turn'[r[1]].gen = r[3]
        BY <1>0, <1>t, <4>1
      <4> QED
        BY <3>1, <4>2 DEF TurnInv, Interrupted
    <3>2. CASE r = <<i, t.no, t.gen>> /\ t.no # 0
      <4>1. \A w \in working : w.issue = i /\ w.no = t.no => w.gen = t.gen
        BY <1>t, <3>2 DEF TurnInv, Worked
      <4> QED
        BY <1>0, <1>t, <3>2, <4>1
    <3> QED
      BY <3>1, <3>2
  <2> QED
    BY <2>1 DEF Interrupted
<1>5. TurnsAreWatched'
  <2>1. ASSUME NEW w \in working, ~(w.cli \/ w.retried), <<w.issue, w.no, w.gen>> \notin interrupts'
        PROVE  turn'[w.issue].no = w.no /\ turn'[w.issue].pc \in {"starting", "streaming"}
    <3>1. turn[w.issue].no = w.no /\ turn[w.issue].pc \in {"starting", "streaming"}
      BY <2>1 DEF TurnInv, TurnsAreWatched
    <3>2. w.issue \in Issues
      BY DEF TurnInv, TurnTypes, Works
    <3>3. CASE w.issue = i
      <4>1. t.pc \in {"starting", "streaming"} /\ t.no # 0
        BY <2>1, <3>1, <3>3
      <4> QED
        BY <1>0, <1>t, <3>1, <3>3, <4>1
    <3>4. CASE w.issue # i
      BY <1>0, <3>1, <3>2, <3>4
    <3> QED
      BY <3>3, <3>4
  <2> QED
    BY <2>1 DEF TurnsAreWatched
<1>6. TurnTypes'
  <2>1. interrupts' \subseteq Issues \X Nat \X Generations
    <3>1. CASE interrupts' = interrupts
      BY <3>1 DEF TurnInv, TurnTypes
    <3>2. CASE t.gen \in Generations
      BY <1>t, <3>2 DEF TurnInv, TurnTypes
    <3> QED
      BY <3>1, <3>2
  <2> QED
    BY <2>1 DEF TurnInv, TurnTypes
<1>7. ASSUME NEW j \in Issues PROVE Buffers(j)' /\ Placed(j)' /\ Streamed(j)'
  <2>1. CASE j = i
    BY <2>1
  <2>2. CASE j # i
    <3>1. turn'[j] = turn[j] /\ starting'[j] = starting[j]
      BY <1>0, <2>2
    <3>2. Buffers(j)'
      <4>1. \A k \in 1 .. Len(starting[j]) : starting[j][k] \in Messages
        BY DEF TurnInv, TurnTypes
      <4>2. ASSUME NEW k \in 1 .. Len(starting'[j]) PROVE So(starting[j][k])'
        <5>1. PICK m \in Messages : m = starting[j][k]
          BY <3>1, <4>1
        <5>2. So(m)
          BY <3>1, <5>1 DEF TurnInv, Buffers
        <5>3. So(m)'
          BY <1>1, <5>2
        <5> QED
          BY <3>1, <5>1, <5>3 DEF So, Of
      <4> QED
        BY <3>1, <4>2 DEF TurnInv, Buffers
    <3>3. Placed(j)'
      BY <3>1 DEF TurnInv, Placed
    <3>4. Streamed(j)'
      <4>1. \A u \in Turns : Reads(j, u) => Reads(j, u)'
        <5>1. \A n : <<j, n>> \in completed => <<j, n>> \in completed'
          BY <2>2
        <5> QED
          BY <1>1, <5>1, ReadsStay
      <4>2. turn[j] \in Turns
        BY DEF TurnInv, TurnTypes
      <4> QED
        BY <3>1, <4>1, <4>2 DEF TurnInv, Streamed
    <3> QED
      BY <3>2, <3>3, <3>4
  <2> QED
    BY <2>1, <2>2
<1> QED
  BY <1>2, <1>3, <1>4, <1>5, <1>6, <1>7 DEF TurnInv

(* So is a step that receives at most what is first on the wire. *)
LEMMA TurnMoves ==
  ASSUME TurnInv, NEW i \in Issues, NEW t \in Turns, NEW buffer \in Seq(Messages),
         turn' = [turn EXCEPT ![i] = t], starting' = [starting EXCEPT ![i] = buffer],
         UNCHANGED <<alive, working, count>>,
         sessions' \subseteq Issues, temp' \subseteq Issues, removing' \subseteq Issues,
         interrupts \subseteq interrupts',
         interrupts' \subseteq interrupts \cup {<<i, t.no, t.gen>>},
         interrupts' # interrupts => t.no # 0 /\ t.gen \in Generations,
         completed' \subseteq completed,
         \A c \in completed : c \in completed' \/ (c[1] = i /\ t.no = 0),
         t.no = 0 \/ (t.no = turn[i].no /\ t.gen = turn[i].gen),
         wire' \in [Generations -> Seq(Messages)],
         \A g \in Generations : wire'[g] = wire[g] \/ (wire[g] # <<>> /\ wire'[g] = Tail(wire[g])),
         \/ t.pc = turn[i].pc /\ t.gen = turn[i].gen /\ t.asked = turn[i].asked
         \/ \A g \in Generations, k \in Nat :
              k \in 1 .. Len(wire'[g]) /\ wire'[g][k].kind \in Answers => wire'[g][k].issue # i,
         turn[i].pc \in {"starting", "streaming"} =>
           \/ t.pc \in {"starting", "streaming"} /\ t.no # 0
           \/ \A w \in working : w.issue = i /\ w.no = turn[i].no =>
                w.cli \/ w.retried \/ <<w.issue, w.no, w.gen>> \in interrupts',
         Buffers(i)', Placed(i)', Streamed(i)'
  PROVE  TurnInv'
<1>0. turn'[i] = t /\ \A j \in Issues : j # i => turn'[j] = turn[j]
  BY DEF TurnInv, TurnTypes
<1>1. SUFFICES ASSUME \A m \in Messages : So(m) => So(m)', NEW g \in Generations
               PROVE  AnsweredOnce(g)' /\ Told(g)'
  BY TurnChanges
<1>2. PICK d \in {0, 1} : /\ Len(wire'[g]) = Len(wire[g]) - d
                          /\ \A k \in 1 .. Len(wire'[g]) :
                               k + d \in 1 .. Len(wire[g]) /\ wire'[g][k] = wire[g][k + d]
  <2>1. wire[g] \in Seq(Messages)
    BY DEF TurnInv, TurnTypes
  <2>2. CASE wire'[g] = wire[g]
    BY <2>1, <2>2
  <2>3. CASE wire[g] # <<>> /\ wire'[g] = Tail(wire[g])
    BY <2>1, <2>3
  <2> QED
    BY <2>2, <2>3
<1>3. \A k \in 1 .. Len(wire'[g]) : wire'[g][k] \in Messages
  BY DEF TurnInv, TurnTypes
<1>4. \A m \in Messages :
        Asked(g, m) /\ (\/ m.issue # i
                        \/ t.pc = turn[i].pc /\ t.gen = turn[i].gen /\ t.asked = turn[i].asked)
        => Asked(g, m)'
  <2>1. \A m \in Messages : m.issue \in Issues
    BY DEF Messages
  <2> QED
    BY <1>0, <2>1 DEF Asked
<1>5. ASSUME NEW k \in 1 .. Len(wire'[g]), wire'[g][k].kind \in Answers
      PROVE  \E m \in Messages : m = wire'[g][k] /\ Asked(g, m)'
  <2>1. PICK m \in Messages : m = wire'[g][k]
    BY <1>3
  <2>2. Asked(g, m)
    BY <1>2, <1>5, <2>1 DEF TurnInv, AnsweredOnce
  <2>3. k \in Nat
    OBVIOUS
  <2> QED
    BY <1>4, <1>5, <2>1, <2>2, <2>3
<1>6. ASSUME NEW k \in 1 .. Len(wire'[g]), wire'[g][k].kind \in Answers
      PROVE  Asked(g, wire[g][k])'
  <2>1. PICK m \in Messages : m = wire'[g][k] /\ Asked(g, m)'
    BY <1>5, <1>6
  <2> QED
    BY <2>1 DEF Asked
<1>7. AnsweredOnce(g)'
  <2>1. ASSUME NEW k \in 1 .. Len(wire'[g]), NEW l \in 1 .. Len(wire'[g]),
               wire'[g][k].kind \in Answers, wire'[g][l].kind \in Answers,
               wire'[g][k].issue = wire'[g][l].issue
        PROVE  k = l
    <3>1. /\ k + d \in 1 .. Len(wire[g]) /\ wire[g][k + d] = wire'[g][k]
          /\ l + d \in 1 .. Len(wire[g]) /\ wire[g][l + d] = wire'[g][l]
      BY <1>2
    <3>2. \A p, q \in 1 .. Len(wire[g]) :
            /\ wire[g][p].kind \in Answers /\ wire[g][q].kind \in Answers
            /\ wire[g][p].issue = wire[g][q].issue
            => p = q
      BY DEF TurnInv, AnsweredOnce
    <3>3. k + d = l + d
      BY <2>1, <3>1, <3>2
    <3> QED
      BY <3>3
  <2> QED
    BY <1>6, <2>1 DEF AnsweredOnce
<1>8. Told(g)'
  <2>1. ASSUME NEW k \in 1 .. Len(wire'[g]), wire'[g][k].kind \notin Answers
        PROVE  So(wire[g][k])'
    <3>1. PICK m \in Messages : m = wire'[g][k]
      BY <1>3
    <3>2. So(m)
      BY <1>2, <2>1, <3>1 DEF TurnInv, Told
    <3>3. So(m)'
      BY <1>1, <3>2
    <3> QED
      BY <3>1, <3>3 DEF So, Of
  <2> QED
    BY <2>1 DEF Told
<1> QED
  BY <1>7, <1>8

(* An answer is for who waits for it. *)
LEMMA NoAnswer ==
  ASSUME TurnInv, ServerInv, NEW i \in Issues,
         \/ turn[i].pc \notin {"threading", "starting"}
         \/ turn[i].asked # "none"
         \/ turn[i].gen \in Generations /\ wire[turn[i].gen] = <<>>
  PROVE  \A g \in Generations, k \in Nat :
           k \in 1 .. Len(wire[g]) /\ wire[g][k].kind \in Answers => wire[g][k].issue # i
<1> SUFFICES ASSUME NEW g \in Generations, NEW k \in 1 .. Len(wire[g]), wire[g][k].kind \in Answers,
                    wire[g][k].issue = i
             PROVE  FALSE
  OBVIOUS
<1>1. Asked(g, wire[g][k])
  BY DEF TurnInv, AnsweredOnce
<1>2. wire[g] # <<>>
  OBVIOUS
<1> QED
  BY <1>1, <1>2 DEF Asked, Answers

(* A connection that closes is of a process that has ended, with all it worked on. *)
LEMMA ClosingIsGone ==
  ASSUME TurnInv, ServerInv, NEW g \in Generations, conn[g] \in {"closing", "closed"}
  PROVE  /\ \A w \in working : w.gen # g
         /\ conn[g] = "closed" => wire[g] = <<>>
BY DEF TurnInv, ServerInv, Worked, Launched

(* What the supervisor knows stays so when the turns and the client only take steps. *)
LEMMA ServerStays ==
  ASSUME ServerInv, UNCHANGED <<supervisor, host, conn>>,
         client' \in Generations \cup {none}, draining' \in BOOLEAN,
         \A g \in Generations : wire'[g] # <<>> => wire[g] # <<>> \/ conn[g] = "open"
  PROVE  ServerInv'
<1>1. UNCHANGED <<launch, alive, exited, child, connection, generation, stopping, restarts, host, conn>>
  BY DEF supervisor
<1>2. ServerTypes'
  BY <1>1 DEF ServerInv, ServerTypes
<1> QED
  BY <1>1, <1>2 DEF ServerInv, Launched

(* A turn that there is not, and one that starts. *)
LEMMA NoTurnTyped ==
  /\ NoTurn \in Turns /\ NoTurn.pc = "idle" /\ NoTurn.no = 0 /\ NoTurn.gen = none
  /\ NoTurn.last = 0 /\ NoTurn.ended = "no" /\ NoTurn.asked = "none"
  /\ \A t, runs : runs \in 0 .. 2 /\ t = [NoTurn EXCEPT !.pc = "opening", !.runs = runs] =>
       /\ t \in Turns /\ t.pc = "opening" /\ t.no = 0 /\ t.gen = none /\ t.last = 0
       /\ t.ended = "no" /\ t.asked = "none"
<1>1. <<>> \in Seq(Messages) /\ none \in Generations \cup {none}
  OBVIOUS
<1>2. NoTurn \in Turns
  BY <1>1 DEF NoTurn, Turns, Pcs, none
<1>3. /\ NoTurn.pc = "idle" /\ NoTurn.no = 0 /\ NoTurn.gen = none
      /\ NoTurn.last = 0 /\ NoTurn.ended = "no" /\ NoTurn.asked = "none"
  BY DEF NoTurn
<1>4. ASSUME NEW t, NEW runs \in 0 .. 2, t = [NoTurn EXCEPT !.pc = "opening", !.runs = runs]
      PROVE  /\ t \in Turns /\ t.pc = "opening" /\ t.no = 0 /\ t.gen = none /\ t.last = 0
             /\ t.ended = "no" /\ t.asked = "none"
  BY <1>2, <1>3, <1>4 DEF Turns, Pcs
<1> QED
  BY <1>2, <1>3, <1>4

(* stageTurn. *)
LEMMA StageTurnKeeps ==
  ASSUME AgentInv, NEW i \in Issues, StageTurn(i)
  PROVE  AgentInv'
<1> DEFINE t == [NoTurn EXCEPT !.pc = "opening", !.runs = 1]
<1>1. /\ turn[i].pc = "idle" /\ turn' = [turn EXCEPT ![i] = t]
      /\ UNCHANGED <<supervisor, host, client, draining, conn, starting, sessions, temp, removing, wire,
                     working, count, completed, interrupts, foreign, alive, generation>>
  BY DEF StageTurn, Set, hosting, directories, server, supervisor
<1>t. t = [NoTurn EXCEPT !.pc = "opening", !.runs = 1] /\ 1 \in 0 .. 2
  OBVIOUS
<1> HIDE DEF t
<1>2. /\ t \in Turns /\ t.pc = "opening" /\ t.no = 0 /\ t.gen = none /\ t.last = 0 /\ t.ended = "no"
  BY <1>t, NoTurnTyped
<1>3. turn'[i] = t /\ \A j \in Issues : j # i => turn'[j] = turn[j]
  BY <1>1 DEF AgentInv, TurnInv, TurnTypes
<1>4. TurnInv'
  <2>1. /\ starting[i] \in Seq(Messages) /\ starting' = [starting EXCEPT ![i] = starting[i]]
        /\ starting[i] = <<>>
        /\ sessions' \subseteq Issues /\ temp' \subseteq Issues /\ removing' \subseteq Issues
        /\ wire' \in [Generations -> Seq(Messages)] /\ count[i] \in Nat
    BY <1>1 DEF AgentInv, TurnInv, TurnTypes, Buffers
  <2>2. \A g \in Generations, k \in Nat :
          k \in 1 .. Len(wire'[g]) /\ wire'[g][k].kind \in Answers => wire'[g][k].issue # i
    BY <1>1, NoAnswer DEF AgentInv
  <2>3. Buffers(i)' /\ Placed(i)' /\ Streamed(i)'
    BY <1>1, <1>2, <1>3, <2>1, AgentAssumption DEF Buffers, Placed, Streamed
  <2> QED
    BY <1>1, <1>2, <2>1, <2>2, <2>3, TurnMoves DEF AgentInv
<1>5. ServerInv'
  BY <1>1, ServerStays DEF AgentInv, ServerInv, ServerTypes
<1>6. TempInv'
  BY <1>1, <1>2, <1>3 DEF AgentInv, TempInv
<1> QED
  BY <1>1, <1>4, <1>5, <1>6 DEF AgentInv, ResultIsOwn

(* createThread: a client is replaced only by that of a later generation. *)
LEMMA OpenThreadKeeps ==
  ASSUME AgentInv, NEW i \in Issues, OpenThread(i)
  PROVE  AgentInv'
<1>1. /\ turn[i].pc = "opening"
      /\ UNCHANGED <<supervisor, host, draining, conn, starting, sessions, wire,
                     working, count, completed, interrupts, foreign, alive, generation>>
  BY DEF OpenThread, server, supervisor
<1>2. /\ turn[i] \in Turns /\ starting[i] \in Seq(Messages) /\ starting' = [starting EXCEPT ![i] = starting[i]]
      /\ turn[i].no = 0 /\ turn[i].gen = none /\ turn[i].last = 0 /\ turn[i].ended = "no"
      /\ starting[i] = <<>>
      /\ sessions' \subseteq Issues
      /\ wire' \in [Generations -> Seq(Messages)] /\ count[i] \in Nat
  BY <1>1 DEF AgentInv, TurnInv, TurnTypes, Buffers, Placed
<1>3. client \in Generations \cup {none} /\ connection \in Generations \cup {none}
      /\ generation \in Nat
  BY GenerationsNumbered DEF AgentInv, ServerInv, ServerTypes
<1>4. Replaced => generation > 1
  <2>1. ASSUME Replaced PROVE connection = generation /\ connection > client /\ client \in Generations
    BY <1>3, <2>1 DEF Replaced, AgentInv, ServerInv
  <2> QED
    BY <1>3, <2>1, GenerationsNumbered
<1>5. /\ client' \in {client, connection} /\ (client' # none => generation # 0)
      /\ generation <= 1 => client' = client /\ removing' = removing
      /\ removing' \subseteq removing \cup Issues
      /\ temp' \subseteq temp \cup {i} /\ temp \subseteq temp'
  BY <1>3, <1>4 DEF OpenThread, CurrentClient, AgentInv, TempInv
<1>6. PICK t \in Turns :
        /\ turn' = [turn EXCEPT ![i] = t]
        /\ t.no = 0 /\ t.last = 0 /\ t.ended = "no"
        /\ \/ t.pc = "idle" /\ t.gen = none
           \/ t.pc = "threading" /\ t.asked = "sent" /\ t.gen = client' /\ client' # none /\ i \in temp'
  <2>1. CASE turn' = [turn EXCEPT ![i] = NoTurn]
    BY <2>1, NoTurnTyped
  <2>2. CASE /\ turn' = [turn EXCEPT ![i] =
                   [turn[i] EXCEPT !.pc = "threading", !.gen = client', !.asked = "sent"]]
             /\ client' # none /\ i \in temp'
    <3> DEFINE t == [turn[i] EXCEPT !.pc = "threading", !.gen = client', !.asked = "sent"]
    <3>1. client' \in Generations
      BY <1>3, <1>5, <2>2
    <3>2. t \in Turns
      BY <1>2, <3>1 DEF Turns, Pcs
    <3>3. /\ t.no = 0 /\ t.last = 0 /\ t.ended = "no"
          /\ t.pc = "threading" /\ t.asked = "sent" /\ t.gen = client'
      BY <1>2 DEF Turns
    <3> QED
      BY <2>2, <3>2, <3>3
  <2> QED
    BY <2>1, <2>2 DEF OpenThread, Set
<1>7. turn'[i] = t /\ \A j \in Issues : j # i => turn'[j] = turn[j]
  BY <1>6 DEF AgentInv, TurnInv, TurnTypes
<1>8. TurnInv'
  <2>1. temp' \subseteq Issues /\ removing' \subseteq Issues
    BY <1>5 DEF AgentInv, TurnInv, TurnTypes
  <2>2. \A g \in Generations, k \in Nat :
          k \in 1 .. Len(wire'[g]) /\ wire'[g][k].kind \in Answers => wire'[g][k].issue # i
    BY <1>1, NoAnswer DEF AgentInv
  <2>3. Buffers(i)' /\ Placed(i)' /\ Streamed(i)'
    BY <1>1, <1>2, <1>6, <1>7, AgentAssumption DEF Buffers, Placed, Streamed
  <2> QED
    BY <1>1, <1>2, <1>6, <2>1, <2>2, <2>3, TurnMoves DEF AgentInv
<1>9. ServerInv'
  BY <1>1, <1>3, <1>5, ServerStays DEF AgentInv, ServerInv, ServerTypes
<1>10. TempInv'
  <2>1. ASSUME NEW j \in Issues, turn'[j].gen # none PROVE generation # 0
    BY <1>5, <1>6, <1>7, <2>1 DEF AgentInv, TempInv
  <2>2. ASSUME NEW j \in Issues, generation <= 1
        PROVE  /\ j \in removing' => turn'[j].pc = "disposing"
               /\ turn'[j].pc \in {"threading", "starting", "streaming"} => j \in temp'
    BY <1>1, <1>5, <1>6, <1>7, <2>2 DEF AgentInv, TempInv
  <2> QED
    BY <1>1, <1>5, <2>1, <2>2 DEF TempInv
<1> QED
  BY <1>1, <1>8, <1>9, <1>10 DEF AgentInv, ResultIsOwn

(* turn() leaves its try, with what it leaves to know: its work has ended, or is told to, or
   the app-server tries that again by itself. *)
LEMMA LeavingKeeps ==
  ASSUME AgentInv, NEW i \in Issues, NEW t \in Turns, NEW buffer \in Seq(Messages), buffer = <<>>,
         t.pc = "disposing", t.no = turn[i].no, t.gen = turn[i].gen,
         turn' = [turn EXCEPT ![i] = t], starting' = [starting EXCEPT ![i] = buffer],
         removing' = removing \cup {i},
         UNCHANGED <<supervisor, hosting, conn, temp, working, count, completed, interrupts>>,
         sessions' \subseteq Issues,
         wire' \in [Generations -> Seq(Messages)],
         \A g \in Generations : wire'[g] = wire[g] \/ (wire[g] # <<>> /\ wire'[g] = Tail(wire[g])),
         \A g \in Generations, k \in Nat :
           k \in 1 .. Len(wire'[g]) /\ wire'[g][k].kind \in Answers => wire'[g][k].issue # i,
         \A w \in working : w.issue = i /\ w.no = turn[i].no =>
           w.cli \/ w.retried \/ <<w.issue, w.no, w.gen>> \in interrupts
  PROVE  ServerInv' /\ TurnInv' /\ TempInv'
<1>1. UNCHANGED <<supervisor, host, client, draining, conn, temp, working, count, completed, interrupts,
                  alive, generation>>
  BY DEF hosting, supervisor
<1>2. /\ turn[i] \in Turns /\ temp' \subseteq Issues /\ removing' \subseteq Issues /\ count[i] \in Nat
      /\ turn[i].no <= count[i]
  BY <1>1 DEF AgentInv, TurnInv, TurnTypes, Placed
<1>3. turn'[i] = t /\ starting'[i] = <<>> /\ \A j \in Issues : j # i => turn'[j] = turn[j]
  BY DEF AgentInv, TurnInv, TurnTypes
<1>4. TurnInv'
  <2>1. Buffers(i)' /\ Placed(i)' /\ Streamed(i)'
    BY <1>1, <1>2, <1>3, AgentAssumption DEF Buffers, Placed, Streamed
  <2> QED
    BY <1>1, <1>2, <2>1, TurnMoves DEF AgentInv
<1>5. ServerInv'
  BY <1>1, ServerStays DEF AgentInv, ServerInv, ServerTypes
<1>6. TempInv'
  <2>1. \A j \in Issues : turn'[j].gen = turn[j].gen
    BY <1>3
  <2>2. ASSUME NEW j \in Issues, generation <= 1
        PROVE  /\ j \in removing' => turn'[j].pc = "disposing"
               /\ turn'[j].pc \in {"threading", "starting", "streaming"} => j \in temp'
    BY <1>1, <1>3, <2>2 DEF AgentInv, TempInv
  <2> QED
    BY <1>1, <2>1, <2>2 DEF AgentInv, TempInv
<1> QED
  BY <1>4, <1>5, <1>6

(* What leaving changes of a turn. *)
LEMMA LeavingTyped ==
  ASSUME NEW t \in Turns
  PROVE  /\ Leaving(t) \in Turns /\ Leaving(t).pc = "disposing"
         /\ Leaving(t).no = t.no /\ Leaving(t).gen = t.gen
         /\ \A u, runs, asked :
              /\ runs \in 0 .. 2 /\ asked \in {"none", "again"}
              /\ u = [Leaving(t) EXCEPT !.runs = runs, !.asked = asked]
              => u \in Turns /\ u.pc = "disposing" /\ u.no = t.no /\ u.gen = t.gen
<1>1. <<>> \in Seq(Messages)
  OBVIOUS
<1>2. /\ Leaving(t) \in Turns /\ Leaving(t).pc = "disposing"
      /\ Leaving(t).no = t.no /\ Leaving(t).gen = t.gen
  BY <1>1 DEF Leaving, Turns, Pcs
<1>3. ASSUME NEW u, NEW runs \in 0 .. 2, NEW asked \in {"none", "again"},
             u = [Leaving(t) EXCEPT !.runs = runs, !.asked = asked]
      PROVE  u \in Turns /\ u.pc = "disposing" /\ u.no = t.no /\ u.gen = t.gen
  <2> DEFINE v == Leaving(t)
  <2>1. v \in Turns /\ v.pc = "disposing" /\ v.no = t.no /\ v.gen = t.gen
    BY <1>2
  <2> HIDE DEF v
  <2>2. u = [v EXCEPT !.runs = runs, !.asked = asked]
    BY <1>3 DEF v
  <2> QED
    BY <2>1, <2>2 DEF Turns
<1>4. \A u, runs, asked :
        /\ runs \in 0 .. 2 /\ asked \in {"none", "again"}
        /\ u = [Leaving(t) EXCEPT !.runs = runs, !.asked = asked]
        => u \in Turns /\ u.pc = "disposing" /\ u.no = t.no /\ u.gen = t.gen
  BY <1>3
<1> QED
  BY <1>2, <1>4

(* A request that is rejected is of a connection whose process has ended. *)
LEMMA RequestRejectedKeeps ==
  ASSUME AgentInv, NEW i \in Issues, RequestRejected(i)
  PROVE  AgentInv'
<1>1. /\ turn[i].pc \in {"threading", "starting"} /\ conn[turn[i].gen] = "closed"
      /\ turn' = [turn EXCEPT ![i] = Leaving(turn[i])] /\ removing' = removing \cup {i}
      /\ starting' = [starting EXCEPT ![i] = <<>>]
      /\ UNCHANGED <<supervisor, hosting, conn, sessions, temp, wire, working, count, completed,
                     interrupts, foreign>>
  BY DEF RequestRejected, Leave, Set, server
<1>2. turn[i] \in Turns /\ turn[i].gen \in Generations /\ sessions' \subseteq Issues
      /\ wire' \in [Generations -> Seq(Messages)] /\ turn[i].no \in Nat
  BY <1>1 DEF AgentInv, TurnInv, TurnTypes, Placed, Turns
<1>3. (\A w \in working : w.gen # turn[i].gen) /\ wire[turn[i].gen] = <<>>
  BY <1>1, <1>2, ClosingIsGone DEF AgentInv
<1>4. \A w \in working : ~(w.issue = i /\ w.no = turn[i].no)
  BY <1>3 DEF AgentInv, TurnInv, Worked
<1>5. \A g \in Generations, k \in Nat :
        k \in 1 .. Len(wire'[g]) /\ wire'[g][k].kind \in Answers => wire'[g][k].issue # i
  BY <1>1, <1>2, <1>3, NoAnswer DEF AgentInv
<1>6. <<>> \in Seq(Messages)
  OBVIOUS
<1>7. ServerInv' /\ TurnInv' /\ TempInv'
  <2>1. PICK t \in Turns : t = Leaving(turn[i])
    BY <1>2, LeavingTyped
  <2>2. t.pc = "disposing" /\ t.no = turn[i].no /\ t.gen = turn[i].gen
    BY <1>2, <2>1, LeavingTyped
  <2>3. PICK buffer \in Seq(Messages) : buffer = <<>>
    BY <1>6
  <2>4. turn' = [turn EXCEPT ![i] = t] /\ starting' = [starting EXCEPT ![i] = buffer]
    BY <1>1, <2>1, <2>3
  <2>5. UNCHANGED <<supervisor, hosting, conn, temp, working, count, completed, interrupts>>
    BY <1>1
  <2>6. \A g \in Generations : wire'[g] = wire[g] \/ (wire[g] # <<>> /\ wire'[g] = Tail(wire[g]))
    BY <1>1
  <2>7. /\ removing' = removing \cup {i} /\ sessions' \subseteq Issues
        /\ wire' \in [Generations -> Seq(Messages)]
    BY <1>1, <1>2
  <2>8. \A w \in working : w.issue = i /\ w.no = turn[i].no =>
          w.cli \/ w.retried \/ <<w.issue, w.no, w.gen>> \in interrupts
    BY <1>4
  <2> QED
    BY <1>5, <2>2, <2>3, <2>4, <2>5, <2>6, <2>7, <2>8, LeavingKeeps
<1> QED
  BY <1>1, <1>7 DEF AgentInv, ResultIsOwn

(* turn() leaves the turn it has read: there is no answer under way, and what arrived
   before its own answer is gone. *)
LEMMA ReadIsLeft ==
  ASSUME AgentInv, NEW i \in Issues, turn[i].pc = "streaming",
         NEW again \in BOOLEAN, LeaveTo(i, again) \/ Leave(i),
         UNCHANGED <<supervisor, hosting, conn, starting, temp, wire, working, count, completed, interrupts>>,
         sessions' \subseteq Issues,
         \A w \in working : w.issue = i /\ w.no = turn[i].no =>
           w.cli \/ w.retried \/ <<w.issue, w.no, w.gen>> \in interrupts
  PROVE  ServerInv' /\ TurnInv' /\ TempInv'
<1>1. turn[i] \in Turns /\ starting[i] = <<>> /\ starting[i] \in Seq(Messages)
      /\ starting' = [starting EXCEPT ![i] = starting[i]] /\ wire' \in [Generations -> Seq(Messages)]
  BY DEF AgentInv, TurnInv, TurnTypes, Buffers
<1>2. removing' = removing \cup {i}
  BY DEF LeaveTo, Leave
<1>3. \E t \in Turns : /\ turn' = [turn EXCEPT ![i] = t] /\ t.pc = "disposing"
                       /\ t.no = turn[i].no /\ t.gen = turn[i].gen
  <2>1. CASE Leave(i)
    BY <1>1, <2>1, LeavingTyped DEF Leave, Set
  <2>2. CASE LeaveTo(i, again)
    <3> DEFINE u == [Leaving(turn[i]) EXCEPT !.runs = IF again THEN 2 ELSE @,
                                             !.asked = IF again THEN "again" ELSE "none"]
               runs == IF again THEN 2 ELSE Leaving(turn[i]).runs
               asked == IF again THEN "again" ELSE "none"
    <3>0. Leaving(turn[i]).runs \in 0 .. 2
      <4>1. Leaving(turn[i]) \in Turns
        BY <1>1, LeavingTyped
      <4> QED
        BY <4>1 DEF Turns
    <3>1. runs \in 0 .. 2 /\ asked \in {"none", "again"}
      BY <3>0
    <3>2. u = [Leaving(turn[i]) EXCEPT !.runs = runs, !.asked = asked]
      OBVIOUS
    <3>3. turn' = [turn EXCEPT ![i] = u]
      BY <2>2 DEF LeaveTo, Set
    <3> HIDE DEF u, runs, asked
    <3>4. u \in Turns /\ u.pc = "disposing" /\ u.no = turn[i].no /\ u.gen = turn[i].gen
      BY <1>1, <3>1, <3>2, LeavingTyped
    <3> QED
      BY <3>3, <3>4
  <2> QED
    BY <2>1, <2>2
<1>4. \A g \in Generations, k \in Nat :
        k \in 1 .. Len(wire'[g]) /\ wire'[g][k].kind \in Answers => wire'[g][k].issue # i
  BY NoAnswer DEF AgentInv
<1> QED
  BY <1>1, <1>2, <1>3, <1>4, LeavingKeeps

(* The event at the head of the queue, of a turn that goes on. *)
LEMMA ConsumeEventKeeps ==
  ASSUME AgentInv, NEW i \in Issues, turn[i].pc = "streaming", ~turn[i].aborted, turn[i].fed # <<>>,
         ConsumeEvent(i, Head(turn[i].fed)), UNCHANGED foreign,
         UNCHANGED <<supervisor, hosting, conn, starting, temp, wire, working, count, completed, interrupts>>
  PROVE  AgentInv'
<1> DEFINE m == Head(turn[i].fed)
<1>1. /\ turn[i] \in Turns /\ starting[i] = <<>> /\ starting[i] \in Seq(Messages)
      /\ starting' = [starting EXCEPT ![i] = starting[i]] /\ wire' \in [Generations -> Seq(Messages)]
      /\ temp' \subseteq Issues /\ removing \subseteq Issues /\ sessions \subseteq Issues /\ count[i] \in Nat
      /\ Reads(i, turn[i]) /\ turn[i].no <= count[i] /\ turn[i].gen # none
  BY DEF AgentInv, TurnInv, TurnTypes, Buffers, Placed, Streamed
<1>2. /\ turn[i].fed \in Seq(Messages) /\ 1 \in 1 .. Len(turn[i].fed) /\ m = turn[i].fed[1]
      /\ m \in Messages /\ Fed(i, turn[i].no, m)
  <2>1. turn[i].fed \in Seq(Messages)
    BY <1>1 DEF Turns
  <2>2. 1 \in 1 .. Len(turn[i].fed) /\ m = turn[i].fed[1]
    BY <2>1
  <2> QED
    BY <1>1, <2>1, <2>2 DEF Reads
<1> HIDE DEF m
<1>3. ConsumeEvent(i, m)
  BY DEF m
<1>4. CASE m.kind \in {"interrupted", "failed", "retry"}
  <2>1. PICK again \in BOOLEAN : LeaveTo(i, again)
    BY <1>3, <1>4 DEF ConsumeEvent, MayRunAgain
  <2>2. sessions' \subseteq Issues
    BY <1>1, <1>3, <1>4 DEF ConsumeEvent
  <2>3. \A w \in working : w.issue = i /\ w.no = turn[i].no => w.retried
    BY <1>2, <1>4 DEF Fed, So, Of, Ends
  <2> QED
    BY <2>1, <2>2, <2>3, ReadIsLeft DEF AgentInv, ResultIsOwn
<1>5. CASE m.kind \notin {"interrupted", "failed", "retry"}
  <2> DEFINE fed == Tail(turn[i].fed)
             last == IF m.kind = "message" THEN m.no ELSE turn[i].last
             t == [turn[i] EXCEPT !.fed = fed, !.last = last]
  <2>1. /\ turn' = [turn EXCEPT ![i] = t] /\ removing' = removing /\ sessions' \subseteq Issues
    BY <1>1, <1>3, <1>5 DEF ConsumeEvent, Set
  <2>2. fed \in Seq(Messages) /\ Len(fed) = Len(turn[i].fed) - 1
        /\ \A k \in 1 .. Len(fed) : k + 1 \in 1 .. Len(turn[i].fed) /\ fed[k] = turn[i].fed[k + 1]
    BY <1>2
  <2>3. last \in {0, turn[i].no} /\ last \in Nat
    BY <1>1, <1>2 DEF Reads, Fed, Turns
  <2> HIDE DEF fed, last
  <2>4. t \in Turns /\ t.fed = fed /\ t.last = last /\ t.pc = turn[i].pc /\ t.gen = turn[i].gen
        /\ t.no = turn[i].no /\ t.asked = turn[i].asked /\ t.ended = turn[i].ended
        /\ t.aborted = turn[i].aborted
    BY <1>1, <2>2, <2>3 DEF Turns
  <2> HIDE DEF t
  <2>5. Reads(i, t)
    <3>1. \A k \in 1 .. Len(fed) : Fed(i, turn[i].no, fed[k])
      BY <1>1, <2>2 DEF Reads
    <3>2. ASSUME turn[i].ended = "done", <<i, turn[i].no>> \notin completed
          PROVE  \E k \in 1 .. Len(fed) : fed[k].kind = "failed"
      <4>1. PICK k \in 1 .. Len(turn[i].fed) : turn[i].fed[k].kind = "failed"
        BY <1>1, <3>2 DEF Reads
      <4>2. k # 1
        BY <1>2, <1>5, <4>1
      <4>3. k - 1 \in 1 .. Len(fed) /\ fed[k - 1] = turn[i].fed[k]
        BY <1>2, <2>2, <4>2
      <4> QED
        BY <4>1, <4>3
    <3>3. turn[i].ended # "no" => \A w \in working : ~(w.issue = i /\ w.no = turn[i].no)
      BY <1>1 DEF Reads
    <3> QED
      BY <1>1, <2>3, <2>4, <3>1, <3>2, <3>3 DEF Reads
  <2>6. PICK u \in Turns : u = t
    BY <2>4
  <2>7. /\ turn' = [turn EXCEPT ![i] = u] /\ u.pc = turn[i].pc /\ u.gen = turn[i].gen
        /\ u.no = turn[i].no /\ u.asked = turn[i].asked /\ u.aborted = turn[i].aborted /\ Reads(i, u)
    BY <2>1, <2>4, <2>5, <2>6
  <2>8. turn'[i] = u /\ starting'[i] = starting[i] /\ \A j \in Issues : j # i => turn'[j] = turn[j]
    BY <2>7 DEF AgentInv, TurnInv, TurnTypes
  <2>9. Buffers(i)' /\ Placed(i)' /\ Streamed(i)'
    <3>1. UNCHANGED <<working, completed, count, interrupts>>
      OBVIOUS
    <3>2. \A j \in Issues : turn'[j].no = turn[j].no
      BY <2>7, <2>8
    <3>3. \A n \in Messages : So(n) => So(n)'
      <4>1. \A n \in Messages : n.issue \in Issues
        BY DEF Messages
      <4> QED
        BY <3>1, <3>2, <4>1 DEF So, Of
    <3>4. Reads(i, u)'
      BY <2>7, <3>1, <3>3, ReadsStay
    <3>5. Streamed(i)'
      <4>1. ASSUME u.aborted, NEW w \in working, w.issue = i, w.no = u.no
            PROVE  <<i, u.no, u.gen>> \in interrupts
        BY <2>7, <4>1
      <4> QED
        BY <2>8, <3>1, <3>4, <4>1, StreamedIs
    <3> QED
      BY <1>1, <2>7, <2>8, <3>1, <3>5, AgentAssumption DEF Buffers, Placed
  <2>10. TurnInv'
    <3>1. UNCHANGED <<alive, working, count>> /\ removing' \subseteq Issues
      BY <1>1, <2>1 DEF supervisor
    <3>2. u.no # 0 /\ u.no = turn[i].no /\ u.gen = turn[i].gen /\ u.pc = "streaming"
      BY <2>7 DEF Reads
    <3>3. UNCHANGED <<interrupts, completed, wire>>
      OBVIOUS
    <3> QED
      BY <1>1, <2>1, <2>7, <2>9, <3>1, <3>2, <3>3, TurnMoves DEF AgentInv
  <2>11. ServerInv'
    BY ServerStays DEF AgentInv, ServerInv, ServerTypes, hosting
  <2>12. TempInv'
    <3>1. UNCHANGED <<client, generation, temp, removing>>
      BY <2>1 DEF supervisor, hosting
    <3>2. \A j \in Issues : turn'[j].pc = turn[j].pc /\ turn'[j].gen = turn[j].gen
      BY <2>7, <2>8
    <3> QED
      BY <3>1, <3>2 DEF AgentInv, TempInv
  <2> QED
    BY <2>10, <2>11, <2>12 DEF AgentInv, ResultIsOwn
<1> QED
  BY <1>4, <1>5

(* The end of the queue: a message that is returned is the turn's own, which completed. *)
LEMMA ConsumeEndKeeps ==
  ASSUME AgentInv, NEW i \in Issues, turn[i].pc = "streaming", turn[i].fed = <<>>, ConsumeEnd(i),
         UNCHANGED <<supervisor, hosting, conn, starting, temp, wire, working, count, completed, interrupts>>
  PROVE  AgentInv'
<1>1. Reads(i, turn[i]) /\ sessions' \subseteq Issues /\ turn[i].ended # "no"
  BY DEF AgentInv, TurnInv, TurnTypes, Streamed, ConsumeEnd
<1>2. Returns(turn[i]) => IsOwn(i, turn[i])
  <2>1. \A k \in 1 .. Len(turn[i].fed) : FALSE
    OBVIOUS
  <2> QED
    BY <1>1, <2>1 DEF Reads, Returns, IsOwn
<1>3. PICK again \in BOOLEAN : LeaveTo(i, again)
  BY DEF ConsumeEnd, MayRunAgain
<1>4. foreign' = foreign
  BY <1>2 DEF ConsumeEnd
<1>5. ServerInv' /\ TurnInv' /\ TempInv'
  BY <1>1, <1>3, ReadIsLeft DEF Reads
<1> QED
  BY <1>4, <1>5 DEF AgentInv, ResultIsOwn

(* What turn() reads. *)
LEMMA ConsumeKeeps ==
  ASSUME AgentInv, NEW i \in Issues, Consume(i)
  PROVE  AgentInv'
<1>1. turn[i].pc = "streaming"
      /\ UNCHANGED <<supervisor, hosting, conn, starting, temp, wire, working, count, completed, interrupts>>
  BY DEF Consume, server
<1>2. CASE turn[i].aborted
  <2>1. Leave(i) /\ UNCHANGED <<sessions, foreign>>
    BY <1>2 DEF Consume
  <2>2. \A w \in working : w.issue = i /\ w.no = turn[i].no => <<w.issue, w.no, w.gen>> \in interrupts
    BY <1>1, <1>2 DEF AgentInv, TurnInv, Streamed, Worked
  <2>3. sessions' \subseteq Issues
    BY <2>1 DEF AgentInv, TurnInv, TurnTypes
  <2>4. ServerInv' /\ TurnInv' /\ TempInv'
    BY <1>1, <2>1, <2>2, <2>3, ReadIsLeft
  <2> QED
    BY <2>1, <2>4 DEF AgentInv, ResultIsOwn
<1>3. CASE ~turn[i].aborted /\ turn[i].fed # <<>>
  <2>1. ConsumeEvent(i, Head(turn[i].fed)) /\ UNCHANGED foreign
    BY <1>3 DEF Consume
  <2> QED
    BY <1>1, <1>3, <2>1, ConsumeEventKeeps
<1>4. CASE ~turn[i].aborted /\ turn[i].fed = <<>>
  <2>1. ConsumeEnd(i)
    BY <1>4 DEF Consume
  <2> QED
    BY <1>1, <1>4, <2>1, ConsumeEndKeeps
<1> QED
  BY <1>2, <1>3, <1>4

(* A directory is removed: of a turn that is left, unless there was a second start. *)
LEMMA RemoveTempKeeps ==
  ASSUME AgentInv, NEW i \in Issues, RemoveTemp(i)
  PROVE  AgentInv'
<1>1. /\ i \in removing /\ removing' = removing \ {i} /\ temp' = temp \ {i}
      /\ UNCHANGED <<supervisor, host, client, draining, conn, turn, starting, sessions, wire, working,
                     count, completed, interrupts, foreign, alive, generation>>
  BY DEF RemoveTemp, hosting, server, supervisor
<1>2. ServerInv'
  BY <1>1, ServerStays DEF AgentInv, ServerInv, ServerTypes
<1>3. TurnInv'
  <2>1. TurnTypes'
    BY <1>1 DEF AgentInv, TurnInv, TurnTypes
  <2>2. ASSUME NEW g \in Generations PROVE AnsweredOnce(g)' /\ Told(g)'
    <3>1. AnsweredOnce(g) /\ Told(g) /\ UNCHANGED <<wire, turn, working, count, completed, conn>>
      BY <1>1 DEF AgentInv, TurnInv
    <3>2. AnsweredOnce(g)'
      BY <3>1 DEF AnsweredOnce, Asked
    <3>3. Told(g)'
      BY <3>1 DEF Told, So, Of
    <3> QED
      BY <3>2, <3>3
  <2>3. Worked' /\ Interrupted' /\ TurnsAreWatched'
    BY <1>1 DEF AgentInv, TurnInv, Worked, Interrupted, TurnsAreWatched
  <2>4. \A j \in Issues : Buffers(j)' /\ Placed(j)'
    BY <1>1 DEF AgentInv, TurnInv, Buffers, Placed, So, Of
  <2>5. ASSUME NEW j \in Issues PROVE Streamed(j)'
    <3>1. Streamed(j) /\ turn[j] \in Turns
      BY DEF AgentInv, TurnInv, TurnTypes
    <3> QED
      BY <1>1, <3>1, StreamedStays
  <2> QED
    BY <2>1, <2>2, <2>3, <2>4, <2>5 DEF TurnInv
<1>4. TempInv'
  BY <1>1 DEF AgentInv, TempInv
<1> QED
  BY <1>1, <1>2, <1>3, <1>4 DEF AgentInv, ResultIsOwn

(* The turn is over, or begins once more. *)
LEMMA FinishKeeps ==
  ASSUME AgentInv, NEW i \in Issues, Finish(i)
  PROVE  AgentInv'
<1>1. /\ turn[i].pc = "disposing" /\ i \notin removing
      /\ completed' = {c \in completed : c[1] # i}
      /\ UNCHANGED <<supervisor, host, client, draining, conn, starting, sessions, temp, removing, wire,
                     working, count, interrupts, foreign, alive, generation>>
  BY DEF Finish, MayFinish, hosting, directories, supervisor
<1>2. PICK t \in Turns : /\ turn' = [turn EXCEPT ![i] = t]
                        /\ t.pc \in {"idle", "opening"} /\ t.no = 0 /\ t.gen = none /\ t.last = 0 /\ t.ended = "no"
  <2>1. CASE turn' = [turn EXCEPT ![i] = NoTurn]
    BY <2>1, NoTurnTyped
  <2>2. CASE turn' = [turn EXCEPT ![i] = [NoTurn EXCEPT !.pc = "opening", !.runs = 2]]
    <3>1. PICK t : t = [NoTurn EXCEPT !.pc = "opening", !.runs = 2]
      OBVIOUS
    <3>2. 2 \in 0 .. 2
      OBVIOUS
    <3> QED
      BY <2>2, <3>1, <3>2, NoTurnTyped
  <2> QED
    BY <2>1, <2>2 DEF Finish, Set
<1>3. turn'[i] = t /\ \A j \in Issues : j # i => turn'[j] = turn[j]
  BY <1>2 DEF AgentInv, TurnInv, TurnTypes
<1>4. TurnInv'
  <2>1. /\ starting[i] \in Seq(Messages) /\ starting' = [starting EXCEPT ![i] = starting[i]]
        /\ starting[i] = <<>> /\ turn[i].pc = "disposing"
        /\ sessions' \subseteq Issues /\ temp' \subseteq Issues /\ removing' \subseteq Issues
        /\ wire' \in [Generations -> Seq(Messages)] /\ count[i] \in Nat
    BY <1>1 DEF AgentInv, TurnInv, TurnTypes, Buffers
  <2>2. \A g \in Generations, k \in Nat :
          k \in 1 .. Len(wire'[g]) /\ wire'[g][k].kind \in Answers => wire'[g][k].issue # i
    BY <1>1, NoAnswer DEF AgentInv
  <2>3. Buffers(i)' /\ Placed(i)' /\ Streamed(i)'
    BY <1>1, <1>2, <1>3, <2>1, AgentAssumption DEF Buffers, Placed, Streamed
  <2> QED
    BY <1>1, <1>2, <2>1, <2>2, <2>3, TurnMoves DEF AgentInv
<1>5. ServerInv'
  BY <1>1, ServerStays DEF AgentInv, ServerInv, ServerTypes
<1>6. TempInv'
  BY <1>1, <1>2, <1>3 DEF AgentInv, TempInv
<1> QED
  BY <1>1, <1>4, <1>5, <1>6 DEF AgentInv, ResultIsOwn

-----------------------------------------------------------------------------
(* What the client receives. *)

(* What is received is off the wire; an answer was the only one. *)
LEMMA ReceivedOnce ==
  ASSUME AgentInv, NEW g \in Generations, wire[g] # <<>>, wire' = [wire EXCEPT ![g] = Tail(@)]
  PROVE  /\ Head(wire[g]) \in Messages
         /\ wire' \in [Generations -> Seq(Messages)]
         /\ \A h \in Generations : wire'[h] = wire[h] \/ (wire[h] # <<>> /\ wire'[h] = Tail(wire[h]))
         /\ Head(wire[g]).kind \notin Answers => So(Head(wire[g]))
         /\ Head(wire[g]).kind \in Answers =>
              /\ Asked(g, Head(wire[g]))
              /\ \A h \in Generations, k \in Nat :
                   k \in 1 .. Len(wire'[h]) /\ wire'[h][k].kind \in Answers
                   => wire'[h][k].issue # Head(wire[g]).issue
<1>1. wire[g] \in Seq(Messages) /\ 1 \in 1 .. Len(wire[g]) /\ Head(wire[g]) = wire[g][1]
      /\ wire \in [Generations -> Seq(Messages)]
  BY DEF AgentInv, TurnInv, TurnTypes
<1>2. Tail(wire[g]) \in Seq(Messages)
      /\ \A k \in 1 .. Len(Tail(wire[g])) :
           k + 1 \in 1 .. Len(wire[g]) /\ Tail(wire[g])[k] = wire[g][k + 1] /\ k + 1 # 1
  BY <1>1
<1>3. Head(wire[g]) \in Messages
  BY <1>1
<1>4. wire'[g] = Tail(wire[g]) /\ \A h \in Generations : h # g => wire'[h] = wire[h]
  BY <1>1
<1>5. AnsweredOnce(g) /\ Told(g) /\ \A h \in Generations : AnsweredOnce(h)
  BY DEF AgentInv, TurnInv
<1>6. ASSUME wire[g][1].kind \in Answers, NEW h \in Generations, NEW k \in 1 .. Len(wire'[h]),
             wire'[h][k].kind \in Answers, wire'[h][k].issue = wire[g][1].issue
      PROVE  FALSE
  <2>1. CASE h = g
    <3>1. k + 1 = 1
      BY <1>1, <1>2, <1>4, <1>5, <1>6, <2>1 DEF AnsweredOnce
    <3> QED
      BY <1>2, <1>4, <2>1, <3>1
  <2>2. CASE h # g
    <3>1. Asked(h, wire[h][k]) /\ Asked(g, wire[g][1]) /\ wire'[h] = wire[h]
      BY <1>1, <1>4, <1>5, <1>6, <2>2 DEF AnsweredOnce
    <3> QED
      BY <1>6, <2>2, <3>1 DEF Asked
  <2> QED
    BY <2>1, <2>2
<1>7. wire' \in [Generations -> Seq(Messages)]
  BY <1>1, <1>2
<1> QED
  BY <1>1, <1>3, <1>4, <1>5, <1>6, <1>7 DEF AnsweredOnce, Told

(* What a step of the connection leaves as it was. *)
Connected ==
  /\ UNCHANGED <<supervisor, hosting, conn, sessions, temp, working, count, completed, foreign>>
  /\ UNCHANGED <<alive, generation, host, client, draining>>

(* The directories, when a turn only goes on or is left. *)
LEMMA TempStays ==
  ASSUME AgentInv, UNCHANGED <<client, generation, temp, removing>>,
         \A j \in Issues :
           /\ turn'[j].gen = turn[j].gen
           /\ turn'[j].pc = turn[j].pc \/ turn[j].pc \in {"threading", "starting", "streaming"}
  PROVE  TempInv'
BY DEF AgentInv, TempInv

(* An answer to thread/start. *)
LEMMA ReceiveThreadKeeps ==
  ASSUME AgentInv, Connected, NEW g \in Generations, wire[g] # <<>>, wire' = [wire EXCEPT ![g] = Tail(@)],
         NEW m \in Messages, m = Head(wire[g]), m.kind = "thread", Received(m.issue, m)
  PROVE  AgentInv'
<1> DEFINE i == m.issue
           t == [turn[i] EXCEPT !.pc = "starting", !.asked = "sent"]
<1>1. /\ turn' = [turn EXCEPT ![i] = t] /\ UNCHANGED <<starting, interrupts, removing>>
  BY DEF Received, Set
<1>2. /\ wire' \in [Generations -> Seq(Messages)]
      /\ \A h \in Generations : wire'[h] = wire[h] \/ (wire[h] # <<>> /\ wire'[h] = Tail(wire[h]))
      /\ Asked(g, m)
      /\ \A h \in Generations, k \in Nat :
           k \in 1 .. Len(wire'[h]) /\ wire'[h][k].kind \in Answers => wire'[h][k].issue # i
  BY ReceivedOnce DEF Answers
<1>3. i \in Issues
  BY DEF Messages
<1>4. turn[i].pc = "threading" /\ turn[i] \in Turns /\ turn[i].no = 0 /\ turn[i].gen # none
      /\ turn[i].last = 0 /\ turn[i].ended = "no" /\ count[i] \in Nat
      /\ starting[i] = <<>> /\ starting[i] \in Seq(Messages) /\ starting' = [starting EXCEPT ![i] = starting[i]]
      /\ sessions' \subseteq Issues /\ temp' \subseteq Issues /\ removing' \subseteq Issues
  BY <1>1, <1>2, <1>3 DEF Asked, AgentInv, TurnInv, TurnTypes, Placed, Buffers, Connected
<1>5. t \in Turns /\ t.pc = "starting" /\ t.asked = "sent" /\ t.no = 0 /\ t.gen = turn[i].gen
      /\ t.last = 0 /\ t.ended = "no"
  BY <1>4 DEF Turns, Pcs
<1> HIDE DEF t, i
<1>6. turn'[i] = t /\ \A j \in Issues : j # i => turn'[j] = turn[j]
  BY <1>1, <1>3 DEF AgentInv, TurnInv, TurnTypes
<1>7. Buffers(i)' /\ Placed(i)' /\ Streamed(i)'
  BY <1>1, <1>4, <1>5, <1>6, AgentAssumption DEF Buffers, Placed, Streamed, Connected
<1>8. TurnInv'
  BY <1>1, <1>2, <1>3, <1>4, <1>5, <1>7, TurnMoves DEF AgentInv, Connected
<1>9. ServerInv'
  BY <1>2, ServerStays DEF AgentInv, ServerInv, ServerTypes, Connected
<1>10. TempInv'
  <2>1. \A j \in Issues :
          /\ turn'[j].gen = turn[j].gen
          /\ turn'[j].pc = turn[j].pc \/ turn[j].pc \in {"threading", "starting", "streaming"}
    BY <1>4, <1>5, <1>6
  <2> QED
    BY <1>1, <2>1, TempStays DEF Connected
<1> QED
  BY <1>8, <1>9, <1>10 DEF AgentInv, ResultIsOwn, Connected

(* thread/resume of a thread that is gone. *)
LEMMA ReceiveMissingKeeps ==
  ASSUME AgentInv, Connected, NEW g \in Generations, wire[g] # <<>>, wire' = [wire EXCEPT ![g] = Tail(@)],
         NEW m \in Messages, m = Head(wire[g]), m.kind = "missing", Received(m.issue, m)
  PROVE  AgentInv'
<1> DEFINE i == m.issue
<1>1. Leave(i) /\ UNCHANGED <<starting, interrupts>>
  BY DEF Received
<1>2. /\ wire' \in [Generations -> Seq(Messages)]
      /\ \A h \in Generations : wire'[h] = wire[h] \/ (wire[h] # <<>> /\ wire'[h] = Tail(wire[h]))
      /\ Asked(g, m)
      /\ \A h \in Generations, k \in Nat :
           k \in 1 .. Len(wire'[h]) /\ wire'[h][k].kind \in Answers => wire'[h][k].issue # i
  BY ReceivedOnce DEF Answers
<1>3. i \in Issues
  BY DEF Messages
<1>4. turn[i].pc = "threading" /\ turn[i] \in Turns /\ turn[i].no = 0
      /\ starting[i] = <<>> /\ starting[i] \in Seq(Messages) /\ starting' = [starting EXCEPT ![i] = starting[i]]
      /\ sessions' \subseteq Issues
  BY <1>1, <1>2, <1>3 DEF Asked, AgentInv, TurnInv, TurnTypes, Placed, Buffers, Connected
<1>5. \A w \in working : w.no # turn[i].no
  BY <1>4 DEF AgentInv, TurnInv, Worked
<1>6. PICK t \in Turns : turn' = [turn EXCEPT ![i] = t] /\ t.pc = "disposing" /\ t.no = turn[i].no
                         /\ t.gen = turn[i].gen
  BY <1>1, <1>4, LeavingTyped DEF Leave, Set
<1>7. removing' = removing \cup {i}
  BY <1>1 DEF Leave
<1> HIDE DEF i
<1>8. ServerInv' /\ TurnInv' /\ TempInv'
  BY <1>1, <1>2, <1>3, <1>4, <1>5, <1>6, <1>7, LeavingKeeps DEF Connected
<1> QED
  BY <1>8 DEF AgentInv, ResultIsOwn, Connected

(* The answer to turn/start: the turn is subscribed, and interrupted if it was aborted. *)
LEMMA ReceiveTurnKeeps ==
  ASSUME AgentInv, Connected, NEW g \in Generations, wire[g] # <<>>, wire' = [wire EXCEPT ![g] = Tail(@)],
         NEW m \in Messages, m = Head(wire[g]), m.kind = "turn", Received(m.issue, m)
  PROVE  AgentInv'
<1> DEFINE i == m.issue
<1>1. /\ turn' = [turn EXCEPT ![i] = Subscribed(i)] /\ starting' = [starting EXCEPT ![i] = <<>>]
      /\ interrupts' = (IF turn[i].aborted THEN interrupts \cup {<<i, turn[i].no, turn[i].gen>>}
                        ELSE interrupts)
      /\ UNCHANGED removing
  BY DEF Received, TurnAnswered, Set, Interrupt
<1>2. /\ wire' \in [Generations -> Seq(Messages)]
      /\ \A h \in Generations : wire'[h] = wire[h] \/ (wire[h] # <<>> /\ wire'[h] = Tail(wire[h]))
      /\ Asked(g, m)
      /\ \A h \in Generations, k \in Nat :
           k \in 1 .. Len(wire'[h]) /\ wire'[h][k].kind \in Answers => wire'[h][k].issue # i
  BY ReceivedOnce DEF Answers
<1>3. i \in Issues
  BY DEF Messages
<1>4. turn[i].pc = "starting" /\ turn[i].asked = "none" /\ turn[i] \in Turns /\ turn[i].no # 0
      /\ turn[i].gen \in Generations /\ turn[i].last = 0 /\ count[i] \in Nat /\ turn[i].no <= count[i]
      /\ sessions' \subseteq Issues /\ temp' \subseteq Issues /\ removing' \subseteq Issues
  <2>1. turn[i].pc = "starting" /\ turn[i].asked = "none" /\ turn[i] \in Turns
    BY <1>2, <1>3 DEF Asked, AgentInv, TurnInv, TurnTypes
  <2>2. Placed(i)
    BY <1>3 DEF AgentInv, TurnInv
  <2> QED
    BY <1>1, <1>2, <1>3, <2>1, <2>2 DEF Placed, AgentInv, TurnInv, TurnTypes, Turns, Connected
<1> HIDE DEF i
<1>5. PICK t \in Turns :
        /\ t = Subscribed(i) /\ Reads(i, t) /\ t.pc = "streaming" /\ t.no = turn[i].no
        /\ t.gen = turn[i].gen /\ t.aborted = turn[i].aborted
  BY <1>3, <1>4, SubscribedReads DEF AgentInv
<1>6. turn'[i] = t /\ starting'[i] = <<>> /\ <<>> \in Seq(Messages)
      /\ \A j \in Issues : j # i => turn'[j] = turn[j]
  BY <1>1, <1>3, <1>5 DEF AgentInv, TurnInv, TurnTypes
<1>7. Buffers(i)' /\ Placed(i)' /\ Streamed(i)'
  <2>1. UNCHANGED <<working, completed, count>>
    BY DEF Connected
  <2>2. \A j \in Issues : turn'[j].no = turn[j].no
    BY <1>5, <1>6
  <2>3. \A n \in Messages : So(n) => So(n)'
    <3>1. \A n \in Messages : n.issue \in Issues
      BY DEF Messages
    <3> QED
      BY <2>1, <2>2, <3>1 DEF So, Of
  <2>4. Reads(i, t)'
    BY <1>3, <1>5, <2>1, <2>3, ReadsStay
  <2>5. t.aborted => \A w \in working : w.issue = i /\ w.no = t.no => <<i, t.no, t.gen>> \in interrupts'
    BY <1>1, <1>5
  <2>6. Streamed(i)'
    BY <1>3, <1>6, <2>1, <2>4, <2>5, StreamedIs
  <2> QED
    BY <1>4, <1>5, <1>6, <2>1, <2>6, AgentAssumption, GenerationsNumbered DEF Buffers, Placed
<1>8. TurnInv'
  <2>1. /\ interrupts \subseteq interrupts' /\ interrupts' \subseteq interrupts \cup {<<i, t.no, t.gen>>}
        /\ t.no # 0 /\ t.gen \in Generations /\ turn' = [turn EXCEPT ![i] = t]
    BY <1>1, <1>4, <1>5
  <2>2. UNCHANGED <<alive, working, count, completed>>
    BY DEF Connected
  <2> QED
    BY <1>1, <1>2, <1>3, <1>4, <1>5, <1>6, <1>7, <2>1, <2>2, TurnMoves DEF AgentInv
<1>9. ServerInv'
  BY <1>2, ServerStays DEF AgentInv, ServerInv, ServerTypes, Connected
<1>10. TempInv'
  <2>1. \A j \in Issues :
          /\ turn'[j].gen = turn[j].gen
          /\ turn'[j].pc = turn[j].pc \/ turn[j].pc \in {"threading", "starting", "streaming"}
    BY <1>4, <1>5, <1>6
  <2> QED
    BY <1>1, <2>1, TempStays DEF Connected
<1> QED
  BY <1>8, <1>9, <1>10 DEF AgentInv, ResultIsOwn, Connected

(* What is told of a turn: it is delivered to its queue, kept until there is one, or dropped. *)
LEMMA ReceiveToldKeeps ==
  ASSUME AgentInv, Connected, NEW g \in Generations, wire[g] # <<>>, wire' = [wire EXCEPT ![g] = Tail(@)],
         NEW m \in Messages, m = Head(wire[g]), m.kind \notin Answers, Notified(m.issue, m)
  PROVE  AgentInv'
<1> DEFINE i == m.issue
<1>1. UNCHANGED <<interrupts, removing, working, count, completed, alive>> /\ wire[g] \in Seq(Messages)
  BY DEF Notified, Connected, AgentInv, TurnInv, TurnTypes
<1>2. /\ wire' \in [Generations -> Seq(Messages)]
      /\ \A h \in Generations : wire'[h] = wire[h] \/ (wire[h] # <<>> /\ wire'[h] = Tail(wire[h]))
      /\ So(m)
  BY ReceivedOnce
<1>3. i \in Issues
  BY DEF Messages
<1>4. /\ turn[i] \in Turns /\ starting[i] \in Seq(Messages) /\ count[i] \in Nat
      /\ sessions' \subseteq Issues /\ temp' \subseteq Issues /\ removing' \subseteq Issues
      /\ turn[i].no \in Nat
  BY <1>1, <1>2, <1>3 DEF AgentInv, TurnInv, TurnTypes, Connected, Turns
<1>5. Buffers(i) /\ Placed(i) /\ Streamed(i)
  BY <1>3 DEF AgentInv, TurnInv
<1>6. PICK t \in Turns, buffer \in Seq(Messages) :
        /\ turn' = [turn EXCEPT ![i] = t] /\ starting' = [starting EXCEPT ![i] = buffer]
        /\ \A f \in {"pc", "gen", "no", "aborted", "asked", "last"} : t[f] = turn[i][f]
        /\ t = turn[i] \/ (turn[i].pc = "streaming" /\ Reads(i, t))
        /\ Len(buffer) <= MaxStarting /\ (turn[i].pc # "starting" => buffer = <<>>)
        /\ \A k \in 1 .. Len(buffer) :
             buffer[k].issue = i /\ So(buffer[k]) /\ buffer[k].kind \in Ends \cup {"message", "retry"}
  <2>1. CASE turn[i].pc = "streaming" /\ Own(turn[i], m)
    <3>1. turn' = [turn EXCEPT ![i] = Delivered(turn[i], m)] /\ starting' = [starting EXCEPT ![i] = starting[i]]
      BY <1>3, <2>1 DEF Notified, Set, AgentInv, TurnInv, TurnTypes
    <3>2. Reads(i, turn[i]) /\ m.no = turn[i].no
      BY <1>5, <2>1 DEF Streamed, Own
    <3>3. /\ Delivered(turn[i], m) \in Turns /\ Reads(i, Delivered(turn[i], m))
          /\ \A f \in {"pc", "gen", "no", "aborted", "asked", "last", "runs"} :
               Delivered(turn[i], m)[f] = turn[i][f]
      <4>1. PICK v \in Turns : v = turn[i]
        BY <1>4
      <4>2. v.no # 0 /\ Reads(i, v) /\ So(m) /\ m.issue = i /\ m.no = v.no
        BY <1>2, <3>2, <4>1 DEF Reads
      <4> HIDE DEF i
      <4> QED
        BY <1>3, <3>2, <4>1, <4>2, DeliveredReads
    <3>4. Len(starting[i]) <= MaxStarting /\ starting[i] = <<>>
      BY <1>5, <2>1 DEF Buffers
    <3>5. \A k \in 1 .. Len(starting[i]) :
            /\ starting[i][k].issue = i /\ So(starting[i][k])
            /\ starting[i][k].kind \in Ends \cup {"message", "retry"}
      BY <1>5 DEF Buffers
    <3>6. PICK u \in Turns : u = Delivered(turn[i], m)
      BY <3>3
    <3>7. PICK b \in Seq(Messages) : b = starting[i]
      BY <1>4
    <3>8. turn' = [turn EXCEPT ![i] = u] /\ starting' = [starting EXCEPT ![i] = b]
      BY <3>1, <3>6, <3>7
    <3>9. \A f \in {"pc", "gen", "no", "aborted", "asked", "last"} : u[f] = turn[i][f]
      BY <3>3, <3>6
    <3>10. /\ turn[i].pc = "streaming" /\ Reads(i, u) /\ Len(b) <= MaxStarting /\ b = <<>>
           /\ \A k \in 1 .. Len(b) :
                b[k].issue = i /\ So(b[k]) /\ b[k].kind \in Ends \cup {"message", "retry"}
      BY <2>1, <3>3, <3>4, <3>5, <3>6, <3>7
    <3> HIDE DEF i
    <3> QED
      BY <3>8, <3>9, <3>10
  <2>2. CASE ~(turn[i].pc = "streaming" /\ Own(turn[i], m)) /\ ~(turn[i].pc = "starting" /\ m.kind # "refused")
    <3>1. turn' = [turn EXCEPT ![i] = turn[i]] /\ starting' = [starting EXCEPT ![i] = starting[i]]
      BY <1>3, <2>2 DEF Notified, AgentInv, TurnInv, TurnTypes
    <3>2. PICK u \in Turns : u = turn[i]
      BY <1>4
    <3>3. PICK b \in Seq(Messages) : b = starting[i]
      BY <1>4
    <3>4. /\ Len(b) <= MaxStarting /\ (turn[i].pc # "starting" => b = <<>>)
          /\ \A k \in 1 .. Len(b) :
               b[k].issue = i /\ So(b[k]) /\ b[k].kind \in Ends \cup {"message", "retry"}
      BY <1>5, <3>3 DEF Buffers
    <3>5. turn' = [turn EXCEPT ![i] = u] /\ starting' = [starting EXCEPT ![i] = b]
      BY <3>1, <3>2, <3>3
    <3> HIDE DEF i
    <3> QED
      BY <3>2, <3>4, <3>5
  <2>3. CASE turn[i].pc = "starting" /\ m.kind # "refused"
    <3> DEFINE kept == IF Len(starting[i]) = MaxStarting THEN Tail(starting[i]) ELSE starting[i]
               buffer == Append(kept, m)
    <3>1. turn' = [turn EXCEPT ![i] = turn[i]] /\ starting' = [starting EXCEPT ![i] = buffer]
      BY <1>3, <2>3 DEF Notified, Buffered, AgentInv, TurnInv, TurnTypes
    <3>2. /\ kept \in Seq(Messages) /\ Len(kept) < MaxStarting
          /\ \A k \in 1 .. Len(kept) : \E l \in 1 .. Len(starting[i]) : kept[k] = starting[i][l]
      <4>1. CASE Len(starting[i]) = MaxStarting
        <5>1. starting[i] # <<>> /\ MaxStarting \in Nat
          BY <1>4, <4>1, AgentAssumption
        <5>2. /\ Tail(starting[i]) \in Seq(Messages) /\ Len(Tail(starting[i])) = Len(starting[i]) - 1
              /\ \A k \in 1 .. Len(Tail(starting[i])) :
                   k + 1 \in 1 .. Len(starting[i]) /\ Tail(starting[i])[k] = starting[i][k + 1]
          BY <1>4, <5>1
        <5>3. kept = Tail(starting[i])
          BY <4>1
        <5> HIDE DEF kept
        <5>4. kept \in Seq(Messages) /\ Len(kept) < MaxStarting
          BY <4>1, <5>1, <5>2, <5>3
        <5>5. ASSUME NEW k \in 1 .. Len(kept) PROVE \E l \in 1 .. Len(starting[i]) : kept[k] = starting[i][l]
          <6>1. kept[k] = starting[i][k + 1] /\ k + 1 \in 1 .. Len(starting[i])
            BY <5>2, <5>3
          <6> QED
            BY <6>1
        <5> QED
          BY <5>4, <5>5
      <4>2. CASE Len(starting[i]) # MaxStarting
        <5>1. Len(starting[i]) <= MaxStarting /\ Len(starting[i]) \in Nat /\ MaxStarting \in Nat
          BY <1>4, <1>5, AgentAssumption DEF Buffers
        <5>2. kept = starting[i]
          BY <4>2
        <5> HIDE DEF kept
        <5> QED
          BY <1>4, <4>2, <5>1, <5>2
      <4> QED
        BY <4>1, <4>2
    <3> HIDE DEF kept
    <3>3. /\ buffer \in Seq(Messages) /\ Len(buffer) = Len(kept) + 1 /\ buffer[Len(kept) + 1] = m
          /\ \A k \in 1 .. Len(kept) : buffer[k] = kept[k]
      BY <3>2
    <3>4. Len(buffer) <= MaxStarting
      BY <3>2, <3>3, AgentAssumption
    <3>5. m.kind \in Ends \cup {"message", "retry"}
      BY <1>2, <2>3 DEF So, Messages, Kinds
    <3>6. ASSUME NEW k \in 1 .. Len(buffer)
          PROVE  buffer[k].issue = i /\ So(buffer[k]) /\ buffer[k].kind \in Ends \cup {"message", "retry"}
      <4>1. CASE k = Len(kept) + 1
        BY <1>2, <3>3, <3>5, <4>1
      <4>2. CASE k # Len(kept) + 1
        <5>1. k \in 1 .. Len(kept)
          BY <3>2, <3>3, <4>2
        <5>2. PICK l \in 1 .. Len(starting[i]) : buffer[k] = starting[i][l]
          BY <3>2, <3>3, <5>1
        <5> QED
          BY <1>5, <5>2 DEF Buffers
      <4> QED
        BY <4>1, <4>2
    <3> HIDE DEF buffer
    <3> QED
      BY <1>4, <2>3, <3>1, <3>3, <3>4, <3>6
  <2> QED
    BY <2>1, <2>2, <2>3
<1> HIDE DEF i
<1>7. t.pc = turn[i].pc /\ t.gen = turn[i].gen /\ t.no = turn[i].no /\ t.aborted = turn[i].aborted
      /\ t.asked = turn[i].asked /\ t.last = turn[i].last
  BY <1>6
<1>8. turn'[i] = t /\ starting'[i] = buffer /\ \A j \in Issues : j # i => turn'[j] = turn[j]
  BY <1>3, <1>6 DEF AgentInv, TurnInv, TurnTypes
<1>9. \A n \in Messages : So(n) => So(n)'
  <2>1. \A j \in Issues : turn'[j].no = turn[j].no
    BY <1>7, <1>8
  <2>2. \A n \in Messages : n.issue \in Issues
    BY DEF Messages
  <2> QED
    BY <1>1, <2>1, <2>2 DEF So, Of
<1>10. Buffers(i)'
  <2>1. \A k \in 1 .. Len(buffer) : buffer[k] \in Messages
    OBVIOUS
  <2>2. ASSUME NEW k \in 1 .. Len(starting'[i]) PROVE So(starting[i][k])'
    <3>1. PICK n \in Messages : n = starting'[i][k]
      BY <1>8, <2>1
    <3>2. So(n)
      BY <1>6, <1>8, <3>1
    <3>3. So(n)'
      BY <1>9, <3>2
    <3> QED
      BY <3>1, <3>3 DEF So, Of
  <2> QED
    BY <1>6, <1>7, <1>8, <2>2 DEF Buffers
<1>11. Placed(i)'
  <2>1. turn[i].pc # "streaming" => t = turn[i]
    BY <1>6
  <2> QED
    BY <1>1, <1>5, <1>7, <1>8, <2>1 DEF Placed
<1>12. Streamed(i)'
  <2>1. t.pc = "streaming" => Reads(i, t)
    BY <1>5, <1>6, <1>7 DEF Streamed
  <2>2. t.pc = "streaming" => Reads(i, t)'
    BY <1>1, <1>3, <1>9, <2>1, ReadsStay
  <2>3. t.pc = "streaming" /\ t.aborted => \A w \in working :
          w.issue = i /\ w.no = t.no => <<i, t.no, t.gen>> \in interrupts
    BY <1>5, <1>7 DEF Streamed
  <2> QED
    BY <1>1, <1>3, <1>8, <2>2, <2>3, StreamedIs
<1>13. TurnInv'
  <2>1. turn[i].pc \in {"starting", "streaming"} =>
           \/ t.pc \in {"starting", "streaming"} /\ t.no # 0
           \/ \A w \in working : w.issue = i /\ w.no = turn[i].no => FALSE
    BY <1>7 DEF AgentInv, TurnInv, Worked
  <2> QED
    BY <1>1, <1>2, <1>3, <1>4, <1>6, <1>7, <1>10, <1>11, <1>12, <2>1, TurnMoves DEF AgentInv
<1>14. ServerInv'
  BY <1>2, ServerStays DEF AgentInv, ServerInv, ServerTypes, Connected
<1>15. TempInv'
  <2>1. \A j \in Issues : turn'[j].gen = turn[j].gen /\ turn'[j].pc = turn[j].pc
    BY <1>7, <1>8
  <2> QED
    BY <1>1, <2>1, TempStays DEF Connected
<1> QED
  BY <1>13, <1>14, <1>15 DEF AgentInv, ResultIsOwn, Connected

(* A message that is received, of a turn or of none that there is. *)
LEMMA ReceiveKeeps ==
  ASSUME AgentInv, NEW g \in Generations, Receive(g)
  PROVE  AgentInv'
<1>1. wire[g] # <<>> /\ wire' = [wire EXCEPT ![g] = Tail(@)] /\ Connected
  BY DEF Receive, Connected, hosting, server, supervisor
<1>2. PICK m \in Messages : m = Head(wire[g])
  BY <1>1, ReceivedOnce
<1>3. m.issue \in Issues
  BY DEF Messages
<1>4. CASE turn[m.issue].gen = g
  <2>1. Received(m.issue, m)
    BY <1>2, <1>4 DEF Receive
  <2>2. CASE m.kind \in Answers
    BY <1>1, <1>2, <2>1, <2>2, ReceiveThreadKeeps, ReceiveMissingKeeps, ReceiveTurnKeeps DEF Answers
  <2>3. CASE m.kind \notin Answers
    <3>1. Notified(m.issue, m)
      BY <2>1, <2>3 DEF Received, Answers
    <3> QED
      BY <1>1, <1>2, <2>3, <3>1, ReceiveToldKeeps
  <2> QED
    BY <2>2, <2>3
<1>5. CASE turn[m.issue].gen # g
  <2> DEFINE i == m.issue
  <2>1. UNCHANGED <<turn, starting, interrupts, removing>>
    BY <1>2, <1>5 DEF Receive
  <2>2. /\ wire' \in [Generations -> Seq(Messages)]
        /\ \A h \in Generations : wire'[h] = wire[h] \/ (wire[h] # <<>> /\ wire'[h] = Tail(wire[h]))
    BY <1>1, ReceivedOnce
  <2>3. PICK t \in Turns, buffer \in Seq(Messages) :
          /\ t = turn[i] /\ turn' = [turn EXCEPT ![i] = t]
          /\ buffer = starting[i] /\ starting' = [starting EXCEPT ![i] = buffer]
    BY <1>3, <2>1 DEF AgentInv, TurnInv, TurnTypes
  <2>4. /\ UNCHANGED <<alive, working, count, completed, sessions, temp, removing, interrupts>>
        /\ sessions' \subseteq Issues /\ temp' \subseteq Issues /\ removing' \subseteq Issues
    BY <1>1, <2>1 DEF Connected, AgentInv, TurnInv, TurnTypes
  <2>5. Buffers(i)' /\ Placed(i)' /\ Streamed(i)'
    <3>1. UNCHANGED <<turn, starting, working, count, completed, interrupts>>
      BY <2>1, <2>4
    <3>2. i \in Issues /\ turn[i] \in Turns /\ Buffers(i) /\ Placed(i) /\ Streamed(i)
      BY <1>3 DEF AgentInv, TurnInv, TurnTypes
    <3> HIDE DEF i
    <3>3. Buffers(i)' /\ Placed(i)'
      BY <3>1, <3>2 DEF Buffers, Placed, So, Of
    <3>4. Streamed(i)'
      BY <3>1, <3>2, StreamedStays
    <3> QED
      BY <3>3, <3>4
  <2>6. turn[i].pc \in {"starting", "streaming"} =>
          \/ t.pc \in {"starting", "streaming"} /\ t.no # 0
          \/ \A w \in working : w.issue = i /\ w.no = turn[i].no => FALSE
    BY <2>3 DEF AgentInv, TurnInv, Worked
  <2>7. TurnInv'
    <3> HIDE DEF i
    <3> QED
      BY <1>3, <2>1, <2>2, <2>3, <2>4, <2>5, <2>6, TurnMoves DEF AgentInv, i
  <2>8. ServerInv'
    BY <1>1, <2>2, ServerStays DEF AgentInv, ServerInv, ServerTypes, Connected
  <2>9. TempInv'
    BY <1>1, <2>1, TempStays DEF Connected
  <2> QED
    BY <1>1, <2>7, <2>8, <2>9 DEF AgentInv, ResultIsOwn, Connected
<1> QED
  BY <1>4, <1>5

-----------------------------------------------------------------------------
(* What concerns all turns of a connection, or of the Runtime. *)
LEMMA TurnsStay ==
  ASSUME TurnInv, turn' \in [Issues -> Turns],
         \A i \in Issues :
           /\ turn'[i].pc = turn[i].pc /\ turn'[i].gen = turn[i].gen /\ turn'[i].no = turn[i].no
           /\ turn'[i].asked = turn[i].asked /\ turn'[i].last = turn[i].last
           /\ turn[i].pc # "streaming" => turn'[i].ended = turn[i].ended,
         UNCHANGED <<starting, sessions, temp, removing, wire, alive, working, count, completed>>,
         interrupts \subseteq interrupts',
         \A r \in interrupts' : \/ r \in interrupts
                                 \/ \E i \in Issues : /\ r = <<i, turn[i].no, turn[i].gen>>
                                                      /\ turn[i].pc = "streaming",
         (\A m \in Messages : So(m) => So(m)') => \A i \in Issues : Streamed(i)'
  PROVE  TurnInv'
<1>1. \A m \in Messages : So(m) => So(m)'
  <2>1. \A m \in Messages : m.issue \in Issues
    BY DEF Messages
  <2> QED
    BY <2>1 DEF So, Of
<1>2. \A i \in Issues : turn[i].pc = "streaming" => turn[i].no # 0 /\ turn[i].no \in Nat
                          /\ turn[i].no <= count[i] /\ turn[i].gen \in Generations
  <2>1. ASSUME NEW i \in Issues, turn[i].pc = "streaming"
        PROVE  turn[i].no # 0 /\ turn[i].no \in Nat /\ turn[i].no <= count[i] /\ turn[i].gen \in Generations
    <3>1. turn[i] \in Turns /\ Placed(i) /\ Streamed(i)
      BY DEF TurnInv, TurnTypes
    <3> QED
      BY <2>1, <3>1 DEF Turns, Placed, Streamed, Reads
  <2> QED
    BY <2>1
<1>3. TurnTypes'
  <2>1. ASSUME NEW r \in interrupts' PROVE r \in Issues \X Nat \X Generations
    <3>1. CASE r \in interrupts
      BY <3>1 DEF TurnInv, TurnTypes
    <3>2. ASSUME NEW i \in Issues, r = <<i, turn[i].no, turn[i].gen>>, turn[i].pc = "streaming"
          PROVE  r \in Issues \X Nat \X Generations
      BY <1>2, <3>2
    <3> QED
      BY <3>1, <3>2
  <2> QED
    BY <2>1 DEF TurnInv, TurnTypes
<1>4. ASSUME NEW g \in Generations PROVE AnsweredOnce(g)' /\ Told(g)'
  <2>1. \A k \in 1 .. Len(wire[g]) : wire[g][k] \in Messages /\ wire[g][k].issue \in Issues
    <3>1. \A k \in 1 .. Len(wire[g]) : wire[g][k] \in Messages
      BY DEF TurnInv, TurnTypes
    <3> QED
      BY <3>1 DEF Messages
  <2>2. AnsweredOnce(g)'
    BY <2>1 DEF TurnInv, AnsweredOnce, Asked
  <2>3. Told(g)'
    <3>1. ASSUME NEW k \in 1 .. Len(wire[g]), wire[g][k].kind \notin Answers PROVE So(wire[g][k])'
      <4>1. PICK m \in Messages : m = wire[g][k]
        BY <2>1
      <4>2. So(m)'
        BY <1>1, <3>1, <4>1 DEF TurnInv, Told
      <4> QED
        BY <4>1, <4>2 DEF So, Of
    <3> QED
      BY <3>1 DEF Told
  <2> QED
    BY <2>2, <2>3
<1>5. Worked' /\ TurnsAreWatched'
  <2>1. \A w \in working : w.issue \in Issues
    BY DEF TurnInv, TurnTypes, Works
  <2>2. Worked'
    BY <2>1 DEF TurnInv, Worked
  <2>3. TurnsAreWatched'
    BY <2>1 DEF TurnInv, TurnsAreWatched
  <2> QED
    BY <2>2, <2>3
<1>6. Interrupted'
  <2>1. ASSUME NEW r \in interrupts'
        PROVE  /\ r[2] # 0 /\ r[2] <= count[r[1]]
               /\ turn'[r[1]].no = r[2] => turn'[r[1]].gen = r[3]
               /\ \A w \in working : w.issue = r[1] /\ w.no = r[2] => w.gen = r[3]
    <3>1. CASE r \in interrupts
      BY <3>1 DEF TurnInv, TurnTypes, Interrupted
    <3>2. ASSUME NEW i \in Issues, r = <<i, turn[i].no, turn[i].gen>>, turn[i].pc = "streaming"
          PROVE  /\ r[2] # 0 /\ r[2] <= count[r[1]]
                 /\ turn'[r[1]].no = r[2] => turn'[r[1]].gen = r[3]
                 /\ \A w \in working : w.issue = r[1] /\ w.no = r[2] => w.gen = r[3]
      BY <1>2, <3>2 DEF TurnInv, Worked
    <3> QED
      BY <3>1, <3>2
  <2> QED
    BY <2>1 DEF Interrupted
<1>7. ASSUME NEW i \in Issues PROVE Buffers(i)' /\ Placed(i)'
  <2>1. ASSUME NEW k \in 1 .. Len(starting[i]) PROVE So(starting[i][k])'
    <3>1. PICK m \in Messages : m = starting[i][k]
      BY DEF TurnInv, TurnTypes
    <3>2. So(m)'
      BY <1>1, <3>1 DEF TurnInv, Buffers
    <3> QED
      BY <3>1, <3>2 DEF So, Of
  <2>2. Buffers(i)'
    BY <2>1 DEF TurnInv, Buffers
  <2>3. Placed(i)'
    BY DEF TurnInv, Placed
  <2> QED
    BY <2>2, <2>3
<1> QED
  BY <1>1, <1>3, <1>4, <1>5, <1>6, <1>7 DEF TurnInv

(* The loss of a connection fails the queues of its turns, which work no more. *)
LEMMA DisconnectKeeps ==
  ASSUME AgentInv, NEW g \in Generations, Disconnect(g)
  PROVE  AgentInv'
<1>1. /\ conn[g] = "closing" /\ wire[g] = <<>> /\ conn' = [conn EXCEPT ![g] = "closed"]
      /\ turn' = [i \in Issues |->
           IF turn[i].gen = g /\ turn[i].pc = "streaming" /\ turn[i].ended = "no"
             THEN [turn[i] EXCEPT !.ended = "failed"] ELSE turn[i]]
      /\ UNCHANGED <<launch, alive, exited, child, connection, generation, stopping, restarts, host,
                     client, draining, starting, sessions, temp, removing, wire, working, count, completed,
                     interrupts, foreign>>
  BY DEF Disconnect, DisconnectedQueue, supervisor, hosting, directories, server
<1>2. turn \in [Issues -> Turns]
  BY DEF AgentInv, TurnInv, TurnTypes
<1>3. ASSUME NEW i \in Issues
      PROVE  /\ turn'[i] \in Turns
             /\ turn'[i].pc = turn[i].pc /\ turn'[i].gen = turn[i].gen /\ turn'[i].no = turn[i].no
             /\ turn'[i].asked = turn[i].asked /\ turn'[i].last = turn[i].last
             /\ turn[i].pc # "streaming" => turn'[i].ended = turn[i].ended
             /\ turn'[i].aborted = turn[i].aborted /\ turn'[i].fed = turn[i].fed
             /\ turn'[i].ended = turn[i].ended
                \/ (turn[i].gen = g /\ turn[i].pc = "streaming" /\ turn'[i].ended = "failed")
  <2>1. turn[i] \in Turns
    BY <1>2
  <2>2. CASE turn'[i] = turn[i]
    BY <2>1, <2>2
  <2>3. CASE turn[i].gen = g /\ turn[i].pc = "streaming" /\ turn'[i] = [turn[i] EXCEPT !.ended = "failed"]
    BY <2>1, <2>3 DEF Turns
  <2> QED
    BY <1>1, <2>2, <2>3
<1>4. \A w \in working : w.gen # g
  BY <1>1, ClosingIsGone DEF AgentInv
<1>5. ASSUME \A m \in Messages : So(m) => So(m)', NEW i \in Issues, turn'[i].pc = "streaming"
      PROVE  Streamed(i)'
  <2>1. Reads(i, turn[i])
    BY <1>3, <1>5 DEF AgentInv, TurnInv, Streamed
  <2>2. PICK t \in Turns : t = turn'[i]
    BY <1>3
  <2>3. turn[i].gen = g => \A w \in working : ~(w.issue = i /\ w.no = turn[i].no)
    BY <1>4 DEF AgentInv, TurnInv, Worked
  <2>4. Reads(i, t)
    BY <1>3, <2>1, <2>2, <2>3 DEF Reads
  <2>5. Reads(i, t)'
    BY <1>1, <1>5, <2>4, ReadsStay
  <2>6. t.aborted => \A w \in working : w.issue = i /\ w.no = t.no => <<i, t.no, t.gen>> \in interrupts
    BY <1>3, <1>5, <2>2 DEF AgentInv, TurnInv, Streamed
  <2> QED
    BY <1>1, <2>2, <2>5, <2>6, StreamedIs
<1>6. TurnInv'
  <2>1. turn' \in [Issues -> Turns]
    BY <1>1, <1>3
  <2>2. (\A m \in Messages : So(m) => So(m)') => \A i \in Issues : Streamed(i)'
    BY <1>5 DEF Streamed
  <2> QED
    BY <1>1, <1>3, <2>1, <2>2, TurnsStay DEF AgentInv
<1>7. ServerInv'
  <2>1. ServerTypes'
    BY <1>1 DEF AgentInv, ServerInv, ServerTypes
  <2>2. ASSUME NEW h \in Generations PROVE Launched(h)'
    <3>1. conn'[h] = conn[h] \/ (h = g /\ conn'[h] = "closed")
      BY <1>1
    <3> QED
      BY <1>1, <3>1 DEF AgentInv, ServerInv, Launched
  <2> QED
    BY <1>1, <2>1, <2>2 DEF AgentInv, ServerInv
<1>8. TempInv'
  BY <1>1, <1>3, TempStays
<1> QED
  BY <1>1, <1>6, <1>7, <1>8 DEF AgentInv, ResultIsOwn

(* An abort interrupts the turns that are read, which is asked of a process that runs. *)
LEMMA AbortedKeeps ==
  ASSUME AgentInv, NEW issues, issues \subseteq Issues, Aborted(issues), draining' \in BOOLEAN
  PROVE  AgentInv'
<1>1. /\ turn' = [i \in Issues |->
           IF i \in issues /\ turn[i].pc # "idle" THEN [turn[i] EXCEPT !.aborted = TRUE] ELSE turn[i]]
      /\ UNCHANGED <<supervisor, launch, alive, exited, child, connection, generation, stopping, restarts,
                     host, client, conn, starting, sessions, temp, removing, wire, working, count,
                     completed, foreign>>
  BY DEF Aborted, supervisor, directories, server
<1> DEFINE told == {j \in issues : /\ turn[j].pc = "streaming" /\ turn[j].ended = "no" /\ ~turn[j].aborted
                                   /\ turn[j].gen \in alive}
<1>2. interrupts' = interrupts \cup {<<i, turn[i].no, turn[i].gen>> : i \in told}
  BY DEF Aborted
<1>3. turn \in [Issues -> Turns]
  BY DEF AgentInv, TurnInv, TurnTypes
<1>4. ASSUME NEW i \in Issues
      PROVE  /\ turn'[i] \in Turns
             /\ turn'[i].pc = turn[i].pc /\ turn'[i].gen = turn[i].gen /\ turn'[i].no = turn[i].no
             /\ turn'[i].asked = turn[i].asked /\ turn'[i].last = turn[i].last
             /\ turn'[i].ended = turn[i].ended /\ turn'[i].fed = turn[i].fed
  <2>1. turn[i] \in Turns
    BY <1>3
  <2>2. CASE turn'[i] = turn[i]
    BY <2>1, <2>2
  <2>3. CASE turn'[i] = [turn[i] EXCEPT !.aborted = TRUE]
    BY <2>1, <2>3 DEF Turns
  <2> QED
    BY <1>1, <2>2, <2>3
<1>5. ASSUME \A m \in Messages : So(m) => So(m)', NEW i \in Issues, turn'[i].pc = "streaming"
      PROVE  Streamed(i)'
  <2>1. Reads(i, turn[i])
    BY <1>4, <1>5 DEF AgentInv, TurnInv, Streamed
  <2>2. PICK t \in Turns : t = turn'[i]
    BY <1>4
  <2>3. Reads(i, t)
    BY <1>4, <2>1, <2>2 DEF Reads
  <2>4. Reads(i, t)'
    BY <1>1, <1>5, <2>3, ReadsStay
  <2>5. ASSUME t.aborted, NEW w \in working, w.issue = i, w.no = t.no
        PROVE  <<i, t.no, t.gen>> \in interrupts'
    <3>1. t.no = turn[i].no /\ t.gen = turn[i].gen /\ turn[i].pc = "streaming"
      BY <1>4, <1>5, <2>2
    <3>2. CASE turn[i].aborted
      BY <1>2, <2>5, <3>1, <3>2 DEF AgentInv, TurnInv, Streamed
    <3>3. CASE ~turn[i].aborted
      <4>1. i \in issues
        BY <1>1, <2>2, <2>5, <3>3
      <4>2. turn[i].gen \in alive
        BY <2>5, <3>1 DEF AgentInv, TurnInv, Worked
      <4>3. turn[i].ended = "no"
        BY <2>1, <2>5, <3>1 DEF Reads
      <4> QED
        BY <1>2, <3>1, <3>3, <4>1, <4>2, <4>3
    <3> QED
      BY <3>2, <3>3
  <2> QED
    BY <1>1, <2>2, <2>4, <2>5, StreamedIs
<1>6. TurnInv'
  <2>1. turn' \in [Issues -> Turns]
    BY <1>1, <1>4
  <2>2. (\A m \in Messages : So(m) => So(m)') => \A i \in Issues : Streamed(i)'
    BY <1>5 DEF Streamed
  <2>3. \A r \in interrupts' : \/ r \in interrupts
                                \/ \E i \in Issues : /\ r = <<i, turn[i].no, turn[i].gen>>
                                                     /\ turn[i].pc = "streaming"
    BY <1>2
  <2> HIDE DEF told
  <2>4. interrupts \subseteq interrupts'
    BY <1>2
  <2> QED
    BY <1>1, <1>4, <2>1, <2>2, <2>3, <2>4, TurnsStay DEF AgentInv
<1>7. ServerInv'
  BY <1>1, ServerStays DEF AgentInv, ServerInv, ServerTypes
<1>8. TempInv'
  BY <1>1, <1>4, TempStays
<1> QED
  BY <1>1, <1>6, <1>7, <1>8 DEF AgentInv, ResultIsOwn

-----------------------------------------------------------------------------
(* The app-server. *)

(* A message is sent: an answer to who waits for one, or what is so. *)
LEMMA SentKeeps ==
  ASSUME TurnInv, \A n \in Messages : So(n) => So(n)',
         NEW g \in Generations, NEW m \in Messages, wire' = [wire EXCEPT ![g] = Append(@, m)],
         \A h \in Generations, n \in Messages :
           Asked(h, n) /\ (n.issue # m.issue \/ m.kind \notin Answers) => Asked(h, n)',
         m.kind \in Answers => turn[m.issue].asked # "none" /\ Asked(g, m)',
         m.kind \notin Answers => So(m)'
  PROVE  /\ wire' \in [Generations -> Seq(Messages)]
         /\ \A h \in Generations : AnsweredOnce(h)' /\ Told(h)'
<1>1. wire \in [Generations -> Seq(Messages)]
  BY DEF TurnInv, TurnTypes
<1>2. wire[g] \in Seq(Messages)
  BY <1>1
<1>3. /\ Append(wire[g], m) \in Seq(Messages) /\ Len(Append(wire[g], m)) = Len(wire[g]) + 1
      /\ Append(wire[g], m)[Len(wire[g]) + 1] = m
      /\ \A k \in 1 .. Len(wire[g]) : Append(wire[g], m)[k] = wire[g][k]
  BY <1>2
<1>4. wire'[g] = Append(wire[g], m) /\ \A h \in Generations : h # g => wire'[h] = wire[h]
  BY <1>1
<1>5. wire' \in [Generations -> Seq(Messages)]
  BY <1>1, <1>3
<1>6. ASSUME NEW h \in Generations, NEW k \in 1 .. Len(wire'[h])
      PROVE  /\ wire'[h][k] \in Messages
             /\ \/ k \in 1 .. Len(wire[h]) /\ wire'[h][k] = wire[h][k]
                \/ h = g /\ k = Len(wire[g]) + 1 /\ wire'[h][k] = m
  <2>1. wire'[h] \in Seq(Messages)
    BY <1>5
  <2>2. CASE h = g /\ k = Len(wire[g]) + 1
    BY <1>3, <1>4, <2>1, <2>2
  <2>3. CASE h = g /\ k # Len(wire[g]) + 1
    <3>1. k \in 1 .. Len(wire[g])
      BY <1>2, <1>3, <1>4, <2>3
    <3> QED
      BY <1>3, <1>4, <2>1, <2>3, <3>1
  <2>4. CASE h # g
    BY <1>4, <2>1, <2>4
  <2> QED
    BY <2>2, <2>3, <2>4
<1>7. ASSUME NEW h \in Generations PROVE AnsweredOnce(h)' /\ Told(h)'
  <2>1. AnsweredOnce(h) /\ Told(h)
    BY DEF TurnInv
  <2>2. ASSUME m.kind \in Answers, NEW k \in 1 .. Len(wire[h]), wire[h][k].kind \in Answers
        PROVE  wire[h][k].issue # m.issue
    BY <2>1, <2>2 DEF AnsweredOnce, Asked
  <2>3. ASSUME NEW k \in 1 .. Len(wire'[h]), wire'[h][k].kind \in Answers
        PROVE  Asked(h, wire[h][k])'
    <3>1. PICK n \in Messages : n = wire'[h][k]
      BY <1>6
    <3>2. Asked(h, n)'
      <4>1. CASE k \in 1 .. Len(wire[h]) /\ n = wire[h][k]
        <5>1. Asked(h, n)
          BY <2>1, <2>3, <3>1, <4>1 DEF AnsweredOnce
        <5>2. n.issue # m.issue \/ m.kind \notin Answers
          BY <2>2, <2>3, <3>1, <4>1
        <5> QED
          BY <5>1, <5>2
      <4>2. CASE h = g /\ n = m
        BY <2>3, <3>1, <4>2
      <4> QED
        BY <1>6, <3>1, <4>1, <4>2
    <3> QED
      BY <3>1, <3>2 DEF Asked
  <2>4. ASSUME NEW k \in 1 .. Len(wire'[h]), NEW l \in 1 .. Len(wire'[h]),
               wire'[h][k].kind \in Answers, wire'[h][l].kind \in Answers,
               wire'[h][k].issue = wire'[h][l].issue
        PROVE  k = l
    <3>1. CASE k \in 1 .. Len(wire[h]) /\ wire'[h][k] = wire[h][k] /\ l \in 1 .. Len(wire[h]) /\ wire'[h][l] = wire[h][l]
      BY <2>1, <2>4, <3>1 DEF AnsweredOnce
    <3>2. CASE wire'[h][k] = m /\ l \in 1 .. Len(wire[h]) /\ wire'[h][l] = wire[h][l]
      BY <2>2, <2>4, <3>2
    <3>3. CASE wire'[h][l] = m /\ k \in 1 .. Len(wire[h]) /\ wire'[h][k] = wire[h][k]
      BY <2>2, <2>4, <3>3
    <3>4. CASE k = Len(wire[g]) + 1 /\ l = Len(wire[g]) + 1
      BY <3>4
    <3> QED
      BY <1>6, <3>1, <3>2, <3>3, <3>4
  <2>5. ASSUME NEW k \in 1 .. Len(wire'[h]), wire'[h][k].kind \notin Answers
        PROVE  So(wire[h][k])'
    <3>1. PICK n \in Messages : n = wire'[h][k]
      BY <1>6
    <3>2. So(n)'
      <4>1. CASE k \in 1 .. Len(wire[h]) /\ n = wire[h][k]
        BY <2>1, <2>5, <3>1, <4>1 DEF Told
      <4>2. CASE n = m
        BY <2>5, <3>1, <4>2
      <4> QED
        BY <1>6, <3>1, <4>1, <4>2
    <3> QED
      BY <3>1, <3>2 DEF So, Of
  <2> QED
    BY <2>3, <2>4, <2>5 DEF AnsweredOnce, Told
<1> QED
  BY <1>5, <1>7

(* The answer to thread/start or resume, and that to turn/start of the turn it has taken. *)
LEMMA AnswerKeeps ==
  ASSUME AgentInv, NEW i \in Issues, NEW kind \in Answers,
         kind \in {"thread", "missing"} => turn[i].pc = "threading" /\ turn[i].asked = "sent",
         kind = "turn" => turn[i].pc = "starting" /\ turn[i].asked = "taken",
         Serves(turn[i].gen), Send(turn[i].gen, Message(kind, i, 0)),
         Set(i, [turn[i] EXCEPT !.asked = "none"]),
         UNCHANGED <<supervisor, hosting, conn, starting, sessions, directories, server, interrupts, foreign>>
  PROVE  AgentInv'
<1> DEFINE m == Message(kind, i, 0)
           t == [turn[i] EXCEPT !.asked = "none"]
<1>1. /\ UNCHANGED <<supervisor, host, client, draining, conn, starting, sessions, temp, removing, working,
                     count, completed, interrupts, foreign, alive, generation>>
      /\ turn' = [turn EXCEPT ![i] = t]
  BY DEF Set, hosting, directories, server, supervisor
<1>2. /\ turn[i] \in Turns /\ starting[i] \in Seq(Messages) /\ count[i] \in Nat
      /\ starting' = [starting EXCEPT ![i] = starting[i]]
      /\ sessions' \subseteq Issues /\ temp' \subseteq Issues /\ removing' \subseteq Issues
      /\ Placed(i) /\ Buffers(i)
  BY <1>1 DEF AgentInv, TurnInv, TurnTypes
<1>3. turn[i].gen \in Generations /\ turn[i].pc \in {"threading", "starting"} /\ turn[i].asked # "none"
  BY <1>2 DEF Placed, Turns, Answers
<1>4. m \in Messages /\ m.kind = kind /\ m.issue = i
  BY DEF Message, Messages, Kinds
<1>5. t \in Turns /\ t.pc = turn[i].pc /\ t.gen = turn[i].gen /\ t.no = turn[i].no /\ t.asked = "none"
      /\ t.last = turn[i].last /\ t.ended = turn[i].ended
  BY <1>2 DEF Turns
<1>6. wire' = [wire EXCEPT ![turn[i].gen] = Append(@, m)]
  BY DEF Send
<1> HIDE DEF m, t
<1>7. turn'[i] = t /\ \A j \in Issues : j # i => turn'[j] = turn[j]
  BY <1>1 DEF AgentInv, TurnInv, TurnTypes
<1>8. \A h \in Generations, n \in Messages :
        Asked(h, n) /\ (n.issue # m.issue \/ m.kind \notin Answers) => Asked(h, n)'
  <2>1. \A n \in Messages : n.issue \in Issues
    BY DEF Messages
  <2> QED
    BY <1>4, <1>7, <2>1 DEF Asked
<1>9. PICK g \in Generations, n \in Messages : g = turn[i].gen /\ n = m
  BY <1>3, <1>4
<1>10. Asked(g, n)'
  BY <1>3, <1>4, <1>5, <1>7, <1>9 DEF Asked, Answers
<1>11. Buffers(i)' /\ Placed(i)' /\ Streamed(i)'
  <2>1. \A k \in Messages : So(k) => So(k)'
    <3>1. \A k \in Messages : k.issue \in Issues
      BY DEF Messages
    <3>2. \A j \in Issues : turn'[j].no = turn[j].no
      BY <1>5, <1>7
    <3> QED
      BY <1>1, <3>1, <3>2 DEF So, Of
  <2>2. Buffers(i)'
    <3>1. ASSUME NEW k \in 1 .. Len(starting[i]) PROVE So(starting[i][k])'
      <4>1. PICK b \in Messages : b = starting[i][k]
        BY <1>2
      <4>2. So(b)'
        BY <1>2, <2>1, <4>1 DEF Buffers
      <4> QED
        BY <1>1, <4>1, <4>2 DEF So, Of
    <3> QED
      BY <1>1, <1>2, <1>5, <1>7, <3>1 DEF Buffers
  <2>3. Placed(i)'
    BY <1>1, <1>2, <1>3, <1>5, <1>7 DEF Placed, Answers
  <2> QED
    BY <1>3, <1>5, <1>7, <2>2, <2>3 DEF Streamed
<1>12. wire' \in [Generations -> Seq(Messages)]
      /\ ((\A k \in Messages : So(k) => So(k)') => \A h \in Generations : AnsweredOnce(h)' /\ Told(h)')
  <2>1. wire' = [wire EXCEPT ![g] = Append(@, n)] /\ n.kind \in Answers /\ turn[n.issue].asked # "none"
    BY <1>3, <1>4, <1>6, <1>9
  <2>2. \A h \in Generations, k \in Messages :
          Asked(h, k) /\ (k.issue # n.issue \/ n.kind \notin Answers) => Asked(h, k)'
    BY <1>8, <1>9
  <2>3. (\A k \in Messages : So(k) => So(k)') => \A h \in Generations : AnsweredOnce(h)' /\ Told(h)'
    BY <1>10, <2>1, <2>2, SentKeeps DEF AgentInv
  <2>4. wire' \in [Generations -> Seq(Messages)]
    BY <2>1 DEF AgentInv, TurnInv, TurnTypes
  <2> QED
    BY <2>3, <2>4
<1>13. TurnInv'
  <2>1. turn[i].pc \in {"starting", "streaming"} => t.pc \in {"starting", "streaming"} /\ t.no # 0
    BY <1>2, <1>3, <1>5 DEF Placed, Answers
  <2> QED
    BY <1>1, <1>2, <1>5, <1>11, <1>12, <2>1, TurnChanges DEF AgentInv
<1>14. ServerInv'
  <2>1. \A h \in Generations : wire'[h] # <<>> => wire[h] # <<>> \/ conn[h] = "open"
    BY <1>6 DEF Serves, AgentInv, TurnInv, TurnTypes
  <2> QED
    BY <1>1, <2>1, ServerStays DEF AgentInv, ServerInv, ServerTypes
<1>15. TempInv'
  BY <1>1, <1>5, <1>7, TempStays
<1> QED
  BY <1>1, <1>13, <1>14, <1>15 DEF AgentInv, ResultIsOwn

(* A turn at work goes on or ends, and what it says of that is so. *)
LEMMA WorkGoesOn ==
  ASSUME AgentInv, NEW g \in Generations, Serves(g), NEW m \in Messages, m.kind \notin Answers,
         wire' = [wire EXCEPT ![g] = Append(@, m)], So(m)',
         UNCHANGED <<supervisor, hosting, conn, turn, starting, sessions, directories, count, foreign>>,
         working' \subseteq Works,
         \A v \in working' : \E w \in working :
           /\ v.issue = w.issue /\ v.no = w.no /\ v.gen = w.gen /\ v.cli = w.cli
           /\ w.retried => v.retried,
         \A v, w \in working' : v.issue = w.issue /\ v.no = w.no => v = w,
         interrupts' \subseteq interrupts,
         \A r \in interrupts \ interrupts' : \A v \in working' : <<v.issue, v.no, v.gen>> # r,
         completed \subseteq completed', completed' \subseteq Issues \X Nat
  PROVE  AgentInv'
<1>1. UNCHANGED <<supervisor, host, client, draining, conn, turn, starting, sessions, temp, removing, count,
                  foreign, alive, generation>>
  BY DEF hosting, directories, supervisor
<1>2. \A n \in Messages : So(n) => So(n)'
  <2>1. \A j \in Issues : count[j] \in Nat /\ count'[j] \in Nat /\ count'[j] >= count[j]
    BY <1>1 DEF AgentInv, TurnInv, TurnTypes
  <2>2. \A w \in working' :
           \E v \in working : v.issue = w.issue /\ v.no = w.no /\ (v.retried => w.retried)
    OBVIOUS
  <2> QED
    BY <1>1, <2>1, <2>2, StillSo
<1>3. wire' \in [Generations -> Seq(Messages)] /\ \A h \in Generations : AnsweredOnce(h)' /\ Told(h)'
  <2>1. \A h \in Generations, n \in Messages :
          Asked(h, n) /\ (n.issue # m.issue \/ m.kind \notin Answers) => Asked(h, n)'
    BY <1>1 DEF Asked
  <2>2. m.kind \in Answers => turn[m.issue].asked # "none" /\ Asked(g, m)'
    OBVIOUS
  <2>3. m.kind \notin Answers => So(m)'
    OBVIOUS
  <2> QED
    BY <1>2, <2>1, <2>2, <2>3, SentKeeps DEF AgentInv
<1>4. TurnTypes'
  BY <1>1, <1>3 DEF AgentInv, TurnInv, TurnTypes
<1>5. Worked'
  BY <1>1 DEF AgentInv, TurnInv, Worked
<1>6. Interrupted'
  BY <1>1 DEF AgentInv, TurnInv, Interrupted
<1>7. TurnsAreWatched'
  <2>1. ASSUME NEW v \in working'
        PROVE  \/ v.cli \/ v.retried
               \/ turn[v.issue].no = v.no /\ turn[v.issue].pc \in {"starting", "streaming"}
               \/ <<v.issue, v.no, v.gen>> \in interrupts'
    <3>1. PICK w \in working :
            /\ v.issue = w.issue /\ v.no = w.no /\ v.gen = w.gen /\ v.cli = w.cli
            /\ w.retried => v.retried
      OBVIOUS
    <3>2. \/ w.cli \/ w.retried
          \/ turn[w.issue].no = w.no /\ turn[w.issue].pc \in {"starting", "streaming"}
          \/ <<w.issue, w.no, w.gen>> \in interrupts
      BY DEF AgentInv, TurnInv, TurnsAreWatched
    <3>3. <<v.issue, v.no, v.gen>> \in interrupts => <<v.issue, v.no, v.gen>> \in interrupts'
      OBVIOUS
    <3> QED
      BY <3>1, <3>2, <3>3
  <2>2. turn' = turn
    BY <1>1
  <2>3. ASSUME NEW v \in working'
        PROVE  \/ v.cli \/ v.retried
               \/ turn'[v.issue].no = v.no /\ turn'[v.issue].pc \in {"starting", "streaming"}
               \/ <<v.issue, v.no, v.gen>> \in interrupts'
    BY <2>1, <2>2
  <2> QED
    BY <2>3, Zenon DEF TurnsAreWatched
<1>8. ASSUME NEW i \in Issues PROVE Buffers(i)' /\ Placed(i)' /\ Streamed(i)'
  <2>1. Buffers(i) /\ Placed(i) /\ Streamed(i) /\ turn[i] \in Turns /\ starting[i] \in Seq(Messages)
    BY DEF AgentInv, TurnInv, TurnTypes
  <2>2. ASSUME NEW k \in 1 .. Len(starting[i]) PROVE So(starting[i][k])'
    <3>1. PICK b \in Messages : b = starting[i][k]
      BY <2>1
    <3>2. So(b)'
      BY <1>2, <2>1, <3>1 DEF Buffers
    <3> QED
      BY <1>1, <3>1, <3>2 DEF So, Of
  <2>3. Buffers(i)'
    BY <1>1, <2>1, <2>2 DEF Buffers
  <2>4. PICK t \in Turns : t = turn[i]
    BY <2>1
  <2>5. ASSUME t.pc = "streaming" PROVE Reads(i, t)'
    <3>1. Reads(i, t)
      BY <2>1, <2>4, <2>5 DEF Streamed
    <3>2. \A w \in working' : w.issue = i /\ w.no = t.no => \E v \in working : v.issue = i /\ v.no = t.no
      OBVIOUS
    <3>3. <<i, t.no>> \in completed => <<i, t.no>> \in completed'
      OBVIOUS
    <3> QED
      BY <1>2, <3>1, <3>2, <3>3, ReadsStay
  <2>6. ASSUME t.pc = "streaming", t.aborted, NEW v \in working', v.issue = i, v.no = t.no
        PROVE  <<i, t.no, t.gen>> \in interrupts'
    <3>1. PICK w \in working : v.issue = w.issue /\ v.no = w.no /\ v.gen = w.gen
      OBVIOUS
    <3>2. <<i, t.no, t.gen>> \in interrupts
      BY <2>1, <2>4, <2>6, <3>1 DEF Streamed
    <3>3. v.gen = t.gen
      BY <2>4, <2>6, <3>1 DEF AgentInv, TurnInv, Worked
    <3> QED
      BY <2>6, <3>2, <3>3
  <2>7. Streamed(i)'
    BY <1>1, <2>4, <2>5, <2>6, StreamedIs
  <2> QED
    BY <1>1, <2>1, <2>3, <2>7 DEF Placed
<1>9. TurnInv'
  BY <1>3, <1>4, <1>5, <1>6, <1>7, <1>8 DEF TurnInv
<1>10. ServerInv'
  <2>1. \A h \in Generations : wire'[h] # <<>> => wire[h] # <<>> \/ conn[h] = "open"
    BY DEF Serves, AgentInv, TurnInv, TurnTypes
  <2> QED
    BY <1>1, <2>1, ServerStays DEF AgentInv, ServerInv, ServerTypes
<1>11. TempInv'
  BY <1>1, TempStays
<1> QED
  BY <1>1, <1>9, <1>10, <1>11 DEF AgentInv, ResultIsOwn

(* A turn that begins at work, of the Runtime or of the terminal. *)
LEMMA WorkBegins ==
  ASSUME AgentInv, NEW i \in Issues, NEW g \in Generations, g \in alive, NEW cli \in BOOLEAN,
         NEW t \in Turns, turn' = [turn EXCEPT ![i] = t],
         count' = [count EXCEPT ![i] = @ + 1],
         working' = working \cup {Work(i, count[i] + 1, g, cli)},
         UNCHANGED <<supervisor, hosting, conn, starting, sessions, directories, wire, completed, interrupts,
                     foreign>>,
         \/ cli /\ t = turn[i]
         \/ /\ turn[i].pc = "starting" /\ turn[i].asked = "sent" /\ turn[i].gen = g
            /\ t.pc = "starting" /\ t.asked = "taken" /\ t.gen = g /\ t.no = count[i] + 1
            /\ t.last = turn[i].last /\ t.ended = turn[i].ended
  PROVE  AgentInv'
<1>1. UNCHANGED <<supervisor, host, client, draining, conn, starting, sessions, temp, removing, wire,
                  completed, interrupts, foreign, alive, generation>>
  BY DEF hosting, directories, supervisor
<1>2. /\ turn[i] \in Turns /\ \A j \in Issues : count[j] \in Nat /\ turn[j].no \in Nat /\ turn[j].no <= count[j]
      /\ starting[i] \in Seq(Messages)
  BY DEF AgentInv, TurnInv, TurnTypes, Placed, Turns
<1>3. /\ turn'[i] = t /\ \A j \in Issues : j # i => turn'[j] = turn[j]
      /\ count'[i] = count[i] + 1 /\ \A j \in Issues : j # i => count'[j] = count[j]
  BY DEF AgentInv, TurnInv, TurnTypes
<1>4. PICK new \in Works : /\ new = Work(i, count[i] + 1, g, cli) /\ new.issue = i /\ new.no = count[i] + 1
                          /\ new.gen = g /\ new.cli = cli
  <2> DEFINE no == count[i] + 1
  <2>1. no \in Nat
    BY <1>2
  <2> HIDE DEF no
  <2>2. /\ Work(i, no, g, cli) \in Works /\ Work(i, no, g, cli).issue = i /\ Work(i, no, g, cli).no = no
        /\ Work(i, no, g, cli).gen = g /\ Work(i, no, g, cli).cli = cli
    BY <2>1 DEF Work, Works
  <2> QED
    BY <2>2 DEF no
<1>5. working' = working \cup {new}
  BY <1>4
<1>6. \A n \in Messages : So(n) => So(n)'
  <2>1. \A j \in Issues : count[j] \in Nat /\ count'[j] \in Nat /\ count'[j] >= count[j]
    BY <1>2, <1>3
  <2>2. ASSUME NEW w \in working'
        PROVE  \/ w.no > count[w.issue]
               \/ \E v \in working : v.issue = w.issue /\ v.no = w.no /\ (v.retried => w.retried)
    BY <1>2, <1>4, <1>5
  <2>3. ASSUME NEW j \in Issues
        PROVE  \/ turn'[j].no > count[j]
               \/ /\ turn'[j].no = turn[j].no
                  /\ <<j, turn[j].no>> \in completed => <<j, turn[j].no>> \in completed'
    BY <1>1, <1>2, <1>3
  <2> QED
    BY <2>1, <2>2, <2>3, StillSo
<1>7. ASSUME NEW h \in Generations PROVE AnsweredOnce(h)' /\ Told(h)'
  <2>1. \A k \in 1 .. Len(wire[h]) : wire[h][k] \in Messages
    BY DEF AgentInv, TurnInv, TurnTypes
  <2>2. ASSUME NEW k \in 1 .. Len(wire[h]), wire[h][k].kind \in Answers PROVE Asked(h, wire[h][k])'
    <3>1. PICK n \in Messages : n = wire[h][k]
      BY <2>1
    <3>2. Asked(h, n)
      BY <2>2, <3>1 DEF AgentInv, TurnInv, AnsweredOnce
    <3>3. n.issue \in Issues
      BY DEF Messages
    <3>4. n.issue = i => t = turn[i]
      BY <3>2 DEF Asked
    <3>5. turn'[n.issue] = turn[n.issue]
      BY <1>3, <3>3, <3>4
    <3> QED
      BY <1>1, <3>1, <3>2, <3>5 DEF Asked
  <2>3. AnsweredOnce(h)'
    BY <1>1, <2>2 DEF AgentInv, TurnInv, AnsweredOnce
  <2>4. ASSUME NEW k \in 1 .. Len(wire[h]), wire[h][k].kind \notin Answers PROVE So(wire[h][k])'
    <3>1. PICK n \in Messages : n = wire[h][k]
      BY <2>1
    <3>2. So(n)'
      BY <1>6, <2>4, <3>1 DEF AgentInv, TurnInv, Told
    <3> QED
      BY <1>1, <3>1, <3>2 DEF So, Of
  <2> QED
    BY <1>1, <2>3, <2>4 DEF Told
<1>8. TurnTypes'
  BY <1>1, <1>2, <1>5 DEF AgentInv, TurnInv, TurnTypes
<1>9. \A w \in working : w.issue \in Issues /\ w.no \in Nat /\ w.no # 0 /\ w.no <= count[w.issue]
  BY DEF AgentInv, TurnInv, TurnTypes, Worked, Works
<1>10. Worked'
  <2>1. ASSUME NEW w \in working' 
        PROVE  /\ w.gen \in alive' /\ w.no # 0 /\ w.no <= count'[w.issue]
               /\ turn'[w.issue].no = w.no => turn'[w.issue].gen = w.gen
    <3>1. CASE w = new
      BY <1>1, <1>2, <1>3, <1>4, <3>1
    <3>2. CASE w \in working
      <4>1. w.no < count[w.issue] + 1
        BY <1>2, <1>9, <3>2
      <4>2. turn'[w.issue].no = w.no => turn'[w.issue] = turn[w.issue]
        BY <1>2, <1>3, <1>9, <3>2, <4>1
      <4> QED
        BY <1>1, <1>2, <1>3, <1>9, <3>2, <4>2 DEF AgentInv, TurnInv, Worked
    <3> QED
      BY <1>5, <3>1, <3>2
  <2>2. \A w \in working : ~(w.issue = new.issue /\ w.no = new.no)
    BY <1>2, <1>4, <1>9
  <2> QED
    BY <1>5, <2>1, <2>2 DEF AgentInv, TurnInv, Worked
<1>11. Interrupted'
  <2>1. ASSUME NEW r \in interrupts
        PROVE  /\ r[2] # 0 /\ r[2] <= count'[r[1]]
               /\ turn'[r[1]].no = r[2] => turn'[r[1]].gen = r[3]
               /\ \A w \in working' : w.issue = r[1] /\ w.no = r[2] => w.gen = r[3]
    <3>1. r[1] \in Issues /\ r[2] \in Nat /\ r[2] # 0 /\ r[2] <= count[r[1]]
      BY DEF AgentInv, TurnInv, TurnTypes, Interrupted
    <3>2. turn'[r[1]].no = r[2] => turn'[r[1]] = turn[r[1]]
      BY <1>2, <1>3, <3>1
    <3>3. ~(new.issue = r[1] /\ new.no = r[2])
      BY <1>2, <1>4, <3>1
    <3> QED
      BY <1>2, <1>3, <1>5, <3>1, <3>2, <3>3 DEF AgentInv, TurnInv, Interrupted
  <2> QED
    BY <1>1, <2>1 DEF Interrupted
<1>12. TurnsAreWatched'
  <2>1. ASSUME NEW w \in working'
        PROVE  \/ w.cli \/ w.retried
               \/ turn'[w.issue].no = w.no /\ turn'[w.issue].pc \in {"starting", "streaming"}
               \/ <<w.issue, w.no, w.gen>> \in interrupts
    <3>1. CASE w = new
      BY <1>3, <1>4, <3>1
    <3>2. CASE w \in working /\ turn'[w.issue] = turn[w.issue]
      BY <3>2 DEF AgentInv, TurnInv, TurnsAreWatched
    <3>3. CASE w \in working /\ w.issue = i /\ turn[i].pc = "starting" /\ turn[i].asked = "sent"
      <4>1. turn[i].no = 0
        BY <3>3 DEF AgentInv, TurnInv, Placed
      <4> QED
        BY <1>9, <3>3, <4>1 DEF AgentInv, TurnInv, TurnsAreWatched
    <3> QED
      BY <1>3, <1>5, <1>9, <3>1, <3>2, <3>3
  <2> QED
    BY <1>1, <2>1 DEF TurnsAreWatched
<1>13. ASSUME NEW j \in Issues PROVE Buffers(j)' /\ Placed(j)' /\ Streamed(j)'
  <2>1. Buffers(j) /\ Placed(j) /\ Streamed(j) /\ turn[j] \in Turns /\ starting[j] \in Seq(Messages)
        /\ turn'[j].pc = turn[j].pc
    BY <1>3 DEF AgentInv, TurnInv, TurnTypes
  <2>2. ASSUME NEW k \in 1 .. Len(starting[j]) PROVE So(starting[j][k])'
    <3>1. PICK b \in Messages : b = starting[j][k]
      BY <2>1
    <3>2. So(b)'
      BY <1>6, <2>1, <3>1 DEF Buffers
    <3> QED
      BY <1>1, <3>1, <3>2 DEF So, Of
  <2>3. Buffers(j)'
    BY <1>1, <2>1, <2>2 DEF Buffers
  <2>4. Placed(j)'
    <3>1. CASE turn'[j] = turn[j]
      BY <1>2, <1>3, <2>1, <3>1 DEF Placed
    <3>2. CASE j = i /\ turn[i].pc = "starting" /\ t.asked = "taken" /\ t.no = count[i] + 1
               /\ t.gen = turn[i].gen /\ t.last = turn[i].last /\ t.ended = turn[i].ended
      BY <1>2, <1>3, <2>1, <3>2 DEF Placed
    <3> QED
      BY <1>3, <3>1, <3>2
  <2>5. Streamed(j)'
    <3>1. SUFFICES ASSUME turn[j].pc = "streaming" PROVE Streamed(j)'
      BY <2>1 DEF Streamed
    <3>2. turn'[j] = turn[j]
      BY <1>3, <3>1
    <3>3. PICK u \in Turns : u = turn[j]
      BY <2>1
    <3>4. Reads(j, u) /\ u.no \in Nat /\ u.no <= count[j]
      BY <1>2, <2>1, <3>1, <3>3 DEF Streamed
    <3>5. ASSUME NEW w \in working', w.issue = j, w.no = u.no PROVE w \in working
      BY <1>2, <1>4, <1>5, <3>4, <3>5
    <3>6. Reads(j, u)'
      <4>1. \A w \in working' : w.issue = j /\ w.no = u.no => \E v \in working : v.issue = j /\ v.no = u.no
        BY <3>5
      <4>2. <<j, u.no>> \in completed => <<j, u.no>> \in completed'
        BY <1>1
      <4> QED
        BY <1>6, <3>4, <4>1, <4>2, ReadsStay
    <3>7. ASSUME u.aborted, NEW w \in working', w.issue = j, w.no = u.no
          PROVE  <<j, u.no, u.gen>> \in interrupts
      BY <2>1, <3>1, <3>3, <3>5, <3>7 DEF Streamed
    <3>8. Reads(j, turn[j])'
      <4>1. turn'[j] = u
        BY <3>2, <3>3
      <4>2. ASSUME NEW k \in 1 .. Len(u.fed) PROVE Fed(j, turn[j].no, turn[j].fed[k])'
        <5>1. Fed(j, u.no, u.fed[k])'
          BY <3>6 DEF Reads
        <5> QED
          BY <4>1, <5>1 DEF Fed, So, Of
      <4> QED
        BY <3>6, <4>1, <4>2 DEF Reads
    <3> QED
      BY <1>1, <3>2, <3>3, <3>7, <3>8 DEF Streamed
  <2> QED
    BY <2>3, <2>4, <2>5
<1>14. TurnInv'
  BY <1>7, <1>8, <1>10, <1>11, <1>12, <1>13 DEF TurnInv
<1>15. ServerInv'
  BY <1>1, ServerStays DEF AgentInv, ServerInv, ServerTypes
<1>16. TempInv'
  <2>1. \A j \in Issues : turn'[j].gen = turn[j].gen /\ turn'[j].pc = turn[j].pc
    BY <1>3
  <2> QED
    BY <1>1, <2>1, TempStays
<1> QED
  BY <1>1, <1>14, <1>15, <1>16 DEF AgentInv, ResultIsOwn

(* The app-server says that a turn has spoken, has ended, or is tried again, as it is. *)
LEMMA ProgressesKeeps ==
  ASSUME AgentInv, NEW w \in working, Progresses(w)
  PROVE  AgentInv'
<1>1. /\ w \in Works /\ w.issue \in Issues /\ w.no \in Nat /\ w.gen \in Generations /\ w.no # 0
      /\ w.no <= count[w.issue] /\ working \subseteq Works /\ completed \subseteq Issues \X Nat
      /\ \A u, v \in working : v.issue = u.issue /\ v.no = u.no => v = u
  BY DEF AgentInv, TurnInv, TurnTypes, Worked, Works
<1>2. Serves(w.gen) /\ UNCHANGED <<supervisor, hosting, conn, turn, starting, sessions, directories, count,
                                  interrupts, foreign>>
  BY DEF Progresses
<1>3. ASSUME NEW kind \in Kinds \ Answers, kind # "started",
             Send(w.gen, Message(kind, w.issue, w.no)),
             kind \in Ends => working' = working \ {w},
             kind \notin Ends => \E v \in Works :
               /\ working' = (working \ {w}) \cup {v}
               /\ v.issue = w.issue /\ v.no = w.no /\ v.gen = w.gen /\ v.cli = w.cli
               /\ w.retried => v.retried
               /\ kind = "retry" => v.retried,
             kind # "refused",
             completed \subseteq completed', completed' \subseteq completed \cup {<<w.issue, w.no>>},
             kind = "completed" /\ turn[w.issue].no = w.no => <<w.issue, w.no>> \in completed'
      PROVE  AgentInv'
  <2>1. PICK m \in Messages : m = Message(kind, w.issue, w.no) /\ m.kind = kind /\ m.issue = w.issue /\ m.no = w.no
    <3>1. Message(kind, w.issue, w.no) \in Messages
      BY <1>1 DEF Message, Messages
    <3> QED
      BY <3>1 DEF Message
  <2>2. /\ working' \subseteq Works
        /\ \A v \in working' : \E u \in working :
             /\ v.issue = u.issue /\ v.no = u.no /\ v.gen = u.gen /\ v.cli = u.cli /\ (u.retried => v.retried)
        /\ \A v, u \in working' : v.issue = u.issue /\ v.no = u.no => v = u
        /\ kind \in Ends => \A v \in working' : ~(v.issue = w.issue /\ v.no = w.no)
        /\ kind = "retry" => \A v \in working' : v.issue = w.issue /\ v.no = w.no => v.retried
    <3>1. CASE kind \in Ends
      BY <1>1, <1>3, <3>1 DEF Ends
    <3>2. CASE kind \notin Ends
      <4>1. PICK v \in Works :
               /\ working' = (working \ {w}) \cup {v}
               /\ v.issue = w.issue /\ v.no = w.no /\ v.gen = w.gen /\ v.cli = w.cli
               /\ w.retried => v.retried
               /\ kind = "retry" => v.retried
        BY <1>3, <3>2
      <4>2. \A u \in working' : u = v \/ (u \in working /\ ~(u.issue = w.issue /\ u.no = w.no))
        BY <1>1, <4>1
      <4> QED
        BY <1>1, <3>2, <4>1, <4>2
    <3> QED
      BY <3>1, <3>2
  <2>3. So(m)'
    BY <1>1, <1>2, <1>3, <2>1, <2>2 DEF So, Of
  <2>4. wire' = [wire EXCEPT ![w.gen] = Append(@, m)]
    BY <1>3, <2>1 DEF Send
  <2>5. completed' \subseteq Issues \X Nat
    BY <1>1, <1>3
  <2>6. PICK g \in Generations : g = w.gen
    BY <1>1
  <2>7. interrupts' = interrupts /\ Serves(g) /\ wire' = [wire EXCEPT ![g] = Append(@, m)] /\ m.kind \notin Answers
    BY <1>2, <1>3, <2>1, <2>4, <2>6
  <2> QED
    BY <1>2, <1>3, <2>2, <2>3, <2>5, <2>7, WorkGoesOn
<1>4. CASE /\ ~w.said /\ Send(w.gen, Message("message", w.issue, w.no))
           /\ working' = (working \ {w}) \cup {[w EXCEPT !.said = TRUE]}
           /\ UNCHANGED <<completed, faults>>
  <2>1. PICK v \in Works : /\ v = [w EXCEPT !.said = TRUE] /\ v.issue = w.issue /\ v.no = w.no /\ v.gen = w.gen
                          /\ v.cli = w.cli /\ (w.retried => v.retried)
    <3> DEFINE u == [w EXCEPT !.said = TRUE]
    <3>1. u \in Works
      BY <1>1 DEF Works
    <3>2. u.issue = w.issue /\ u.no = w.no /\ u.gen = w.gen /\ u.cli = w.cli /\ (w.retried => u.retried)
      BY <1>1 DEF Works
    <3> QED
      BY <3>1, <3>2
  <2>2. "message" \in Kinds \ Answers /\ "message" \notin Ends
    BY DEF Kinds, Answers, Ends
  <2> QED
    BY <1>3, <1>4, <2>1, <2>2
<1>5. CASE /\ w.said /\ Send(w.gen, Message("completed", w.issue, w.no))
           /\ working' = working \ {w}
           /\ completed' = completed \cup (IF turn[w.issue].no = w.no THEN {<<w.issue, w.no>>} ELSE {})
  BY <1>3, <1>5 DEF Kinds, Answers, Ends
<1>6. CASE /\ Send(w.gen, Message("failed", w.issue, w.no))
           /\ working' = working \ {w} /\ UNCHANGED completed
  BY <1>3, <1>6 DEF Kinds, Answers, Ends
<1>7. CASE /\ Send(w.gen, Message("retry", w.issue, w.no))
           /\ working' = (working \ {w}) \cup {[w EXCEPT !.retried = TRUE]}
           /\ UNCHANGED completed
  <2>1. PICK v \in Works : /\ v = [w EXCEPT !.retried = TRUE] /\ v.issue = w.issue /\ v.no = w.no
                          /\ v.gen = w.gen /\ v.cli = w.cli /\ v.retried
    <3> DEFINE u == [w EXCEPT !.retried = TRUE]
    <3>1. u \in Works
      BY <1>1 DEF Works
    <3>2. u.issue = w.issue /\ u.no = w.no /\ u.gen = w.gen /\ u.cli = w.cli /\ u.retried
      BY <1>1 DEF Works
    <3> QED
      BY <3>1, <3>2
  <2>2. "retry" \in Kinds \ Answers /\ "retry" \notin Ends
    BY DEF Kinds, Answers, Ends
  <2> QED
    BY <1>3, <1>7, <2>1, <2>2
<1> QED
  BY <1>4, <1>5, <1>6, <1>7 DEF Progresses

(* An interrupt that is handled ends its turn, if that works still. *)
LEMMA HandleInterruptKeeps ==
  ASSUME AgentInv, NEW r \in interrupts, HandleInterrupt(r)
  PROVE  AgentInv'
<1>1. /\ r[1] \in Issues /\ r[2] \in Nat /\ r[3] \in Generations /\ r[2] # 0 /\ r[2] <= count[r[1]]
      /\ r = <<r[1], r[2], r[3]>>
      /\ working \subseteq Works /\ completed \subseteq Issues \X Nat
      /\ \A w \in working : w.issue = r[1] /\ w.no = r[2] => w.gen = r[3]
      /\ \A u, v \in working : v.issue = u.issue /\ v.no = u.no => v = u
  BY DEF AgentInv, TurnInv, TurnTypes, Worked, Interrupted
<1>2. /\ Serves(r[3]) /\ working' = working \ TurnsOf(r) /\ interrupts' = interrupts \ {r}
      /\ UNCHANGED <<supervisor, hosting, conn, turn, starting, sessions, directories, count, completed, foreign>>
  BY DEF HandleInterrupt
<1>3. PICK m \in Messages :
        /\ wire' = [wire EXCEPT ![r[3]] = Append(@, m)]
        /\ m.kind \in {"interrupted", "refused"} /\ m.issue = r[1] /\ m.no = r[2]
  <2> DEFINE kind == IF TurnsOf(r) # {} THEN "interrupted" ELSE "refused"
  <2>1. wire' = [wire EXCEPT ![r[3]] = Append(@, Message(kind, r[1], r[2]))]
    BY DEF HandleInterrupt, Send
  <2>2. kind \in {"interrupted", "refused"}
    OBVIOUS
  <2> HIDE DEF kind
  <2>3. Message(kind, r[1], r[2]) \in Messages
    BY <1>1, <2>2 DEF Message, Messages, Kinds, Ends
  <2> QED
    BY <2>1, <2>2, <2>3 DEF Message
<1>4. \A w \in working' : ~(w.issue = r[1] /\ w.no = r[2])
  BY <1>1, <1>2 DEF TurnsOf
<1>5. So(m)'
  BY <1>1, <1>2, <1>3, <1>4 DEF So, Of, Ends
<1>6. \A v \in working' : <<v.issue, v.no, v.gen>> # r
  BY <1>2 DEF TurnsOf
<1>7. PICK g \in Generations : g = r[3]
  BY <1>1
<1>8. /\ working' \subseteq working /\ working' \subseteq Works /\ interrupts' \subseteq interrupts
      /\ \A s \in interrupts \ interrupts' : s = r
      /\ m.kind \notin Answers /\ Serves(g) /\ wire' = [wire EXCEPT ![g] = Append(@, m)]
  BY <1>1, <1>2, <1>3, <1>7 DEF Answers
<1>9. /\ \A v \in working' : \E w \in working :
           /\ v.issue = w.issue /\ v.no = w.no /\ v.gen = w.gen /\ v.cli = w.cli /\ (w.retried => v.retried)
      /\ \A v, w \in working' : v.issue = w.issue /\ v.no = w.no => v = w
      /\ \A s \in interrupts \ interrupts' : \A v \in working' : <<v.issue, v.no, v.gen>> # s
      /\ completed \subseteq completed' /\ completed' \subseteq Issues \X Nat
  BY <1>1, <1>2, <1>6, <1>8
<1> QED
  BY <1>2, <1>5, <1>8, <1>9, WorkGoesOn

(* The app-server takes a turn, and has one of the terminal. *)
LEMMA TakeTurnKeeps ==
  ASSUME AgentInv, NEW i \in Issues, TakeTurn(i)
  PROVE  AgentInv'
<1>1. /\ turn[i].pc = "starting" /\ turn[i].asked = "sent" /\ turn[i].gen \in alive
      /\ turn[i] \in Turns /\ count[i] \in Nat /\ turn[i].gen \in Generations
  BY DEF TakeTurn, Serves, AgentInv, ServerInv, ServerTypes, TurnInv, TurnTypes
<1> DEFINE no == count[i] + 1
<1>2. no \in Nat
  BY <1>1
<1> HIDE DEF no
<1>3. PICK t \in Turns : /\ t = [turn[i] EXCEPT !.asked = "taken", !.no = no]
                        /\ t.pc = "starting" /\ t.asked = "taken" /\ t.gen = turn[i].gen /\ t.no = no
                        /\ t.last = turn[i].last /\ t.ended = turn[i].ended
  <2> DEFINE u == [turn[i] EXCEPT !.asked = "taken", !.no = no]
  <2>1. u \in Turns
    BY <1>1, <1>2 DEF Turns
  <2>2. /\ u.pc = "starting" /\ u.asked = "taken" /\ u.gen = turn[i].gen /\ u.no = no
        /\ u.last = turn[i].last /\ u.ended = turn[i].ended
    BY <1>1 DEF Turns
  <2> QED
    BY <2>1, <2>2
<1>4. PICK g \in Generations : g = turn[i].gen
  BY <1>1
<1>5. /\ turn' = [turn EXCEPT ![i] = t] /\ count' = [count EXCEPT ![i] = @ + 1]
      /\ working' = working \cup {Work(i, count[i] + 1, g, FALSE)}
      /\ UNCHANGED <<supervisor, hosting, conn, starting, sessions, directories, wire, completed, interrupts,
                     foreign>>
  BY <1>3, <1>4 DEF TakeTurn, Set, no
<1>6. t.no = count[i] + 1
  BY <1>3 DEF no
<1> QED
  BY <1>1, <1>3, <1>4, <1>5, <1>6, WorkBegins

(* A turn of the terminal. *)
LEMMA CliTurnKeeps ==
  ASSUME AgentInv, NEW i \in Issues, NEW g \in Generations, CliTurn(i, g)
  PROVE  AgentInv'
<1>1. PICK t \in Turns : t = turn[i] /\ turn' = [turn EXCEPT ![i] = t]
  BY DEF CliTurn, AgentInv, TurnInv, TurnTypes
<1>2. /\ g \in alive /\ count' = [count EXCEPT ![i] = @ + 1]
      /\ working' = working \cup {Work(i, count[i] + 1, g, TRUE)}
      /\ UNCHANGED <<supervisor, hosting, conn, starting, sessions, directories, wire, completed, interrupts,
                     foreign>>
  BY DEF CliTurn, Serves
<1> QED
  BY <1>1, <1>2, WorkBegins

-----------------------------------------------------------------------------
(* The invariant, and what follows from it. *)

(* Nothing has been started. *)
LEMMA InitInv ==
  ASSUME Init
  PROVE  AgentInv
<1>1. <<>> \in Seq(Messages) /\ \A k \in 1 .. Len(<<>>) : FALSE
  OBVIOUS
<1>2. ServerInv
  <2>1. ServerTypes
    <3>1. 0 \in 0 .. RestartLimit + 1 /\ 0 \in 0 .. RestartLimit
      BY GenerationsNumbered
    <3> QED
      BY <3>1 DEF Init, ServerTypes
  <2>2. \A g \in Generations : Launched(g)
    BY GenerationsNumbered DEF Init, Launched
  <2> QED
    BY <2>1, <2>2, GenerationsNumbered DEF Init, ServerInv
<1>3. TurnInv
  <2>1. TurnTypes
    BY <1>1, NoTurnTyped DEF Init, TurnTypes
  <2>2. \A g \in Generations : AnsweredOnce(g) /\ Told(g)
    BY <1>1 DEF Init, AnsweredOnce, Told
  <2>3. Worked /\ Interrupted /\ TurnsAreWatched
    BY DEF Init, Worked, Interrupted, TurnsAreWatched
  <2>4. ASSUME NEW i \in Issues PROVE Buffers(i) /\ Placed(i) /\ Streamed(i)
    <3>1. turn[i] = NoTurn /\ starting[i] = <<>> /\ count[i] = 0
      BY DEF Init
    <3>2. Buffers(i)
      BY <1>1, <3>1, AgentAssumption DEF Buffers
    <3>3. turn[i].pc = "idle" /\ turn[i].no = 0 /\ turn[i].gen = none
      BY <3>1 DEF NoTurn
    <3>4. Placed(i)
      BY <3>1, <3>3 DEF Placed
    <3>5. Streamed(i)
      BY <3>3 DEF Streamed
    <3> QED
      BY <3>2, <3>4, <3>5
  <2> QED
    BY <2>1, <2>2, <2>3, <2>4 DEF TurnInv
<1>4. TempInv
  BY NoTurnTyped DEF Init, TempInv
<1> QED
  BY <1>2, <1>3, <1>4 DEF Init, AgentInv, ResultIsOwn

(* Every step keeps it. *)
LEMMA StepInv ==
  ASSUME AgentInv, [Next]_vars
  PROVE  AgentInv'
<1>1. CASE SupervisorNext
  BY <1>1, SupervisorKeeps
<1>2. CASE RuntimeStops
  BY <1>2, AbortedKeeps DEF RuntimeStops
<1>3. ASSUME NEW g \in Generations, ConnectionNext(g) \/ Exit(g) PROVE AgentInv'
  BY <1>3, ReceiveKeeps, DisconnectKeeps, SupervisorKeeps DEF ConnectionNext
<1>4. ASSUME NEW i \in Issues, StageTurn(i) \/ Cancel(i) PROVE AgentInv'
  <2>1. draining \in BOOLEAN
    BY DEF AgentInv, ServerInv, ServerTypes
  <2>2. CASE Cancel(i)
    <3>1. {i} \subseteq Issues /\ Aborted({i}) /\ draining' \in BOOLEAN
      BY <2>1, <2>2 DEF Cancel
    <3> QED
      BY <3>1, AbortedKeeps
  <2> QED
    BY <1>4, <2>2, StageTurnKeeps
<1>5. ASSUME NEW i \in Issues, TurnNext(i) PROVE AgentInv'
  BY <1>5, OpenThreadKeeps, RequestRejectedKeeps, ConsumeKeeps, RemoveTempKeeps, FinishKeeps DEF TurnNext
<1>6. ASSUME NEW i \in Issues, AnswerThread(i) PROVE AgentInv'
  <2>1. PICK kind \in {"thread", "missing"} : Send(turn[i].gen, Message(kind, i, 0))
    BY <1>6 DEF AnswerThread
  <2>2. kind \in Answers /\ kind # "turn"
    BY DEF Answers
  <2> QED
    BY <1>6, <2>1, <2>2, AnswerKeeps DEF AnswerThread
<1>7. ASSUME NEW i \in Issues, AnswerTurn(i) PROVE AgentInv'
  <2>1. "turn" \in Answers
    BY DEF Answers
  <2> QED
    BY <1>7, <2>1, AnswerKeeps DEF AnswerTurn
<1>8. ASSUME NEW i \in Issues, ServerNext(i) PROVE AgentInv'
  BY <1>6, <1>7, <1>8, TakeTurnKeeps, ProgressesKeeps, HandleInterruptKeeps DEF ServerNext
<1>9. ASSUME NEW i \in Issues, NEW g \in Generations, CliTurn(i, g) PROVE AgentInv'
  BY <1>9, CliTurnKeeps
<1>10. CASE UNCHANGED vars
  <2>1. UNCHANGED <<supervisor, host, client, draining, conn, turn, starting, sessions, temp, removing, wire,
                    working, count, completed, interrupts, foreign, alive, generation>>
    BY <1>10 DEF vars, hosting, directories, server, supervisor
  <2>2. ServerInv'
    BY <2>1, ServerStays DEF AgentInv, ServerInv, ServerTypes
  <2>3. TurnInv'
    <3>1. turn' \in [Issues -> Turns]
      BY <2>1 DEF AgentInv, TurnInv, TurnTypes
    <3>2. ASSUME NEW i \in Issues PROVE Streamed(i)'
      <4>1. Streamed(i) /\ turn[i] \in Turns /\ UNCHANGED <<turn, working, count, completed, interrupts>>
        BY <2>1 DEF AgentInv, TurnInv, TurnTypes
      <4> QED
        BY <4>1, StreamedStays
    <3> QED
      BY <2>1, <3>1, <3>2, TurnsStay DEF AgentInv
  <2>4. TempInv'
    BY <2>1, TempStays
  <2> QED
    BY <2>1, <2>2, <2>3, <2>4 DEF AgentInv, ResultIsOwn
<1> QED
  BY <1>1, <1>2, <1>3, <1>4, <1>5, <1>8, <1>9, <1>10 DEF Next

(* The invariant of the turns, their connections and their processes. *)
THEOREM AgentInvariance == Spec => []AgentInv
BY InitInv, StepInv, PTL DEF Spec

(* Types: what turn(), the supervisor and the host hold is what the code can have, and no
   more is kept of a turn that starts than the client has room for. *)
THEOREM AgentTypeCorrect == Spec => []TypeOK
<1>1. ASSUME AgentInv PROVE TypeOK
  <2>1. \A i \in Issues : /\ turn[i].pc \in Pcs /\ turn[i].gen \in Generations \cup {none}
                          /\ turn[i].runs \in 0 .. 2 /\ Len(starting[i]) <= MaxStarting
                          /\ turn[i].pc # "starting" => starting[i] = <<>>
    <3>1. \A i \in Issues : turn[i] \in Turns /\ Buffers(i)
      BY <1>1 DEF AgentInv, TurnInv, TurnTypes
    <3> QED
      BY <3>1 DEF Turns, Buffers
  <2>2. exited \subseteq Generations \ alive
    BY <1>1 DEF AgentInv, ServerInv, ServerTypes, Launched
  <2> QED
    BY <1>1, <2>1, <2>2 DEF TypeOK, AgentInv, ServerInv, ServerTypes, TurnInv, TurnTypes
<1> QED
  BY <1>1, AgentInvariance, PTL

(* A stage is given the message of its own turn, and that turn has completed: nothing of
   another turn of its thread, of one that was interrupted, or of a process that is gone. *)
THEOREM ResultsAreOwn == Spec => []ResultIsOwn
<1>1. AgentInv => ResultIsOwn
  BY DEF AgentInv
<1> QED
  BY <1>1, AgentInvariance, PTL

(* No turn works on behind the Runtime's back, and no app-server is left by a supervisor
   that has stopped. *)
THEOREM NothingIsLeftBehind == Spec => []NothingLeftBehind
<1>1. ASSUME AgentInv PROVE NothingLeftBehind
  <2>1. TurnsAreWatched
    BY <1>1 DEF AgentInv, TurnInv
  <2>2. StoppedIsGone
    BY <1>1 DEF AgentInv, ServerInv, ServerTypes, Launched, StoppedIsGone
  <2> QED
    BY <2>1, <2>2 DEF NothingLeftBehind
<1> QED
  BY <1>1, AgentInvariance, PTL

(* Until the app-server is started a second time, a turn that runs has its private
   directory. *)
THEOREM TurnsHaveTheirDirectory == Spec => []TempWhileRunning
<1>1. AgentInv => TempWhileRunning
  BY DEF AgentInv, TempInv, TempWhileRunning
<1> QED
  BY <1>1, AgentInvariance, PTL
=============================================================================
