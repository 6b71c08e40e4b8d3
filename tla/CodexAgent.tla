----------------------------- MODULE CodexAgent -----------------------------
(***************************************************************************)
(* The turns of several Issues on one app-server, which crashes, fails to  *)
(* start and is shared with a terminal, while stages are canceled and the  *)
(* Runtime stops.                                                          *)
(***************************************************************************)
EXTENDS CodexTurns

(* The app-server (external): it answers requests, works on turns, and     *)
(* announces what happens to them on the connection.                       *)
Serves(g) == g \in alive /\ conn[g] = "open"

AnswerThread(i) ==
  /\ turn[i].pc = "threading" /\ turn[i].asked = "sent" /\ Serves(turn[i].gen)
  /\ \/ Send(turn[i].gen, Message("thread", i, 0)) /\ UNCHANGED faults
     \/ i \in sessions /\ Fault("missing") /\ Send(turn[i].gen, Message("missing", i, 0))
  /\ Set(i, [turn[i] EXCEPT !.asked = "none"])
  /\ UNCHANGED <<supervisor, hosting, conn, starting, sessions, directories, server, interrupts,
                 stages, foreign>>

Work(i, no, g, cli) ==
  [issue |-> i, no |-> no, gen |-> g, cli |-> cli, said |-> FALSE, retried |-> FALSE]

TakeTurn(i) ==
  /\ turn[i].pc = "starting" /\ turn[i].asked = "sent" /\ Serves(turn[i].gen)
  /\ count' = [count EXCEPT ![i] = @ + 1]
  /\ working' = working \cup {Work(i, count[i] + 1, turn[i].gen, FALSE)}
  /\ Set(i, [turn[i] EXCEPT !.asked = "taken", !.no = count[i] + 1])
  /\ UNCHANGED <<supervisor, hosting, conn, starting, sessions, directories, wire, completed,
                 interrupts, counters, foreign>>

AnswerTurn(i) ==
  /\ turn[i].pc = "starting" /\ turn[i].asked = "taken" /\ Serves(turn[i].gen)
  /\ Send(turn[i].gen, Message("turn", i, 0))
  /\ Set(i, [turn[i] EXCEPT !.asked = "none"])
  /\ UNCHANGED <<supervisor, hosting, conn, starting, sessions, directories, server, interrupts,
                 counters, foreign>>

Progresses(w) ==
  /\ Serves(w.gen)
  /\ \/ /\ ~w.said /\ Send(w.gen, Message("message", w.issue, w.no))
        /\ working' = (working \ {w}) \cup {[w EXCEPT !.said = TRUE]}
        /\ UNCHANGED <<completed, faults>>
     \/ /\ w.said /\ Send(w.gen, Message("completed", w.issue, w.no))
        /\ working' = working \ {w}
        /\ completed' = completed \cup (IF turn[w.issue].no = w.no THEN {<<w.issue, w.no>>} ELSE {}) /\ UNCHANGED faults
     \/ /\ ~w.cli /\ Fault("failed") /\ Send(w.gen, Message("failed", w.issue, w.no))
        /\ working' = working \ {w} /\ UNCHANGED completed
     \/ /\ ~w.cli /\ ~w.retried /\ Fault("retry") /\ Send(w.gen, Message("retry", w.issue, w.no))
        /\ working' = (working \ {w}) \cup {[w EXCEPT !.retried = TRUE]}
        /\ UNCHANGED completed
  /\ UNCHANGED <<supervisor, hosting, conn, turn, starting, sessions, directories, count,
                 interrupts, stages, foreign>>

TurnsOf(r) == {w \in working : <<w.issue, w.no, w.gen>> = r}

HandleInterrupt(r) ==
  /\ Serves(r[3])
  /\ Send(r[3], Message(IF TurnsOf(r) # {} THEN "interrupted" ELSE "refused", r[1], r[2]))
  /\ working' = working \ TurnsOf(r)
  /\ interrupts' = interrupts \ {r}
  /\ UNCHANGED <<supervisor, hosting, conn, turn, starting, sessions, directories, count,
                 completed, counters, foreign>>

(* A turn of the terminal, in a thread the Runtime has, when none is there. *)
CliTurn(i, g) ==
  /\ i \in sessions /\ Serves(g) /\ Fault("terminal")
  /\ \A w \in working : w.issue # i
  /\ count' = [count EXCEPT ![i] = @ + 1]
  /\ working' = working \cup {Work(i, count[i] + 1, g, TRUE)}
  /\ UNCHANGED <<supervisor, hosting, conn, turn, starting, sessions, directories, wire, completed,
                 interrupts, stages, foreign>>

ServerNext(i) ==
  \/ AnswerThread(i) \/ TakeTurn(i) \/ AnswerTurn(i)
  \/ \E w \in working : w.issue = i /\ Progresses(w)
  \/ \E r \in interrupts : r[1] = i /\ HandleInterrupt(r)

Next ==
  \/ SupervisorNext \/ RuntimeStops
  \/ \E g \in Generations : ConnectionNext(g) \/ Exit(g)
  \/ \E i \in Issues :
       \/ StageTurn(i) \/ Cancel(i) \/ TurnNext(i) \/ ServerNext(i)
       \/ \E g \in Generations : CliTurn(i, g)

Init ==
  /\ launch = [g \in Generations |-> IF g = 1 THEN "preparing" ELSE "none"]
  /\ alive = {} /\ exited = {} /\ child = none /\ connection = none /\ generation = 0
  /\ stopping = FALSE /\ restarts = 0
  /\ host = "starting" /\ client = none /\ draining = FALSE
  /\ conn = [g \in Generations |-> "none"] /\ wire = [g \in Generations |-> <<>>]
  /\ turn = [i \in Issues |-> NoTurn] /\ starting = [i \in Issues |-> <<>>]
  /\ sessions = {} /\ temp = {} /\ removing = {}
  /\ working = {} /\ interrupts = {} /\ completed = {}
  /\ count = [i \in Issues |-> 0] /\ stages = [i \in Issues |-> 0]
  /\ faults = 0
  /\ foreign = {}

(* The event loop runs what can run, and the app-server answers, ends its  *)
(* turns, or exits.                                                        *)
Fairness ==
  /\ WF_vars(SupervisorNext)
  /\ \A g \in Generations : WF_vars(ConnectionNext(g))
  /\ \A i \in Issues : WF_vars(TurnNext(i)) /\ WF_vars(ServerNext(i))

Spec == Init /\ [][Next]_vars
FairSpec == Spec /\ Fairness

-----------------------------------------------------------------------------
TypeOK ==
  /\ launch \in [Generations -> {"none", "preparing", "connecting", "connected", "failed"}]
  /\ alive \subseteq Generations /\ exited \subseteq Generations \ alive
  /\ {child, connection, client} \subseteq Generations \cup {none}
  /\ generation \in 0 .. RestartLimit + 1 /\ restarts \in 0 .. RestartLimit
  /\ host \in {"starting", "up", "stopped"} /\ stopping \in BOOLEAN /\ draining \in BOOLEAN
  /\ conn \in [Generations -> {"none", "open", "closing", "closed"}]
  /\ \A i \in Issues : /\ turn[i].pc \in Pcs /\ turn[i].gen \in Generations \cup {none}
                       /\ turn[i].runs \in 0 .. 2 /\ Len(starting[i]) <= MaxStarting
                       /\ turn[i].pc # "starting" => starting[i] = <<>>
  /\ sessions \subseteq Issues /\ temp \subseteq Issues
  /\ removing \subseteq Issues

(* What a stage returns is the message of its own turn, and the app-server *)
(* has completed that turn: nothing of another turn of the thread, of an   *)
(* interrupted one, or of a process that is gone is taken for the result.  *)
ResultIsOwn == foreign = {}

(* Nothing works on behind the Runtime's back: a turn the Runtime has      *)
(* started is being waited for, or was told to stop, unless it was given   *)
(* up for an error the app-server retries by itself; and when the          *)
(* supervisor has stopped and launches nothing any more, no app-server is  *)
(* left, whatever start, exit and restart it stopped in.                   *)
TurnsAreWatched ==
  \A w \in working :
    \/ w.cli \/ w.retried
    \/ turn[w.issue].no = w.no /\ turn[w.issue].pc \in {"starting", "streaming"}
    \/ <<w.issue, w.no, w.gen>> \in interrupts

StoppedIsGone ==
  stopping /\ (\A g \in Generations : launch[g] \notin {"preparing", "connecting"}) => alive = {}

NothingLeftBehind == TurnsAreWatched /\ StoppedIsGone

(* Until the app-server is started a second time, a turn has its private   *)
(* directory as long as it runs, whoever removes directories meanwhile.    *)
TempWhileRunning ==
  \A i \in Issues :
    turn[i].pc \in {"threading", "starting", "streaming"} /\ generation = 1 => i \in temp

(* Every turn ends, and with it the cancel that waits for it, although the *)
(* app-server exits before, between or after any two of its messages.      *)
TurnsEnd == \A i \in Issues : turn[i].pc # "idle" ~> turn[i].pc = "idle"
=============================================================================
