----------------------------- MODULE CodexTurns -----------------------------
(***************************************************************************)
(* The turns of the Codex adapter (CodexAgentAdapter), through the client  *)
(* (AppServerCodexClient) and the requests of its connection               *)
(* (AppServerRpcClient), up to the app-server, which is external.          *)
(***************************************************************************)
EXTENDS CodexServer

(* A turn: pc is where turn() is; gen its client's connection; no the      *)
(* server's number of it; aborted its AbortController; fed what is in its  *)
(* EventQueue and ended how that was closed; last the turn of lastMessage; *)
(* runs how many turns the stage has had.  asked is the request the server *)
(* has still to take or to answer.                                         *)
NoTurn == [pc |-> "idle", gen |-> none, no |-> 0, aborted |-> FALSE, asked |-> "none",
           fed |-> <<>>, ended |-> "no", last |-> 0, runs |-> 0]

Pcs == {"idle", "opening", "threading", "starting", "streaming", "disposing"}

Set(i, t) == turn' = [turn EXCEPT ![i] = t]
Send(g, m) == wire' = [wire EXCEPT ![g] = Append(@, m)]
Message(kind, i, no) == [kind |-> kind, issue |-> i, no |-> no]

-----------------------------------------------------------------------------
(* stageTurn: the first turn of a stage. *)
StageTurn(i) ==
  /\ turn[i].pc = "idle" /\ host = "up" /\ ~draining /\ stages[i] < MaxStages
  /\ stages' = [stages EXCEPT ![i] = @ + 1]
  /\ Set(i, [NoTurn EXCEPT !.pc = "opening", !.runs = 1])
  /\ UNCHANGED <<supervisor, hosting, conn, starting, sessions, directories, wire, server,
                 interrupts, faults, foreign>>

(* turn() leaves its try: the thread's dispose begins to remove the        *)
(* private directory.                                                      *)
Leaving(t) == [t EXCEPT !.pc = "disposing", !.asked = "none", !.fed = <<>>]

Leave(i) == Set(i, Leaving(turn[i])) /\ removing' = removing \cup {i}

(* The session has been read: createThread of the current client, and the  *)
(* request for its thread.                                                 *)
OpenThread(i) ==
  /\ turn[i].pc = "opening"
  /\ IF turn[i].aborted THEN Set(i, NoTurn) /\ UNCHANGED <<client, temp, removing>>
     ELSE /\ client' = CurrentClient
          /\ removing' = removing \cup
               {j \in Issues : Replaced /\ turn[j].gen = client /\ j \in temp}
          /\ IF client' = none THEN Set(i, NoTurn) /\ UNCHANGED temp
             ELSE /\ temp' = temp \cup {i}
                  /\ Set(i, [turn[i] EXCEPT !.pc = "threading", !.gen = client', !.asked = "sent"])
  /\ UNCHANGED <<supervisor, host, draining, conn, starting, sessions, wire, server,
                 interrupts, counters, foreign>>

(* A request that is pending when the connection is lost, or is made       *)
(* afterwards, is rejected.                                                *)
RequestRejected(i) ==
  /\ turn[i].pc \in {"threading", "starting"} /\ conn[turn[i].gen] = "closed"
  /\ Leave(i)
  /\ starting' = [starting EXCEPT ![i] = <<>>]
  /\ UNCHANGED <<supervisor, hosting, conn, sessions, temp, wire, server, interrupts,
                 counters, foreign>>

-----------------------------------------------------------------------------
(* The client receives what a process has sent: handleMessage, and behind  *)
(* it the continuation of startTurn or pumpNotifications.                  *)
Interrupt(i, t) == interrupts \cup {<<i, t.no, t.gen>>}

(* EventQueue, fed by deliver(). *)
Delivered(t, m) ==
  IF t.ended # "no" THEN t
  ELSE CASE m.kind = "refused" -> [t EXCEPT !.ended = "failed"]
         [] m.kind = "interrupted" -> [t EXCEPT !.fed = Append(@, m), !.ended = "failed"]
         [] m.kind \in {"completed", "failed"} -> [t EXCEPT !.fed = Append(@, m), !.ended = "done"]
         [] OTHER -> [t EXCEPT !.fed = Append(@, m)]

Own(t, m) == m.no = t.no

(* startTurn's continuation: the subscription of the turn, fed with what   *)
(* has arrived for it before, and its cancellation.                        *)
Subscribed(i) ==
  LET t == turn[i]
      queue[k \in 0 .. Len(starting[i])] ==
        IF k = 0 THEN [t EXCEPT !.pc = "streaming", !.fed = <<Message("started", i, t.no)>>]
        ELSE IF Own(t, starting[i][k]) THEN Delivered(queue[k - 1], starting[i][k])
        ELSE queue[k - 1]
  IN  queue[Len(starting[i])]

(* Mutant: what arrives before the answer is never dropped. *)
BufferedUnbounded(buffer, m) == Append(buffer, m)

Buffered(buffer, m) ==
  Append(IF Len(buffer) = MaxStarting THEN Tail(buffer) ELSE buffer, m)

(* Mutant: only an abort that comes after the answer interrupts the turn. *)
TurnAnsweredDeaf(i) ==
  /\ Set(i, Subscribed(i))
  /\ starting' = [starting EXCEPT ![i] = <<>>]
  /\ UNCHANGED <<interrupts, removing>>

TurnAnswered(i) ==
  /\ Set(i, Subscribed(i))
  /\ starting' = [starting EXCEPT ![i] = <<>>]
  /\ interrupts' = IF turn[i].aborted THEN Interrupt(i, turn[i]) ELSE interrupts
  /\ UNCHANGED removing

Notified(i, m) ==
  /\ IF turn[i].pc = "streaming" /\ Own(turn[i], m)
       THEN Set(i, Delivered(turn[i], m)) /\ UNCHANGED starting
     ELSE /\ starting' = IF turn[i].pc = "starting" /\ m.kind # "refused"
                           THEN [starting EXCEPT ![i] = Buffered(@, m)] ELSE starting
          /\ UNCHANGED turn
  /\ UNCHANGED <<interrupts, removing>>

Received(i, m) ==
  CASE m.kind = "thread"  -> /\ Set(i, [turn[i] EXCEPT !.pc = "starting", !.asked = "sent"])
                             /\ UNCHANGED <<starting, interrupts, removing>>
    [] m.kind = "missing" -> Leave(i) /\ UNCHANGED <<starting, interrupts>>
    [] m.kind = "turn"    -> TurnAnswered(i)
    [] OTHER              -> Notified(i, m)

Receive(g) ==
  /\ conn[g] \in {"open", "closing"} /\ wire[g] # <<>>
  /\ wire' = [wire EXCEPT ![g] = Tail(@)]
  /\ LET m == Head(wire[g]) IN
     IF turn[m.issue].gen = g THEN Received(m.issue, m)
     ELSE UNCHANGED <<turn, starting, interrupts, removing>>
  /\ UNCHANGED <<supervisor, hosting, conn, sessions, temp, server, counters, foreign>>

(* disconnect, and failSubscriptions when the notifications end.           *)
(* Mutant: the subscriptions are closed, not failed. *)
DisconnectedQueueClosed(t) == [t EXCEPT !.ended = "done"]

(* Mutant: the subscriptions are only cleared. *)
DisconnectedQueueKept(t) == t

DisconnectedQueue(t) == [t EXCEPT !.ended = "failed"]

Disconnect(g) ==
  /\ conn[g] = "closing" /\ wire[g] = <<>>
  /\ conn' = [conn EXCEPT ![g] = "closed"]
  /\ turn' = [i \in Issues |->
       IF turn[i].gen = g /\ turn[i].pc = "streaming" /\ turn[i].ended = "no"
         THEN DisconnectedQueue(turn[i]) ELSE turn[i]]
  /\ UNCHANGED <<supervisor, hosting, starting, sessions, directories, wire, server, interrupts,
                 counters, foreign>>

-----------------------------------------------------------------------------
(* The loop of turn() over its events.  A turn whose failure looks like a  *)
(* denied permission, and one that asks for a capability it has, is run    *)
(* once more.                                                              *)
LeaveTo(i, again) ==
  /\ Set(i, [Leaving(turn[i]) EXCEPT !.runs = IF again THEN 2 ELSE @,
                                     !.asked = IF again THEN "again" ELSE "none"])
  /\ removing' = removing \cup {i}

MayRunAgain(i) == IF turn[i].runs = 1 THEN BOOLEAN ELSE {FALSE}

ConsumeEvent(i, m) ==
  IF m.kind \in {"interrupted", "failed", "retry"}
    THEN (\E again \in MayRunAgain(i) : LeaveTo(i, again)) /\ UNCHANGED sessions
    ELSE /\ Set(i, [turn[i] EXCEPT !.fed = Tail(@),
                                   !.last = IF m.kind = "message" THEN m.no ELSE @])
         /\ sessions' = IF m.kind = "started" THEN sessions \cup {i} ELSE sessions
         /\ UNCHANGED removing

(* A stage returns the last message of a turn that ended well. *)
Returns(t) == t.ended = "done" /\ t.last # 0
IsOwn(i, t) == t.last = t.no /\ <<i, t.no>> \in completed

ConsumeEnd(i) ==
  /\ turn[i].ended # "no"
  /\ \E again \in MayRunAgain(i) :
       /\ LeaveTo(i, again)
       /\ foreign' = IF ~again /\ Returns(turn[i]) /\ ~IsOwn(i, turn[i])
                       THEN foreign \cup {i} ELSE foreign
  /\ UNCHANGED sessions

Consume(i) ==
  /\ turn[i].pc = "streaming"
  /\ IF turn[i].aborted
       THEN (turn[i].fed # <<>> \/ turn[i].ended # "no") /\ Leave(i) /\ UNCHANGED <<sessions, foreign>>
     ELSE IF turn[i].fed # <<>>
       THEN ConsumeEvent(i, Head(turn[i].fed)) /\ UNCHANGED foreign
     ELSE ConsumeEnd(i)
  /\ UNCHANGED <<supervisor, hosting, conn, starting, temp, wire, server, interrupts,
                 counters>>

(* A private directory is removed, by its thread's dispose, or before by   *)
(* that of a client that was replaced.                                     *)
RemoveTemp(i) ==
  /\ i \in removing
  /\ removing' = removing \ {i} /\ temp' = temp \ {i}
  /\ UNCHANGED <<supervisor, hosting, conn, turn, starting, sessions, wire, server, interrupts,
                 counters, foreign>>

(* Mutant: the session is not busy while the directory is removed. *)
MayFinishUnremoved(i) == TRUE

MayFinish(i) == i \notin removing

Finish(i) ==
  /\ turn[i].pc = "disposing" /\ MayFinish(i)
  /\ Set(i, IF turn[i].asked = "again" THEN [NoTurn EXCEPT !.pc = "opening", !.runs = 2] ELSE NoTurn)
  /\ completed' = {c \in completed : c[1] # i}
  /\ UNCHANGED <<supervisor, hosting, conn, starting, sessions, directories, wire, working, count,
                 interrupts, counters, foreign>>

(* cancel: the abort interrupts a turn the client has subscribed to; an    *)
(* earlier one does when it is.  The caller waits for the turn's end.      *)
Aborted(issues) ==
  /\ turn' = [i \in Issues |->
       IF i \in issues /\ turn[i].pc # "idle" THEN [turn[i] EXCEPT !.aborted = TRUE] ELSE turn[i]]
  /\ interrupts' = interrupts \cup
       {<<i, turn[i].no, turn[i].gen>> : i \in {j \in issues :
          /\ turn[j].pc = "streaming" /\ turn[j].ended = "no" /\ ~turn[j].aborted
          /\ turn[j].gen \in alive}}
  /\ UNCHANGED <<supervisor, host, client, conn, starting, sessions, directories, wire, server,
                 stages, foreign>>

Cancel(i) ==
  /\ turn[i].pc # "idle" /\ ~turn[i].aborted /\ Fault("cancel")
  /\ Aborted({i}) /\ UNCHANGED draining

RuntimeStops ==
  /\ ~draining /\ host = "up" /\ draining' = TRUE /\ Fault("stop")
  /\ Aborted(Issues)

TurnNext(i) ==
  OpenThread(i) \/ RequestRejected(i) \/ Consume(i) \/ RemoveTemp(i) \/ Finish(i)

ConnectionNext(g) == Receive(g) \/ Disconnect(g)
=============================================================================
