--------------------------- MODULE AgentActivity ---------------------------
(***************************************************************************)
(* What the user sees of a turn: the Codex adapter turns the events of a   *)
(* turn into activity updates (publicActivities), the Runtime appends each *)
(* to the Issue's events, and the window's Codex Terminal shows the        *)
(* commands of the turn under way from them (currentExecutionEvents,       *)
(* groupEvents).  Output is a sequence of "x" for some characters of a     *)
(* line, "n" for its end, and "R" for what is put in place of a line.      *)
(***************************************************************************)
EXTENDS Naturals, Sequences, SequencesExt

CONSTANTS
    Unterminated,       \* MAX_UNTERMINATED_STREAM_OUTPUT
    MaxOutput,          \* bound: the length of a turn's output
    MaxCommands,        \* bound: commands of a turn
    MaxTurns            \* bound: turns, and how often the Issue is worked on

ASSUME ActivityAssumption ==
  Unterminated \in Nat /\ MaxOutput \in Nat /\ MaxCommands \in Nat /\ MaxTurns \in Nat \ {0}

VARIABLES
    working,    \* whether the Issue's status is one the Agent works in
    stages,     \* how often it has become one
    run,        \* the adapter's turn: idle, running, aborted, or lost with the process
    turns,      \* turns begun
    commands,   \* the turn's commands, in the order they were started
    streams,    \* commandStreams of the turn
    updates,    \* the updates of the event being reported that are not yet appended
    log         \* the Issue's events; see Logged

activityVars == <<working, stages, run, turns, commands, streams, updates, log>>

(* How output arrives. *)
Deltas == {<<"x">>, <<"n", "x">>}

(* A command that reads a skill, one whose output is not streamed, others. *)
CommandKinds == {"plain", "skill", "silent"}

Boundaries == {"AGENT_TURN_COMPLETED", "AGENT_ERROR", "RUNTIME_INTERRUPTED", "ISSUE_PAUSED"}

Event(type, id, text) == [type |-> type, id |-> id, text |-> text]
Status == Event("AGENT_STATUS", 0, <<>>)
NoStream == [buffer |-> <<>>, discarding |-> FALSE, summaryOnly |-> FALSE]
NoStreams == [id \in 1 .. MaxCommands |-> NoStream]

(* Bound: what lies before an event that ends an execution, which the      *)
(* window looks for from the end, is not kept; nor are statuses, which are *)
(* lines of their own.                                                     *)
Logged(event) ==
  IF event = Status THEN log ELSE IF event.type \in Boundaries THEN <<event>> ELSE Append(log, event)

InitActivity ==
  /\ working = TRUE /\ stages = 1 /\ run = "idle" /\ turns = 0
  /\ commands = <<>> /\ streams = NoStreams /\ updates = <<>> /\ log = <<>>

-----------------------------------------------------------------------------
(* The output of a command is reported by whole lines.  What is not a line *)
(* yet is kept, and when it has grown too long it is dropped, with what    *)
(* follows up to the end of the line.                                      *)
Position(text, ends) == LET at == {k \in 1 .. Len(text) : text[k] = "n"} IN
  IF at = {} THEN 0 ELSE CHOOSE k \in at : \A other \in at : IF ends = "first" THEN k <= other ELSE k >= other

Rest(text, k) == SubSeq(text, k + 1, Len(text))

Consume(stream, delta) ==
  LET newline == Position(delta, "first")
      ended   == stream.discarding /\ newline # 0
      text    == stream.buffer \o IF ended THEN Rest(delta, newline) ELSE delta
      lines   == Position(text, "last")
      rest    == Rest(text, lines)
      long    == Len(rest) > Unterminated IN
  IF stream.summaryOnly \/ (stream.discarding /\ ~ended) THEN [stream |-> stream, text |-> <<>>]
  ELSE [stream |-> [stream EXCEPT !.buffer = IF long THEN <<>> ELSE rest, !.discarding = long],
        text   |-> (IF ended THEN <<"n">> ELSE <<>>) \o SubSeq(text, 1, lines) \o
                   (IF long THEN <<"R">> ELSE <<>>)]

(* Mutant: what is left of the output is dropped with the stream. *)
FlushNothing(stream) == IF stream.discarding THEN <<"n">> ELSE <<>>

Flush(stream) == IF stream.discarding THEN <<"n">> ELSE stream.buffer

(* All the lines of a delta are one update. *)
OutputUpdate(id, text) == IF text = <<>> THEN <<>> ELSE <<Event("AGENT_COMMAND_OUTPUT", id, text)>>

TrimEnd(text) ==
  LET kept == {k \in 1 .. Len(text) : text[k] # "n"} IN
  SubSeq(text, 1, IF kept = {} THEN 0 ELSE CHOOSE k \in kept : \A other \in kept : k >= other)

-----------------------------------------------------------------------------
(* The turn.  The next event is taken when the updates of the last one     *)
(* have all been appended, unless the turn has been aborted meanwhile.     *)
Reports == run = "running" /\ updates = <<>>

ActivityFrame == UNCHANGED <<working, stages, turns, log>>

BeginTurn ==
  /\ run = "idle" /\ working /\ turns < MaxTurns
  /\ run' = "running" /\ turns' = turns + 1
  /\ updates' = <<Event("AGENT_TURN_STARTED", 0, <<>>), Status, Status>>
  /\ UNCHANGED <<working, stages, commands, streams, log>>

(* A skill is only ever named in a status; and the output of some commands *)
(* is not streamed.  Bound: an early turn has fewer commands.              *)
StartCommand(kind) ==
  /\ Reports /\ Len(commands) < turns /\ Len(commands) < MaxCommands
  /\ LET id == Len(commands) + 1 IN
     /\ commands' = Append(commands, [kind |-> kind, state |-> "running", output |-> <<>>, late |-> FALSE])
     /\ streams' = [streams EXCEPT ![id].summaryOnly = kind = "skill"]
     /\ updates' = <<IF kind = "skill" THEN Status ELSE Event("AGENT_COMMAND_STARTED", id, <<>>)>>
  /\ UNCHANGED run /\ ActivityFrame

Fits(delta) == Len(FlattenSeq([id \in 1 .. Len(commands) |-> commands[id].output])) + Len(delta) <= MaxOutput

(* Bound: of what may still arrive after the end only the first of a skill. *)
Output(id, delta) ==
  /\ Reports /\ commands[id].kind # "silent"
  /\ LET command == commands[id]
         result  == Consume(streams[id], delta) IN
     /\ Fits(delta) /\ ~command.late /\ (command.state = "running" \/ command.kind = "skill")
     /\ commands' = [commands EXCEPT ![id] = IF command.state = "running"
                       THEN [command EXCEPT !.output = @ \o delta] ELSE [command EXCEPT !.late = TRUE]]
     /\ streams' = [streams EXCEPT ![id] = result.stream]
     /\ updates' = OutputUpdate(id, result.text)
  /\ UNCHANGED run /\ ActivityFrame

(* Of a command whose output is not streamed. *)
Prints(id, delta) ==
  /\ Reports /\ commands[id].kind = "silent" /\ commands[id].state = "running"
  /\ Fits(delta)
  /\ commands' = [commands EXCEPT ![id].output = @ \o delta]
  /\ UNCHANGED <<run, streams, updates>> /\ ActivityFrame

EndCommand(id, state) ==
  /\ Reports /\ commands[id].state = "running"
  /\ commands' = [commands EXCEPT ![id].state = state]
  /\ LET kind == commands[id].kind IN
     IF kind = "skill"
       THEN updates' = <<Status>> /\ UNCHANGED streams
       ELSE /\ streams' = [streams EXCEPT ![id] = NoStream]
            /\ updates' = OutputUpdate(id, Flush(streams[id])) \o
                          <<Event(IF state = "failed" THEN "AGENT_COMMAND_FAILED" ELSE "AGENT_COMMAND_COMPLETED",
                                  id, TrimEnd(commands[id].output))>>
  /\ UNCHANGED run /\ ActivityFrame

(* The turn's last event clears its streams; nothing is read after it.     *)
EndTurn(type) ==
  /\ Reports
  /\ run' = "ending" /\ streams' = NoStreams
  /\ updates' = <<Event(type, 0, <<>>)>>
  /\ UNCHANGED commands /\ ActivityFrame

(* reportActivity: each update is appended in a transaction of its own.    *)
AppendUpdate ==
  /\ updates # <<>>
  /\ log' = Logged(Head(updates)) /\ updates' = Tail(updates)
  /\ UNCHANGED <<working, stages, run, turns, commands, streams>>

(* The end of turn(), also when it was aborted. *)
Settle ==
  /\ run \in {"aborted", "ending"} /\ updates = <<>>
  /\ run' = "idle" /\ streams' = NoStreams /\ commands' = <<>>
  /\ UNCHANGED updates /\ ActivityFrame

-----------------------------------------------------------------------------
(* The Issue.  A stage ends with its last turn, or is paused or canceled   *)
(* at any time; the Issue is worked on again when nothing is under way.    *)
Write(type) == log' = Logged(Event(type, 0, <<>>))

PauseIssue ==
  /\ working /\ run \in {"idle", "running", "ending"}
  /\ working' = FALSE /\ Write("ISSUE_PAUSED")
  /\ run' = IF run = "idle" THEN "idle" ELSE "aborted"
  /\ UNCHANGED <<stages, turns, commands, streams, updates>>

EndStage ==
  /\ working /\ run = "idle" /\ turns > 0
  /\ working' = FALSE
  /\ UNCHANGED <<stages, run, turns, commands, streams, updates, log>>

NextStage ==
  /\ ~working /\ run = "idle" /\ stages < MaxTurns
  /\ working' = TRUE /\ stages' = stages + 1
  /\ UNCHANGED <<run, turns, commands, streams, updates, log>>

(* Reconciliation at the start tells that a stage was interrupted.         *)
Interrupted ==
  /\ run = "lost"
  /\ run' = "idle" /\ (IF working THEN Write("RUNTIME_INTERRUPTED") ELSE UNCHANGED log)
  /\ UNCHANGED <<working, stages, turns, commands, streams, updates>>

ActivityLosesRuntime ==
  /\ run' = "lost" /\ updates' = <<>> /\ streams' = NoStreams /\ commands' = <<>>
  /\ UNCHANGED <<working, stages, turns, log>>

-----------------------------------------------------------------------------
(* The window.  The events of the current execution: from the first turn   *)
(* after the last event that ended one.                                    *)
CurrentExecution(events) ==
  LET ends   == {0} \cup {k \in 1 .. Len(events) : events[k].type \in Boundaries}
      last   == CHOOSE k \in ends : \A other \in ends : k >= other
      begins == {k \in last + 1 .. Len(events) : events[k].type = "AGENT_TURN_STARTED"}
      first  == IF last = 0 THEN 1 ELSE CHOOSE k \in begins : \A other \in begins : k <= other IN
  IF last # 0 /\ begins = {} THEN <<>> ELSE SubSeq(events, first, Len(events))

(* A command's line, from its start to the next turn's.  Output is added   *)
(* to it until its end, which has it all when none was.                    *)
CommandLine(events, p) ==
  LET rest  == Rest(events, p)
      next  == SelectInSeq(rest, LAMBDA e : e.type = "AGENT_TURN_STARTED")
      own   == SelectSeq(IF next = 0 THEN rest ELSE SubSeq(rest, 1, next - 1), LAMBDA e : e.id = events[p].id)
      end   == SelectInSeq(own, LAMBDA e : e.type \in {"AGENT_COMMAND_COMPLETED", "AGENT_COMMAND_FAILED"})
      added == IF end = 0 THEN own ELSE SubSeq(own, 1, end - 1)
      text  == FlattenSeq([k \in 1 .. Len(added) |-> added[k].text]) IN
  [status |-> IF end = 0 THEN IF next = 0 THEN "running" ELSE "interrupted"
              ELSE IF own[end].type = "AGENT_COMMAND_FAILED" THEN "failed" ELSE "completed",
   output |-> IF text = <<>> /\ end # 0 THEN own[end].text ELSE text]

CommandLines(events) ==
  LET starts == SetToSortSeq({k \in 1 .. Len(events) : events[k].type = "AGENT_COMMAND_STARTED"}, <) IN
  [k \in 1 .. Len(starts) |-> CommandLine(events, starts[k])]

(* The Terminal is only there while the Agent works on the Issue. *)
Terminal == IF working THEN CommandLines(CurrentExecution(log)) ELSE <<>>

-----------------------------------------------------------------------------
(* What the Terminal should show. *)
Lines(text) ==
  LET ends == SetToSortSeq({k \in 1 .. Len(text) : text[k] = "n" \/ k = Len(text)}, <) IN
  [k \in 1 .. Len(ends) |-> TrimEnd(SubSeq(text, IF k = 1 THEN 1 ELSE ends[k - 1] + 1, ends[k]))]

(* Every line as it was printed, or a line too long to be kept replaced.   *)
Matches(lines, printed) ==
  /\ Len(lines) = Len(printed)
  /\ \A k \in 1 .. Len(lines) :
       lines[k] = printed[k] \/ (lines[k] = <<"R">> /\ Len(printed[k]) > Unterminated)

(* The line that is being printed is not shown yet, or replaced. *)
ShowsOutput(text, command) ==
  IF command.kind = "silent"
    THEN text = IF command.state = "running" THEN <<>> ELSE TrimEnd(command.output)
    ELSE \/ Matches(Lines(text), Lines(command.output))
         \/ /\ command.state = "running"
            /\ Matches(Lines(text), Lines(SubSeq(command.output, 1, Position(command.output, "last"))))

Shown == SelectSeq(commands, LAMBDA command : command.kind # "skill")
=============================================================================
