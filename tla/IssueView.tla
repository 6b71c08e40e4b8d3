----------------------------- MODULE IssueView -----------------------------
(***************************************************************************)
(* The Issue list and the Issue detail of the Desktop window (AppContent,  *)
(* useIssueListUpdates, useIssueEvents), which follow the Runtime through  *)
(* subscriptions and refreshes (RuntimeClient, createRuntimeServer).       *)
(***************************************************************************)
EXTENDS UtilityProcess

CONSTANTS
    Issues,
    Later,              \* the Issues that may not exist at first
    MaxRevision,        \* bound: revisions of an Issue; the last one is terminal,
                        \* and those of a later Issue are one less
    MaxMoves            \* bound: how often the user goes somewhere in the window

ASSUME ViewAssumption == MaxRevision \in Nat \ {0, 1} /\ MaxMoves \in Nat /\ none \notin Issues /\ Later \subseteq Issues

VARIABLES
    revision,       \* the Issues in the store; 0 before they exist
    loaded,         \* the initial load: not asked for, asked for, answered, shown, failed
    snapshot,       \* the revisions it was answered with
    rows,           \* setIssues, issueRevisions: the rows and their revisions, 0 for none
    selected,       \* selectedId
    detail,         \* selectedIssue
    mounted,        \* whether the window shows the Issues
    link,           \* each Issue's subscription
    unread,         \* the Issues with events beyond their cursor in the server
    woken,          \* the Issues with events under way, or a refresh to be made
    requests,       \* requests the server has not answered
    answers,        \* answers to commands the window has not received
    missed,         \* history: Issues whose last refresh has failed
    moves           \* how often the user has gone somewhere

window == <<rows, selected, detail, mounted>>
links == <<link, unread, woken>>
loading == <<loaded, snapshot>>
viewVars == <<revision, loading, window, links, requests, answers, missed, moves>>

Nothing == [issue |-> none, revision |-> 0]
Links == {"none", "lost", "joined"}
Final(i) == IF i \in Later THEN MaxRevision - 1 ELSE MaxRevision
Serves == Serving /\ ~quitting
Request(i, by) == [issue |-> i, by |-> by]
Reads == {"list", "detail", "select"}
Answer(i, by, r) == [issue |-> i, by |-> by, revision |-> r]
Unchanged == [i \in Issues |-> 0]

InitView(existing) ==
  /\ revision = [i \in Issues |-> IF i \in existing THEN 1 ELSE 0]
  /\ loaded = "no" /\ snapshot = Unchanged /\ rows = Unchanged
  /\ selected = none /\ detail = Nothing /\ mounted = TRUE
  /\ link = [i \in Issues |-> "none"] /\ unread = {} /\ woken = {}
  /\ requests = {} /\ answers = {} /\ missed = {} /\ moves = 0

-----------------------------------------------------------------------------
(* The effects of a render.  The list's hook makes all its subscriptions   *)
(* anew when the Issues it follows change, the detail's when the selected  *)
(* Issue does; what an effect that is gone had under way is ignored, but   *)
(* for the refreshes of a detail.                                          *)
Followed(shownRows, sel, isMounted) ==
  {i \in Issues : isMounted /\ shownRows[i] \in 1 .. Final(i) - 1 /\ i # sel}

Remade(newRows, newSelected, newMounted) ==
  LET was == Followed(rows, selected, mounted)
      now == Followed(newRows, newSelected, newMounted) IN
  (IF now # was THEN was \cup now ELSE {}) \cup
  (IF <<selected, mounted>> # <<newSelected, newMounted>> THEN {selected, newSelected} ELSE {})

(* A subscription starts before the Issue's first event. *)
(* Mutant: it starts after the last one. *)
UnreadFromNow(joins) == unread

Unread(joins) == IF Connected THEN unread \cup joins ELSE unread

(* Subscribing fails while there is no client, and nobody tries again.     *)
Render(newRows, newSelected, newMounted, asked) ==
  LET remade == Remade(newRows, newSelected, newMounted)
      joins  == {i \in remade : newMounted /\ i \in Followed(newRows, newSelected, TRUE) \cup {newSelected}}
      stale  == {q \in asked : \/ q.by = "list" /\ q.issue \in remade
                               \/ q.by = "select" /\ newSelected # selected}
      chosen == IF newSelected # selected /\ Connected THEN {newSelected} \ {none} ELSE {} IN
  /\ rows' = newRows /\ selected' = newSelected /\ mounted' = newMounted
  /\ link' = [i \in Issues |-> IF i \notin remade THEN link[i] ELSE
                               IF i \notin joins THEN "none" ELSE
                               IF Connected THEN "joined" ELSE "lost"]
  /\ unread' = Unread(joins) \ (remade \ joins)
  /\ woken' = woken \ remade /\ missed' = missed \ remade
  /\ requests' = (asked \ stale) \cup {Request(i, "select") : i \in chosen}

(* updateIssue: whatever the answer was to, an older revision is ignored.  *)
(* Mutant: the last answer is applied. *)
NewerOrNot(a) == TRUE

Newer(a) == a.revision >= rows[a.issue]

UpdateIssue(a, asked) ==
  IF Newer(a)
    THEN /\ Render([rows EXCEPT ![a.issue] = IF @ = 0 THEN 0 ELSE a.revision], selected, mounted, asked)
         /\ detail' = IF a.issue = selected THEN [issue |-> a.issue, revision |-> a.revision] ELSE detail
    ELSE requests' = asked /\ UNCHANGED <<window, links, missed>>

-----------------------------------------------------------------------------
(* The initial load, when the window opens after the first launch.         *)
AskList ==
  /\ loaded = "no" /\ shown # "starting"
  /\ loaded' = IF Connected THEN "asked" ELSE "failed"
  /\ UNCHANGED <<supervisor, faults, revision, snapshot, window, links, requests, answers, missed, moves>>

ServeList ==
  /\ loaded = "asked" /\ Serves
  /\ loaded' = "answered" /\ snapshot' = revision
  /\ UNCHANGED <<supervisor, faults, revision, window, links, requests, answers, missed, moves>>

(* It selects the first Issue that is not over. *)
Load ==
  /\ loaded = "answered"
  /\ LET current == Followed(snapshot, none, TRUE) IN
     \E first \in IF current = {} THEN {none} ELSE current : Render(snapshot, first, mounted, requests)
  /\ loaded' = "shown" /\ snapshot' = Unchanged
  /\ UNCHANGED <<supervisor, faults, revision, detail, answers, moves>>

-----------------------------------------------------------------------------
(* What the user does.                                                     *)
Moves == loaded = "shown" /\ moves < MaxMoves /\ moves' = moves + 1

Select(i) ==
  /\ Moves /\ mounted /\ rows[i] # 0 /\ i # selected
  /\ Render(rows, i, mounted, requests)
  /\ UNCHANGED <<supervisor, faults, revision, loading, detail, answers>>

Deselect ==
  /\ Moves /\ mounted /\ selected # none
  /\ Render(rows, none, mounted, requests) /\ detail' = Nothing
  /\ UNCHANGED <<supervisor, faults, revision, loading, answers>>

GoTo ==
  /\ Moves
  /\ Render(rows, selected, ~mounted, requests)
  /\ UNCHANGED <<supervisor, faults, revision, loading, detail, answers>>

(* A command about the selected Issue. *)
Ask(i) ==
  /\ Moves /\ Connected
  /\ mounted /\ detail.issue = i /\ selected = i /\ revision[i] < Final(i)
  /\ requests' = requests \cup {Request(i, "command")}
  /\ UNCHANGED <<supervisor, faults, revision, loading, window, links, answers, missed>>

(* An Issue from the dialog. *)
Submit(i) ==
  /\ Moves /\ Connected
  /\ revision[i] = 0 /\ Request(i, "canceled") \notin requests
  /\ requests' = requests \cup {Request(i, "create")}
  /\ UNCHANGED <<supervisor, faults, revision, loading, window, links, answers, missed>>

-----------------------------------------------------------------------------
(* The server.  Every change of an Issue has its event.                    *)
Committed(i) ==
  /\ revision' = [revision EXCEPT ![i] = @ + 1]
  /\ unread' = IF link[i] = "joined" THEN unread \cup {i} ELSE unread

Changes(i) ==
  /\ Serves /\ revision[i] \in 1 .. Final(i) - 1 /\ Committed(i)
  /\ UNCHANGED <<supervisor, faults, loading, window, link, woken, requests, answers, missed, moves>>

(* poll().  The window waits 200 ms for more events, a time that is not    *)
(* told from the one they are under way.                                   *)
Poll(i) ==
  /\ Serves /\ i \in unread /\ unread' = unread \ {i}
  /\ woken' = woken \cup {i} /\ missed' = missed \ {i}
  /\ UNCHANGED <<supervisor, faults, revision, loading, window, link, requests, answers, moves>>

Refresh(i) ==
  /\ i \in woken /\ woken' = woken \ {i}
  /\ IF Connected
       THEN /\ requests' = requests \cup {Request(i, IF i = selected THEN "detail" ELSE "list")}
            /\ UNCHANGED missed
       ELSE missed' = missed \cup {i} /\ UNCHANGED requests
  /\ UNCHANGED <<supervisor, faults, revision, loading, window, link, unread, answers, moves>>

(* dispatch() of a read, whose answer is posted before any later one.      *)
ServeRead(q) ==
  /\ Serves /\ q.by \in Reads
  /\ UpdateIssue(Answer(q.issue, q.by, revision[q.issue]), requests \ {q})
  /\ UNCHANGED <<supervisor, faults, revision, loading, answers, moves>>

(* Of a command, which may be answered long after it has been carried out. *)
ServeCommand(q) ==
  /\ Serves /\ q.by \notin Reads /\ requests' = requests \ {q}
  /\ IF revision[q.issue] < Final(q.issue) THEN Committed(q.issue) ELSE UNCHANGED <<revision, unread>>
  /\ answers' = IF q.by = "canceled" THEN answers
                ELSE answers \cup {Answer(q.issue, q.by, revision'[q.issue])}
  /\ UNCHANGED <<supervisor, faults, loading, window, link, woken, missed, moves>>

(* onCreated: the new Issue is shown and selected. *)
Created(a) ==
  /\ Render([rows EXCEPT ![a.issue] = a.revision], a.issue, TRUE, requests)
  /\ detail' = [issue |-> a.issue, revision |-> a.revision]

Receive(a) ==
  /\ answers' = answers \ {a}
  /\ IF a.by = "create" THEN Created(a) ELSE UpdateIssue(a, requests)
  /\ UNCHANGED <<supervisor, faults, revision, loading, moves>>

(* A request times out: the server is told to drop the answer, not to stop *)
(* what was asked for.                                                     *)
TimeOut(q) ==
  /\ Fault("request")
  /\ requests' = (requests \ {q}) \cup
                   (IF q.by \in {"command", "create"} THEN {Request(q.issue, "canceled")} ELSE {})
  /\ missed' = IF q.by \in {"list", "detail"} THEN missed \cup {q.issue} ELSE missed
  /\ UNCHANGED <<supervisor, revision, loading, window, links, answers, moves>>

(* The process is gone, and with it every subscription and request.        *)
ViewLosesRuntime ==
  /\ loaded' = IF loaded \in {"asked", "answered"} THEN "failed" ELSE loaded
  /\ snapshot' = Unchanged
  /\ link' = [i \in Issues |-> IF link[i] = "none" THEN "none" ELSE "lost"]
  /\ unread' = {} /\ requests' = {} /\ woken' \in SUBSET woken
  /\ missed' = missed \cup (woken \ woken') \cup {q.issue : q \in requests}
  /\ UNCHANGED <<revision, window, answers, moves>>
=============================================================================
