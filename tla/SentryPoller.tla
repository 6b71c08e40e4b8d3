---------------------------- MODULE SentryPoller ----------------------------
(***************************************************************************)
(* The Sentry source: it polls the pages of Sentry's Issue list, reads the *)
(* events of each Issue down to the watermark it has saved, and hands them *)
(* to the intake, oldest first.  Sentry drops old events, and may send one *)
(* the adapter refuses.                                                    *)
(***************************************************************************)
EXTENDS ProjectSettings

CONSTANTS
    Groups,             \* Sentry's Issues, 1 .. N
    MaxPages,           \* MAX_EVENT_PAGES_PER_ISSUE, of one event each
    MaxEvents,          \* bound: events of each Issue
    Busy                \* bound: the Issues most of what may happen happens to

ASSUME SentryAssumption ==
  /\ IsFiniteSet(Groups) /\ Groups # {} /\ Groups = 1 .. Cardinality(Groups)
  /\ Busy \subseteq Groups /\ MaxPages \in Nat \ {0} /\ MaxEvents \in Nat \ {0}

VARIABLES
    page,           \* the page of Sentry's list each Issue is on
    events,         \* how many events each Issue has had
    oldest,         \* the oldest of them that Sentry still has
    refused,        \* those whose data the adapter refuses
    cursor,         \* the saved cursor, as the page it stands for
    watermark,      \* the saved watermarks, 0 for none
    first,          \* history: each Issue's first watermark
    accepted,       \* the events in the intake, which ignores those it has
    poll            \* the poll under way

sentry == <<page, events, oldest, refused>>
sentryVars == <<sentry, cursor, watermark, first, accepted, poll>>

Waiting == [pc |-> "waiting", todo |-> <<>>, offset |-> 0, found |-> {}, newest |-> 0, failed |-> FALSE]

(* The Issues of a page follow those of the page before it. *)
Pagings ==
  {p \in [Groups -> Groups] :
     p[1] = 1 /\ \A g \in Groups \ {1} : p[g] \in {p[g - 1], p[g - 1] + 1}}

InitSentry ==
  /\ page \in Pagings /\ events = [g \in Groups |-> 1] /\ oldest = events /\ refused = {}
  /\ cursor = 1 /\ watermark = [g \in Groups |-> 0] /\ first = watermark
  /\ accepted = {} /\ poll = Waiting

(* Bound: only an Issue of Busy has more than two events, or loses one. *)
NewEvent(g) ==
  /\ events[g] < MaxEvents /\ (g \in Busy \/ events[g] < 2)
  /\ events' = [events EXCEPT ![g] = @ + 1]
  /\ \/ UNCHANGED <<refused, faults>>
     \/ g \in Busy /\ Fault("refusal") /\ refused' = refused \cup {<<g, events'[g]>>}
  /\ UNCHANGED <<supervisor, settingsVars, page, oldest, cursor, watermark, first, accepted, poll>>

Purge(g) ==
  /\ g \in Busy /\ oldest[g] <= events[g] /\ Fault("retention")
  /\ oldest' = [oldest EXCEPT ![g] = @ + 1]
  /\ UNCHANGED <<supervisor, settingsVars, page, events, refused, cursor, watermark, first, accepted, poll>>

-----------------------------------------------------------------------------
(* pollOnce.  The signal is looked at between two polls only.              *)
ListIssues ==
  /\ source.state = "running" /\ ~source.aborted /\ poll.pc = "waiting"
  /\ \E todo \in SetToSeqs({g \in Groups : page[g] = cursor}) :
       poll' = [Waiting EXCEPT !.pc = "issue", !.todo = todo]
  /\ UNCHANGED <<supervisor, faults, settingsVars, sentry, cursor, watermark, first, accepted>>

(* After the last page there is no cursor, and the first page is next.     *)
NextPage == IF \E g \in Groups : page[g] = cursor + 1 THEN cursor + 1 ELSE 1

(* The cursor stays where it is when an Issue of the page has failed. *)
EndPoll ==
  /\ poll.pc = "issue" /\ poll.todo = <<>>
  /\ cursor' = IF poll.failed THEN cursor ELSE NextPage
  /\ poll' = Waiting
  /\ UNCHANGED <<supervisor, faults, settingsVars, sentry, watermark, first, accepted>>

-----------------------------------------------------------------------------
(* pollIssue.  A page of events is read by its offset, so that events that *)
(* arrive meanwhile move those it is still to read.                        *)
PollIssue ==
  /\ poll.pc = "issue" /\ poll.todo # <<>>
  /\ poll' = [poll EXCEPT !.pc = "events"]
  /\ UNCHANGED <<supervisor, faults, settingsVars, sentry, cursor, watermark, first, accepted>>

NextIssue == [poll EXCEPT !.pc = "issue", !.todo = Tail(@), !.offset = 0, !.found = {}, !.newest = 0]
IssueFails == [NextIssue EXCEPT !.failed = TRUE]

(* Every event is adapted before the first is handed over. *)
Adapt(found, newest) ==
  IF \E k \in found : <<Head(poll.todo), k>> \in refused THEN IssueFails
  ELSE [poll EXCEPT !.pc = "deliver", !.found = found, !.newest = newest]

(* An Issue without a watermark is taken up at its newest event.  One that *)
(* has a watermark fails if the pages end before it, or are too many: this *)
(* poll, and every later one.  Pages that repeat are a request that fails. *)
CollectEvents ==
  LET g == Head(poll.todo)
      k == events[g] - poll.offset
      newest == IF poll.newest = 0 THEN k ELSE poll.newest IN
  /\ poll.pc = "events"
  /\ \/ /\ poll' = CASE k < oldest[g] -> IF watermark[g] = 0 THEN NextIssue ELSE IssueFails
                     [] k >= oldest[g] /\ watermark[g] = 0 -> Adapt({k}, newest)
                     [] k >= oldest[g] /\ watermark[g] = k -> Adapt(poll.found, newest)
                     [] k >= oldest[g] /\ watermark[g] \notin {0, k} ->
                          IF k = oldest[g] \/ poll.offset + 1 = MaxPages THEN IssueFails
                          ELSE [poll EXCEPT !.found = @ \cup {k}, !.newest = newest, !.offset = @ + 1]
        /\ UNCHANGED faults
     \/ Fault("request") /\ poll' = IssueFails
  /\ UNCHANGED <<supervisor, settingsVars, sentry, cursor, watermark, first, accepted>>

Oldest == CHOOSE k \in poll.found : \A other \in poll.found : k <= other

Deliver ==
  /\ poll.pc = "deliver" /\ poll.found # {}
  /\ \/ /\ accepted' = accepted \cup {<<Head(poll.todo), Oldest>>}
        /\ poll' = [poll EXCEPT !.found = @ \ {Oldest}] /\ UNCHANGED faults
     \/ Fault("intake") /\ poll' = IssueFails /\ UNCHANGED accepted
  /\ UNCHANGED <<supervisor, settingsVars, sentry, cursor, watermark, first>>

(* Mutant: the watermark does not wait for the deliveries. *)
SaveWatermarkEarly ==
  LET g == Head(poll.todo) IN
  /\ poll.pc = "deliver"
  /\ watermark' = [watermark EXCEPT ![g] = poll.newest]
  /\ first' = [first EXCEPT ![g] = IF @ = 0 THEN poll.newest ELSE @]
  /\ poll' = NextIssue
  /\ UNCHANGED <<supervisor, faults, settingsVars, sentry, cursor, accepted>>

SaveWatermark ==
  LET g == Head(poll.todo) IN
  /\ poll.pc = "deliver" /\ poll.found = {}
  /\ watermark' = [watermark EXCEPT ![g] = poll.newest]
  /\ first' = [first EXCEPT ![g] = IF @ = 0 THEN poll.newest ELSE @]
  /\ poll' = NextIssue
  /\ UNCHANGED <<supervisor, faults, settingsVars, sentry, cursor, accepted>>

(* Mutant: a stop does not wait for the poll under way. *)
PollerEndedAnyway == TRUE

(* The task ends between two polls.                                        *)
PollerEnded == poll.pc = "waiting"

PollerLosesRuntime == poll' = Waiting /\ UNCHANGED <<sentry, cursor, watermark, first, accepted>>
=============================================================================
