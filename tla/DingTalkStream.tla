--------------------------- MODULE DingTalkStream ---------------------------
(***************************************************************************)
(* The DingTalk source: it keeps a stream open, hands each message to the  *)
(* intake, and acknowledges it when the intake has it.  DingTalk sends a   *)
(* message that was not acknowledged again.                                *)
(***************************************************************************)
EXTENDS ProjectSettings

CONSTANTS
    Messages,
    Refused,            \* those the adapter turns down
    Deliveries          \* bound: deliveries of a message handled at once

ASSUME DingTalkAssumption ==
  IsFiniteSet(Messages) /\ Refused \subseteq Messages /\ Deliveries \in Nat \ {0}

VARIABLES
    stream,         \* "closed", or "open" once connect() has resolved
    sent,           \* the messages there are
    acknowledged,   \* those DingTalk will not send again
    taken,          \* those in the intake, which ignores the ones it has
    handling        \* the calls of handle() under way

dingtalkVars == <<stream, sent, acknowledged, taken, handling>>

Calls == Messages \X (1 .. Deliveries)
NoCalls == [c \in Calls |-> "none"]

InitDingTalk ==
  /\ stream = "closed" /\ sent = {} /\ acknowledged = {} /\ taken = {} /\ handling = NoCalls

SendMessage(m) ==
  /\ m \notin sent /\ sent' = sent \cup {m}
  /\ UNCHANGED <<supervisor, faults, settingsVars, stream, acknowledged, taken, handling>>

-----------------------------------------------------------------------------
(* start().  What fails is tried again after a while.                      *)
OpenStream ==
  /\ source.state = "running" /\ ~source.aborted /\ stream = "closed"
  /\ stream' = "open"
  /\ UNCHANGED <<supervisor, faults, settingsVars, sent, acknowledged, taken, handling>>

(* disconnect(); a message that is being handled is late: the intake takes *)
(* it, but nothing acknowledges it any more.                               *)
Late == [c \in Calls |-> IF handling[c] = "new" THEN "late" ELSE
                         IF handling[c] = "taken" THEN "none" ELSE handling[c]]

CloseStream ==
  /\ source.aborted /\ stream = "open"
  /\ stream' = "closed" /\ handling' = Late
  /\ UNCHANGED <<supervisor, faults, settingsVars, sent, acknowledged, taken>>

-----------------------------------------------------------------------------
(* handle().  A message that does not make an input is acknowledged too.   *)
(* Mutant: a message is acknowledged before the intake has it. *)
ReceivesAcknowledging(m) ==
  /\ stream = "open" /\ m \in sent \ acknowledged
  /\ \E c \in Calls : c[1] = m /\ handling[c] = "none" /\ handling' = [handling EXCEPT ![c] = "new"]
  /\ acknowledged' = acknowledged \cup {m}
  /\ UNCHANGED <<supervisor, faults, settingsVars, stream, sent, taken>>

Receives(m) ==
  /\ stream = "open" /\ m \in sent \ acknowledged
  /\ IF m \in Refused
       THEN acknowledged' = acknowledged \cup {m} /\ UNCHANGED handling
       ELSE /\ \E c \in Calls : c[1] = m /\ handling[c] = "none" /\ handling' = [handling EXCEPT ![c] = "new"]
            /\ UNCHANGED acknowledged
  /\ UNCHANGED <<supervisor, faults, settingsVars, stream, sent, taken>>

OnInput(c) ==
  /\ handling[c] \in {"new", "late"}
  /\ \/ /\ taken' = taken \cup {c[1]}
        /\ handling' = [handling EXCEPT ![c] = IF @ = "new" THEN "taken" ELSE "none"]
        /\ UNCHANGED faults
     \/ Fault("intake") /\ handling' = [handling EXCEPT ![c] = "none"] /\ UNCHANGED taken
  /\ UNCHANGED <<supervisor, settingsVars, stream, sent, acknowledged>>

Acknowledge(c) ==
  /\ handling[c] = "taken"
  /\ handling' = [handling EXCEPT ![c] = "none"]
  /\ acknowledged' = acknowledged \cup {c[1]}
  /\ UNCHANGED <<supervisor, faults, settingsVars, stream, sent, taken>>

StreamEnded == stream = "closed"

StreamLosesRuntime ==
  stream' = "closed" /\ handling' = NoCalls /\ UNCHANGED <<sent, acknowledged, taken>>
=============================================================================
