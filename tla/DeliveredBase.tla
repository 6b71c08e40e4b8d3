---------------------------- MODULE DeliveredBase ----------------------------
(***************************************************************************)
(* What publication promises, said without worktrees, checkouts and steps: *)
(* the base branch only ever gains commits; what it gains is a commit of   *)
(* its developer or a delivery a human has accepted, whole; and an Issue   *)
(* is published once, with the delivery accepted at that time, when the    *)
(* base branch has it.                                                     *)
(***************************************************************************)
EXTENDS Naturals

CONSTANTS Issues, LegacyIssues, Developer

VARIABLES
    base,       \* the commit of the base branch, as the set of its history
    accepted,   \* the delivery of each Issue that was accepted last
    published,  \* the commit each Issue was published with, {} if it was not
    misled      \* Issues whose publication was led to another branch

vars == <<base, accepted, published, misled>>

Init ==
  /\ base = {<<Developer, 0>>}
  /\ published = [i \in Issues |-> {}]
  /\ misled = {}
  /\ \A i \in Issues \ LegacyIssues : accepted[i] = {}

DeveloperCommits ==
  /\ base \subseteq base' /\ \A c \in base' \ base : c[1] = Developer
  /\ UNCHANGED <<accepted, published, misled>>

Accept(i) ==
  /\ \A j \in Issues \ {i} : accepted'[j] = accepted[j]
  /\ UNCHANGED <<base, published, misled>>

(* A fast-forward to the accepted delivery.  Of an earlier version's       *)
(* delivery that does not contain the base, a merge with it.               *)
Deliver(i) ==
  /\ \/ accepted[i] # {} /\ base \subseteq accepted[i] /\ base' = accepted[i]
     \/ /\ i \in LegacyIssues
        /\ base \cup accepted[i] \subseteq base'
        /\ \A c \in base' \ (base \cup accepted[i]) : c[1] = i
  /\ UNCHANGED <<accepted, published, misled>>

Publish(i) ==
  /\ published[i] = {}
  /\ accepted[i] \subseteq base \/ i \in misled
  /\ published' = [published EXCEPT ![i] = accepted[i]]
  /\ UNCHANGED <<base, accepted, misled>>

Mislead ==
  /\ misled \subseteq misled' /\ misled' \subseteq Issues
  /\ UNCHANGED <<base, accepted, published>>

Next ==
  \/ DeveloperCommits \/ Mislead
  \/ \E i \in Issues : Accept(i) \/ Deliver(i) \/ Publish(i)

Spec == Init /\ [][Next]_vars
=============================================================================
