--------------------------- MODULE GitPublication ---------------------------
(***************************************************************************)
(* Publishing accepted deliveries of several Issues of one repository,     *)
(* while its developer commits to the base branch, switches the checkout   *)
(* and edits files in it, the remote fails and the process ends.           *)
(***************************************************************************)
EXTENDS GitLegacyPublication

(* publish, up to what fastForwardIntegratedBase decides from the base     *)
(* commit it reads.                                                        *)
PublishedAlready(i) ==
  /\ saved[i].info # None
  /\ Goto(i, "releasing")
  /\ UNCHANGED stage

NotPublishable(i) ==
  \/ ~WorktreeClean(tree[i])
  \/ draft[i].commit # Head(i)
  \/ ~Contains(Head(i), draft[i].base)

(* Mutant: that the base has moved ends the call and is not recorded. *)
BaseStaleUnrecorded(i) == Ends(i) /\ UNCHANGED stage

(* recordBaseIntegrationStale *)
BaseStale(i) == Ends(i) /\ Enter(i, "REPAIRING")

Judged(i) ==
  IF Contains(refs[Base], Head(i)) THEN Goto(i, AfterMerge) /\ UNCHANGED stage
  ELSE IF ~Contains(Head(i), refs[Base]) THEN BaseStale(i)
  ELSE run' = [run EXCEPT ![i].pc = "listing", ![i].base = refs[Base]] /\ UNCHANGED stage

Publish(i) ==
  /\ stage[i] = "FINALIZING" /\ At(i, "idle")
  /\ \/ PublishedAlready(i)
     \/ /\ saved[i].info = None /\ saved[i].recovery.kind = "none"
        /\ IF NotPublishable(i) THEN Fails(i) ELSE Judged(i)
  /\ UNCHANGED <<repository, tree, saved, draft, history>>

(* git worktree list, and assertBaseCheckoutMergeSafe of a base checkout.  *)
ListCheckouts(i) ==
  /\ At(i, "listing")
  /\ IF checkout = Base /\ i \in local
       THEN Fails(i)
       ELSE /\ run' = [run EXCEPT ![i].pc = "advancing", ![i].path = (checkout = Base)]
            /\ UNCHANGED stage
  /\ UNCHANGED <<repository, tree, saved, draft, history>>

(* A fast-forward that fails is stale when the base has moved.             *)
(* Mutant: it is stale whyever it fails. *)
FastForwardAlwaysStale(i) == TRUE

FastForwardStale(i) == ~run[i].path \/ refs[Base] # run[i].base

FastForward(i) ==
  /\ At(i, "advancing")
  /\ IF Advances(i, Head(i), run[i].base, run[i].path)
       THEN refs' = Advanced(Head(i), run[i].path) /\ Goto(i, AfterMerge) /\ UNCHANGED stage
       ELSE /\ IF FastForwardStale(i) THEN BaseStale(i) ELSE Fails(i)
            /\ UNCHANGED refs
  /\ UNCHANGED <<remote, checkout, local, made, tree, saved, draft, history>>

-----------------------------------------------------------------------------
(* The developer, and the faults.  What a call has not read yet might as   *)
(* well have been so when it began: the checkout is switched and edited,   *)
(* and a worktree touched, only where a call depends on it.                *)
DeveloperCommits ==
  /\ MayCommit(Developer)
  /\ refs' = [refs EXCEPT ![Base] = NewCommit(Developer, @)]
  /\ MakeCommit(Developer)
  /\ UNCHANGED <<remote, checkout, local, tree, saved, stage, draft, run, history>>

Located(i) == run[i].pc \in {"advancing", "attempting", "updating"}

DeveloperSwitches ==
  /\ \E i \in Issues : Located(i)
  /\ Fault("switch")
  /\ checkout' \in {Base, Other} \ {checkout}
  /\ misled' = misled \cup {i \in Issues : Located(i)}
  /\ UNCHANGED <<refs, remote, local, tree, saved, stage, draft, run, made, accepted>>

DeveloperEdits ==
  /\ Fault("overlap")
  /\ \E i \in Issues :
       /\ At(i, "listing") \/ Located(i)
       /\ local' = IF i \in local THEN local \ {i} ELSE local \cup {i}
  /\ UNCHANGED <<refs, remote, checkout, tree, saved, stage, draft, run, made, accepted, misled>>

(* Somebody leaves a file in a worktree, edits a resolved conflict, or     *)
(* deletes a worktree before it has been used.                             *)
WorktreeTouched(i) ==
  /\ Fault("dirty")
  /\ \/ /\ stage[i] \in {"REVIEW", "FINALIZING"}
        /\ \/ tree[i] = "clean" /\ tree' = [tree EXCEPT ![i] = "dirty"]
           \/ tree[i] = "resolved" /\ tree' = [tree EXCEPT ![i] = "merging"]
     \/ tree[i] = "clean" /\ stage[i] = "PREPARING" /\ tree' = [tree EXCEPT ![i] = "absent"]
  /\ UNCHANGED <<repository, saved, stage, draft, run, accepted, misled>>

(* The process ends; what it runs is taken up by the next one, which also  *)
(* tries to acquire again what could not be acquired.                      *)
Crash ==
  /\ Fault("crash")
  /\ run' = [i \in Issues |-> Idle]
  /\ stage' = [i \in Issues |-> IF stage[i] = "UNPREPARED" THEN "PREPARING" ELSE stage[i]]
  /\ UNCHANGED <<repository, tree, saved, draft, accepted, misled>>

EnvironmentNext ==
  \/ DeveloperCommits \/ DeveloperSwitches \/ DeveloperEdits \/ Crash
  \/ \E i \in Issues : WorktreeTouched(i)

ProviderNext(i) ==
  \/ WorkspaceNext(i)
  \/ Publish(i) \/ ListCheckouts(i) \/ FastForward(i)
  \/ Push(i) \/ SavePublished(i)
  \/ LegacyNext(i)

Next == EnvironmentNext \/ \E i \in Issues : ProviderNext(i) \/ HumanNext(i)

(* A row of this version, and one of an earlier version that was left in a *)
(* finalization recovery: a prepared conflict, or generated files (bound:  *)
(* those only with the base checked out).                                  *)
Recovery(i, kind, branches) ==
  [NoRecovery EXCEPT !.kind = kind, !.base = Root, !.issue = branches[i], !.refs = branches]

InitialRefs ==
  [b \in Branches |-> CASE b \in {Base, Other} -> Root
                        [] b \in LegacyIssues -> Root \cup {<<b, 1>>}
                        [] OTHER -> None]

Init ==
  /\ refs = InitialRefs
  /\ remote = [i \in Issues |-> None]
  /\ checkout \in {Base, Other} /\ local = {}
  /\ \E kind \in [LegacyIssues -> IF checkout = Base THEN {"conflict", "cleanup"} ELSE {"conflict"}] :
       /\ saved = [i \in Issues |->
            [known |-> i \in LegacyIssues, info |-> None,
             recovery |-> IF i \in LegacyIssues THEN Recovery(i, kind[i], InitialRefs)
                          ELSE NoRecovery]]
       /\ tree = [i \in Issues |-> CASE i \notin LegacyIssues -> "absent"
                                     [] i \in LegacyIssues /\ kind[i] = "conflict" -> "merging"
                                     [] OTHER -> "dirty"]
  /\ stage = [i \in Issues |-> IF i \in LegacyIssues THEN "RECOVERING" ELSE "PREPARING"]
  /\ draft = [i \in Issues |-> NoDraft]
  /\ run = [i \in Issues |-> Idle]
  /\ made = [a \in Authors |-> IF a \in LegacyIssues THEN 1 ELSE 0]
  /\ faults = 0 /\ misled = {}
  /\ accepted = [i \in Issues |-> IF i \in LegacyIssues THEN InitialRefs[i] ELSE None]

(* The event loop runs a provider's call to its end, and Agents end.       *)
Fairness == \A i \in Issues : WF_vars(ProviderNext(i))

Spec == Init /\ [][Next]_vars
FairSpec == Spec /\ Fairness

-----------------------------------------------------------------------------
Delivery ==
  INSTANCE DeliveredBase WITH
    base <- refs[Base], published <- [i \in Issues |-> saved[i].info]

(* Publication implements what it promises (DeliveredBase), whatever moves *)
(* the base between two of its commands and wherever the process ends.     *)
Delivers == Delivery!Spec

(* What is recorded as published is in the base branch, unless the         *)
(* checkout was switched while the base was to be advanced in it, and at   *)
(* the remote; an Issue is completed only after that, without a worktree.  *)
PublishedEverywhere ==
  \A i \in Issues :
    /\ saved[i].info # None =>
         /\ Contains(refs[Base], saved[i].info) \/ i \in misled
         /\ PushToRemote => Contains(remote[i], saved[i].info)
    /\ stage[i] = "COMPLETED" => saved[i].info # None /\ tree[i] # "clean"

(* What the provider decides alone it decides rightly.  A delivery is sent *)
(* back as stale only when the base really has commits it does not         *)
(* contain: two Issues never send each other back for nothing.  And a      *)
(* merge with conflict markers left in it is committed by the Agent in a   *)
(* Repair or by nobody: neither a recovery that was given up, nor one that *)
(* was edited after its validation, gets into a commit of the provider.    *)
StaleIsReal(i) ==
  stage[i] = "FINALIZING" /\ stage'[i] = "REPAIRING" => ~Contains(draft[i].commit, refs[Base])

MarkersStay(i) ==
  tree[i] = "merging" /\ Head(i)' # Head(i) => At(i, "repairing")

DecidesRightly == [][\A i \in Issues : StaleIsReal(i) /\ MarkersStay(i)]_vars

(* Every provider call ends, and every stage the Runtime runs by itself    *)
(* comes to one in which the human has the next move.                      *)
AtRest(i) ==
  At(i, "idle") /\ stage[i] \in {"UNPREPARED", "DECISION", "REVIEW", "FAILED", "COMPLETED"}

ReachesRest == \A i \in Issues : []<>AtRest(i)
=============================================================================
