---------------------------- MODULE GitWorkspace ----------------------------
(***************************************************************************)
(* An Issue's Git workspace up to the publication: acquire, observeRepair, *)
(* the Agent's Repair in the worktree, validateRepair, and release.        *)
(***************************************************************************)
EXTENDS GitRepository

(* assertWorktreeAndSubmodulesClean: nothing is changed, hidden in the     *)
(* index, or left in a submodule.                                          *)
WorktreeClean(t) == t = "clean"

(* acquire.  The branch and the worktree exist before the state is stored: *)
(* a process that ends in between acquires again, and meets the path.      *)
AddWorktree(i) ==
  /\ stage[i] = "PREPARING" /\ At(i, "idle") /\ ~saved[i].known
  /\ IF tree[i] = "absent"
       THEN /\ refs' = IF Head(i) = None THEN [refs EXCEPT ![i] = refs[Base]] ELSE refs
            /\ tree' = [tree EXCEPT ![i] = "clean"]
            /\ Goto(i, "added") /\ UNCHANGED stage
       ELSE Enter(i, "UNPREPARED") /\ UNCHANGED <<refs, tree, run>>
  /\ UNCHANGED <<remote, checkout, local, saved, draft, made, history>>

SaveAcquired(i) ==
  /\ At(i, "added")
  /\ saved' = [saved EXCEPT ![i].known = TRUE]
  /\ Goto(i, "acquired")
  /\ UNCHANGED <<repository, tree, stage, draft, history>>

(* restoreWorktree: one that is gone is added again at its branch.         *)
Restored(t) == IF t = "absent" THEN "clean" ELSE t

Reacquire(i) ==
  /\ stage[i] = "PREPARING" /\ At(i, "idle") /\ saved[i].known
  /\ tree' = [tree EXCEPT ![i] = Restored(@)]
  /\ Goto(i, "acquired")
  /\ UNCHANGED <<repository, saved, stage, draft, history>>

(* completeAcquire *)
CompleteAcquire(i) ==
  /\ At(i, "acquired")
  /\ Enter(i, "REPAIRING") /\ Ends(i)
  /\ UNCHANGED <<repository, tree, saved, draft, history>>

-----------------------------------------------------------------------------
(* observeRepair: the base commit the Agent is to integrate. *)
ObserveRepair(i) ==
  /\ stage[i] = "REPAIRING" /\ At(i, "idle") /\ saved[i].known
  /\ IF tree[i] = "absent" THEN Fails(i)
     ELSE run' = [run EXCEPT ![i].pc = "repairing", ![i].base = refs[Base]] /\ UNCHANGED stage
  /\ UNCHANGED <<repository, tree, saved, draft, history>>

(* What the Agent leaves: its branch as it was, or with a commit that has  *)
(* or has not integrated the observed base.                                *)
AgentWorked(i) ==
  \/ UNCHANGED <<refs, made>>
  \/ /\ MayCommit(i)
     /\ \E parents \in {Head(i), Head(i) \cup run[i].base} :
          refs' = [refs EXCEPT ![i] = NewCommit(i, parents)]
     /\ MakeCommit(i)

(* validateGitRepair, for a delivery that is ready. *)
RepairValid(i) == WorktreeClean(tree'[i]) /\ Contains(refs'[i], run[i].base)

AgentDelivers(i) ==
  /\ At(i, "repairing")
  /\ AgentWorked(i)
  /\ \E t \in {"clean", "dirty"} : tree' = [tree EXCEPT ![i] = t]
  /\ Ends(i)
  /\ IF RepairValid(i)
       THEN /\ draft' = [draft EXCEPT ![i] = [base |-> run[i].base, commit |-> refs'[i]]]
            /\ Enter(i, "REVIEW") /\ UNCHANGED faults
       ELSE Fault("repair") /\ Enter(i, "FAILED") /\ UNCHANGED draft
  /\ UNCHANGED <<remote, checkout, local, saved, accepted, misled>>

(* A merge the Agent cannot decide is left in the worktree for the human.  *)
AgentAsks(i) ==
  /\ At(i, "repairing") /\ ~Contains(Head(i), run[i].base)
  /\ tree' = [tree EXCEPT ![i] = "merging"]
  /\ Enter(i, "DECISION") /\ Ends(i)
  /\ UNCHANGED <<repository, saved, draft, history>>

-----------------------------------------------------------------------------
(* release: a path that is missing is pruned, one that is not clean stays. *)
Release(i) ==
  /\ At(i, "releasing")
  /\ IF tree[i] = "absent" \/ WorktreeClean(tree[i])
       THEN /\ tree' = [tree EXCEPT ![i] = "absent"]
            /\ Goto(i, "released") /\ UNCHANGED stage
       ELSE Fails(i) /\ UNCHANGED tree
  /\ UNCHANGED <<repository, saved, draft, history>>

(* completeRelease *)
CompleteRelease(i) ==
  /\ At(i, "released")
  /\ Enter(i, "COMPLETED") /\ Ends(i)
  /\ UNCHANGED <<repository, tree, saved, draft, history>>

-----------------------------------------------------------------------------
(* The human: the answer to a business decision, the review of a delivery  *)
(* (evidence is left out), and the retry of what failed.                   *)
Rests(i, stages) == stage[i] \in stages /\ At(i, "idle")

Decide(i) ==
  /\ Rests(i, {"DECISION"}) /\ Enter(i, "REPAIRING")
  /\ UNCHANGED <<repository, tree, saved, draft, run, history>>

Accept(i) ==
  /\ Rests(i, {"REVIEW"}) /\ Enter(i, "FINALIZING")
  /\ accepted' = [accepted EXCEPT ![i] = draft[i].commit]
  /\ UNCHANGED <<repository, tree, saved, draft, run, faults, misled>>

Reject(i) ==
  /\ Rests(i, {"REVIEW"}) /\ Enter(i, "REPAIRING")
  /\ UNCHANGED <<repository, tree, saved, draft, run, history>>

RetryRepair(i) ==
  /\ Rests(i, {"FAILED"}) /\ Enter(i, "REPAIRING")
  /\ UNCHANGED <<repository, tree, saved, draft, run, history>>

WorkspaceNext(i) ==
  \/ AddWorktree(i) \/ SaveAcquired(i) \/ Reacquire(i) \/ CompleteAcquire(i)
  \/ ObserveRepair(i) \/ AgentDelivers(i) \/ AgentAsks(i)
  \/ Release(i) \/ CompleteRelease(i)

HumanNext(i) ==
  Decide(i) \/ Accept(i) \/ Reject(i) \/ RetryRepair(i)
=============================================================================
