------------------------ MODULE GitLegacyPublication ------------------------
(***************************************************************************)
(* The finalization recovery of an earlier version, which a migrated Issue *)
(* may still be in: validateFinalizationRecovery and what follows it,      *)
(* bindFinalizationRecoveryDelivery and publishLegacyRecoveredDelivery,    *)
(* with its automatic merge.  And the end every publication shares.        *)
(***************************************************************************)
EXTENDS GitWorkspace

Session(i) == saved[i].recovery
AfterMerge == IF PushToRemote THEN "pushing" ELSE "saving"

(* The repository's refs but those named, as the recovery was prepared.    *)
RefsUnchanged(i, except) == \A b \in Branches \ except : refs[b] = Session(i).refs[b]

(* inspectMergeSessionInvariants *)
SessionIntact(i, except) ==
  /\ Head(i) = Session(i).issue
  /\ tree[i] \in {"merging", "resolved"}
  /\ RefsUnchanged(i, except)

(* Nothing is left unresolved in the index, and no conflict marker in a    *)
(* file of the merge.                                                      *)
Resolved(t) == t = "resolved"

(* captureGitFinalizationFingerprint, of which only HEAD is told apart: a  *)
(* change of anything else is a choice of RecoverGenerated.                *)
FingerprintKept(i) == Head(i) = Session(i).issue

(* bindFinalizationRecoveryDelivery *)
BindRecoveryDelivery(i) == saved' = [saved EXCEPT ![i].recovery.candidate = TRUE]

-----------------------------------------------------------------------------
(* The Agent's turn and its validation.  A conflict that is resolved is a  *)
(* changed delivery, whose tree becomes the candidate.  Of generated files *)
(* nothing may remain, and a changed source changes the delivery.          *)
RecoverConflict(i) ==
  /\ Session(i).kind = "conflict"
  /\ \E t \in {"merging", "resolved"} :
       /\ tree' = [tree EXCEPT ![i] = t]
       /\ IF Resolved(t) /\ SessionIntact(i, {})
            THEN BindRecoveryDelivery(i) /\ Enter(i, "REVIEW")
            ELSE UNCHANGED saved /\ Enter(i, "FAILED")

RecoverGenerated(i) ==
  /\ Session(i).kind = "cleanup"
  /\ \/ FingerprintKept(i) /\ \E s \in {"REVIEW", "FINALIZING"} : Enter(i, s)
     \/ Enter(i, "FAILED")
  /\ UNCHANGED <<tree, saved>>

(* The draft of an earlier version carries no integration. *)
Recover(i) ==
  /\ stage[i] = "RECOVERING" /\ At(i, "idle") /\ tree[i] # "absent"
  /\ RecoverConflict(i) \/ RecoverGenerated(i)
  /\ draft' = [draft EXCEPT ![i] = [base |-> None, commit |-> Head(i)]]
  /\ UNCHANGED <<repository, run, history>>

-----------------------------------------------------------------------------
AfterCommit == IF PushToRemote THEN "pushing" ELSE "merging"

Legacy(i) == Session(i).kind # "none"

(* What is committed now is what the human has accepted in the worktree.   *)
CommitWorktree(i, parents) ==
  /\ refs' = [refs EXCEPT ![i] = NewCommit(i, parents)]
  /\ MakeCommit(i)
  /\ tree' = [tree EXCEPT ![i] = "clean"]
  /\ accepted' = [accepted EXCEPT ![i] = refs'[i]]

(* finalizeGitMergeRecovery of a validated conflict: sealed before, it has *)
(* to be HEAD; otherwise the session is inspected and committed.           *)
Sealable(i) ==
  /\ SessionIntact(i, {Base})
  /\ refs[Base] = Session(i).base
  /\ Resolved(tree[i])

Seal(i) ==
  /\ Session(i).kind = "conflict" /\ Session(i).candidate
  /\ IF Session(i).sealed # None
       THEN /\ IF Head(i) = Session(i).sealed
                 THEN Goto(i, AfterCommit) /\ UNCHANGED stage
                 ELSE Fails(i)
            /\ UNCHANGED <<refs, made, tree, accepted>>
     ELSE IF Sealable(i)
       THEN /\ CommitWorktree(i, Head(i) \cup Session(i).base)
            /\ Goto(i, "sealed") /\ UNCHANGED stage
       ELSE Fails(i) /\ UNCHANGED <<refs, made, tree, accepted>>

(* Everything else in the worktree is committed.                           *)
CommitAll(i) ==
  /\ ~(Session(i).kind = "conflict" /\ Session(i).candidate)
  /\ IF WorktreeClean(tree[i])
       THEN UNCHANGED <<refs, made, tree, accepted>>
       ELSE CommitWorktree(i, Head(i))
  /\ Goto(i, AfterCommit) /\ UNCHANGED stage

PublishLegacy(i) ==
  /\ stage[i] = "FINALIZING" /\ At(i, "idle")
  /\ saved[i].info = None /\ Legacy(i) /\ tree[i] # "absent"
  /\ Seal(i) \/ CommitAll(i)
  /\ UNCHANGED <<remote, checkout, local, saved, draft, faults, misled>>

SaveSealed(i) ==
  /\ At(i, "sealed")
  /\ saved' = [saved EXCEPT ![i].recovery.sealed = Head(i)]
  /\ Goto(i, AfterCommit)
  /\ UNCHANGED <<repository, tree, stage, draft, history>>

-----------------------------------------------------------------------------
(* mergeIntoBaseBranch: a resolved conflict is for the base it was         *)
(* resolved against, other deliveries follow the base for three attempts,  *)
(* each of which begins by asking whether the base has the delivery.       *)
MaxAttempts == 3

MergeLegacy(i) ==
  /\ At(i, "merging")
  /\ IF /\ Session(i).kind = "conflict" /\ refs[Base] # Session(i).base
        /\ ~Contains(refs[Base], Head(i))
       THEN Fails(i)
     ELSE /\ run' = [run EXCEPT ![i].pc = "attempting", ![i].base = refs[Base],
                                ![i].path = (checkout = Base), ![i].tries = 1]
          /\ UNCHANGED stage
  /\ UNCHANGED <<repository, tree, saved, draft, history>>

(* An attempt fails: once more if the base has moved meanwhile.            *)
AttemptFails(i) ==
  IF /\ Session(i).kind = "cleanup"
     /\ refs[Base] # run[i].base /\ run[i].tries < MaxAttempts
    THEN /\ run' = [run EXCEPT ![i].pc = "attempting", ![i].base = refs[Base], ![i].tries = @ + 1]
         /\ UNCHANGED stage
    ELSE Fails(i)

(* createAutomaticMergeCommit, and the check of a base checkout.           *)
AttemptMerge(i) ==
  /\ At(i, "attempting")
  /\ IF Contains(run[i].base, Head(i)) THEN Goto(i, "saving") /\ UNCHANGED <<stage, made>>
     ELSE \/ /\ ~(run[i].path /\ i \in local)
             /\ IF Contains(Head(i), run[i].base)
                  THEN run' = [run EXCEPT ![i].pc = "updating", ![i].result = Head(i)]
                       /\ UNCHANGED made
                  ELSE /\ run' = [run EXCEPT ![i].pc = "updating",
                                             ![i].result = NewCommit(i, Head(i) \cup run[i].base)]
                       /\ MakeCommit(i)
             /\ UNCHANGED stage
          \/ /\ (run[i].path /\ i \in local) \/ ~Contains(Head(i), run[i].base)
             /\ AttemptFails(i) /\ UNCHANGED made
  /\ UNCHANGED <<refs, remote, checkout, local, tree, saved, draft, history>>

UpdateBase(i) ==
  /\ At(i, "updating")
  /\ IF Advances(i, run[i].result, run[i].base, run[i].path)
       THEN refs' = Advanced(run[i].result, run[i].path) /\ Goto(i, "saving") /\ UNCHANGED stage
       ELSE AttemptFails(i) /\ UNCHANGED refs
  /\ UNCHANGED <<remote, checkout, local, made, tree, saved, draft, history>>

-----------------------------------------------------------------------------
(* Mutant: a push that fails does not fail the publication. *)
PushFailsQuietly(i) == Goto(i, IF Legacy(i) THEN "merging" ELSE "saving") /\ UNCHANGED stage

PushFails(i) == Fails(i)

(* The push of the Issue's branch.  It follows the base's fast-forward, or *)
(* precedes the merge of an earlier version's delivery.                    *)
Push(i) ==
  /\ At(i, "pushing")
  /\ \/ /\ remote' = [remote EXCEPT ![i] = Head(i)]
        /\ Goto(i, IF Legacy(i) THEN "merging" ELSE "saving") /\ UNCHANGED <<stage, faults>>
     \/ Fault("remote") /\ PushFails(i) /\ UNCHANGED remote
  /\ UNCHANGED <<refs, checkout, local, made, tree, saved, draft, accepted, misled>>

(* branchInfo is stored, without the recovery. *)
SavePublished(i) ==
  /\ At(i, "saving")
  /\ saved' = [saved EXCEPT ![i].info = Head(i), ![i].recovery = NoRecovery]
  /\ Goto(i, "releasing")
  /\ UNCHANGED <<repository, tree, stage, draft, history>>

LegacyNext(i) ==
  Recover(i) \/ PublishLegacy(i) \/ SaveSealed(i) \/ MergeLegacy(i) \/ AttemptMerge(i)
  \/ UpdateBase(i)
=============================================================================
