---------------------------- MODULE GitRepository ----------------------------
(***************************************************************************)
(* The Git repository in which the Git workspace provider works, and what  *)
(* the provider and the Runtime keep about every Issue's workspace.        *)
(*                                                                         *)
(* A commit is the set of the commits in its history, itself included,     *)
(* each of which is named by who made it and a number: "is an ancestor of" *)
(* is "is a subset of".  The empty set stands for no commit.               *)
(***************************************************************************)
EXTENDS Naturals, FiniteSets

CONSTANTS
    Issues,
    LegacyIssues,       \* found in a finalization recovery of an earlier version
    Developer,          \* whoever else commits to the base branch
    Base,               \* the configured base branch
    Other,              \* another branch of the developer
    PushToRemote,
    Faults,             \* what may go wrong
    MaxCommits,         \* bound: an Issue's commits after which its Agent makes none
    MaxDeveloperCommits, \* bound
    MaxFaults           \* bound: how many things go wrong

ASSUME RepositoryAssumption ==
  /\ LegacyIssues \subseteq Issues
  /\ Developer \notin Issues /\ Base \notin Issues /\ Other \notin Issues
  /\ Base # Other
  /\ PushToRemote \in BOOLEAN
  /\ Faults \subseteq {"crash", "remote", "dirty", "switch", "overlap", "repair"}
  /\ MaxCommits \in Nat /\ MaxDeveloperCommits \in Nat /\ MaxFaults \in Nat

VARIABLES
    refs,       \* refs/heads of the repository; an Issue's branch is its worktree's HEAD
    remote,     \* the Issues' branches at the remote
    checkout,   \* the branch of the developer's own checkout
    local,      \* Issues whose delivery touches a path the developer has changed there
    tree,       \* the Issues' worktrees
    saved,      \* the provider's persisted state of each workspace
    stage,      \* where the Runtime's row has the Issue
    draft,      \* the integration recorded in the delivery draft
    run,        \* the provider call in progress for the Issue, lost with the process
    made,       \* how many commits each author has made
    faults,
    accepted,   \* history: the commit the human accepted last
    misled      \* history: the checkout was switched while the Issue was to advance it

repository == <<refs, remote, checkout, local, made>>
history == <<faults, accepted, misled>>
vars == <<refs, remote, checkout, local, tree, saved, stage, draft, run, made, faults,
          accepted, misled>>

Authors  == Issues \cup {Developer}
Branches == Issues \cup {Base, Other}
Commits  == SUBSET (Authors \X Nat)
None     == {}
Root     == {<<Developer, 0>>}

(* Ancestry, and a new commit on top of others. *)
Contains(commit, ancestor) == ancestor \subseteq commit
NewCommit(author, parents) == parents \cup {<<author, made[author] + 1>>}
MakeCommit(author) == made' = [made EXCEPT ![author] = @ + 1]
MayCommit(author) ==
  made[author] < IF author = Developer THEN MaxDeveloperCommits ELSE MaxCommits

Head(i) == refs[i]

(* "merging" has conflict markers, "resolved" none, in a merge that is not *)
(* committed; "dirty" is any other worktree that is not clean.             *)
Trees == {"absent", "clean", "dirty", "merging", "resolved"}

(* GitMergeRecoverySession, or a GENERATED_ARTIFACT_CLEANUP.  refs are the *)
(* repository's refs when the recovery was prepared.                       *)
NoRecovery == [kind |-> "none", base |-> None, issue |-> None,
               refs |-> [b \in Branches |-> None], candidate |-> FALSE, sealed |-> None]

Recoveries ==
  [kind : {"none", "conflict", "cleanup"}, base : Commits, issue : Commits,
   refs : [Branches -> Commits], candidate : BOOLEAN, sealed : Commits]

(* GitWorkspaceState: known once it was stored, branchInfo's commit.       *)
SavedStates == [known : BOOLEAN, info : Commits, recovery : Recoveries]

Stages == {"PREPARING", "UNPREPARED", "REPAIRING", "DECISION", "REVIEW", "FINALIZING",
           "RECOVERING", "FAILED", "COMPLETED"}

Steps == {"idle", "added", "acquired", "repairing", "listing", "advancing", "pushing", "saving",
          "releasing", "released", "sealed", "merging", "attempting", "updating"}

Publishing == Steps \ {"idle", "added", "acquired", "repairing"}

(* base is the base commit the call has read, path whether the base branch *)
(* was found checked out, result the commit to advance the base to.        *)
Idle == [pc |-> "idle", base |-> None, path |-> FALSE, result |-> None, tries |-> 0]

NoDraft == [base |-> None, commit |-> None]

TypeOK ==
  /\ refs \in [Branches -> Commits] /\ remote \in [Issues -> Commits]
  /\ checkout \in {Base, Other} /\ local \subseteq Issues
  /\ tree \in [Issues -> Trees]
  /\ saved \in [Issues -> SavedStates]
  /\ stage \in [Issues -> Stages]
  /\ draft \in [Issues -> [base : Commits, commit : Commits]]
  /\ run \in [Issues -> [pc : Steps, base : Commits, path : BOOLEAN, result : Commits,
                         tries : 0 .. 3]]
  /\ made \in [Authors -> Nat]
  /\ faults \in Nat
  /\ accepted \in [Issues -> Commits] /\ misled \subseteq Issues
  /\ \A i \in Issues : run[i].pc \in Publishing => stage[i] = "FINALIZING"

-----------------------------------------------------------------------------
(* Something goes wrong.                                                   *)
Fault(kind) == kind \in Faults /\ faults < MaxFaults /\ faults' = faults + 1

(* The provider call for an Issue goes on, or ends.                        *)
At(i, pc) == run[i].pc = pc
Goto(i, pc) == run' = [run EXCEPT ![i].pc = pc]
Ends(i) == run' = [run EXCEPT ![i] = Idle]
Enter(i, s) == stage' = [stage EXCEPT ![i] = s]

(* Mutant: the failure is recorded, and the call goes on. *)
FailsRunning(i) == UNCHANGED run /\ Enter(i, "FAILED")

(* persistPublicationFailure, and a Repair that does not validate. *)
Fails(i) == Ends(i) /\ Enter(i, "FAILED")

(* git merge --ff-only in the developer's checkout, which moves the branch *)
(* checked out there now, if that is a fast-forward and no local change is *)
(* in the way; and git update-ref with the expected old value.             *)
UpToDate(commit) == Contains(refs[checkout], commit)
MayFastForward(i, commit) == Contains(commit, refs[checkout]) /\ i \notin local

(* Mutant: the ref is updated without its old value. *)
AdvancesUnchecked(i, commit, expected, path) ==
  IF path THEN UpToDate(commit) \/ MayFastForward(i, commit)
  ELSE TRUE

Advances(i, commit, expected, path) ==
  IF path THEN UpToDate(commit) \/ MayFastForward(i, commit)
  ELSE refs[Base] = expected

Advanced(commit, path) ==
  IF path /\ UpToDate(commit) THEN refs
  ELSE [refs EXCEPT ![IF path THEN checkout ELSE Base] = commit]
=============================================================================
