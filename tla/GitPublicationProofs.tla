------------------------ MODULE GitPublicationProofs ------------------------
(***************************************************************************)
(* Theorems about GitPublication, for any Issues, any of them from an      *)
(* earlier version, any faults and any bounds: its types, that what is     *)
(* recorded as published is where it has to be, what the provider decides  *)
(* alone, and that publication implements DeliveredBase.                   *)
(***************************************************************************)
EXTENDS GitPublication, TLAPS

(* The steps of a publication, told apart by what has happened before.     *)
Following == {"listing", "advancing"}
Merging   == {"merging", "attempting", "updating"}
Reading   == {"repairing", "listing", "advancing", "attempting", "updating"}
Released  == {"releasing", "released"}
Unsettled == {"merging", "resolved"}

InBase(i) == Contains(refs[Base], Head(i)) \/ i \in misled
Pushed(i) == PushToRemote => Contains(remote[i], Head(i))

(* Where a call can be, by the stage of its Issue and its saved state.     *)
Phase(i) ==
  /\ run[i].pc \in {"added", "acquired"} => stage[i] = "PREPARING"
  /\ run[i].pc = "repairing" => stage[i] = "REPAIRING"
  /\ run[i].pc \in Released => saved[i].info # None
  /\ run[i].pc \in Publishing \ Released => saved[i].info = None
  /\ run[i].pc \in Following => ~Legacy(i)
  /\ run[i].pc \in Merging \cup {"sealed"} => Legacy(i)
  /\ saved[i].info # None => ~Legacy(i)
  /\ Legacy(i) => i \in LegacyIssues
  /\ run[i].pc = "released" => tree[i] = "absent"
  /\ stage[i] = "COMPLETED" => saved[i].info # None /\ tree[i] # "clean"

(* What the branch of an Issue is: from the delivery on, the commit the    *)
(* human judges; and never more than the base and the Issue's own commits. *)
Branch(i) ==
  /\ \/ Head(i) # None
     \/ stage[i] \in {"PREPARING", "UNPREPARED"} /\ ~saved[i].known /\ run[i].pc = "idle"
  /\ stage[i] \in {"RECOVERING", "FINALIZING"} => accepted[i] = Head(i)
  /\ stage[i] = "REVIEW" \/ run[i].pc \in Following => draft[i].commit = Head(i)
  /\ \A c \in Head(i) : c[1] = i \/ c \in refs[Base]

(* What a call has read of the base branch and is about to write to it.    *)
BaseRead(i) ==
  /\ Contains(refs[Base], Session(i).base)
  /\ run[i].pc \in Reading => Contains(refs[Base], run[i].base)
  /\ run[i].pc \in Following =>
       /\ Contains(Head(i), run[i].base)
       /\ \A c \in Head(i) : c[1] = i \/ c \in run[i].base
       /\ \A c \in refs[Base] : c[1] = i => c \in run[i].base
  /\ run[i].pc = "updating" =>
       /\ Contains(run[i].result, Head(i) \cup run[i].base)
       /\ \A c \in run[i].result : c[1] = i \/ c \in Head(i) \cup run[i].base
  /\ Located(i) /\ run[i].path /\ checkout # Base => i \in misled

(* What is done of the publication when it comes to a step.                *)
Done(i) ==
  /\ saved[i].info # None =>
       /\ Contains(refs[Base], saved[i].info) \/ i \in misled
       /\ PushToRemote => Contains(remote[i], saved[i].info)
  /\ run[i].pc = "saving" => InBase(i) /\ Pushed(i)
  /\ run[i].pc = "pushing" /\ ~Legacy(i) => InBase(i)
  /\ run[i].pc \in Merging => Pushed(i)

(* A merge that is not committed waits for its session, or for the Agent.  *)
Markers(i) ==
  /\ stage[i] = "RECOVERING" =>
       Session(i).sealed = None /\ (Session(i).kind = "cleanup" => tree[i] \notin Unsettled)
  /\ stage[i] \in {"REVIEW", "FINALIZING"} /\ tree[i] \in Unsettled =>
       Session(i).kind = "conflict" /\ Session(i).candidate /\ Session(i).sealed = None
  /\ run[i].pc \in Publishing => tree[i] \notin Unsettled

RowInv(i) == Phase(i) /\ Branch(i) /\ BaseRead(i) /\ Done(i) /\ Markers(i)

Rooted == <<Developer, 0>> \in refs[Base]

GitInv == TypeOK /\ Rooted /\ \A i \in Issues : RowInv(i)

-----------------------------------------------------------------------------
(* Commits are made of commits, and so is every record that holds them.    *)
LEMMA CommitTypes ==
  ASSUME TypeOK
  PROVE  /\ \A a \in Authors, p \in Commits : NewCommit(a, p) \in Commits
         /\ \A b \in Branches : refs[b] \in Commits
         /\ \A i \in Issues : i \in Branches /\ i \in Authors
         /\ Base \in Branches /\ Other \in Branches /\ Developer \in Authors
         /\ None \in Commits
         /\ \A p, q \in Commits : p \cup q \in Commits
  BY DEF TypeOK, NewCommit, Commits, Authors, Branches, None

Calls  == [pc : Steps, base : Commits, path : BOOLEAN, result : Commits, tries : 0 .. 3]
Drafts == [base : Commits, commit : Commits]

(* What nobody runs, and what nobody has to recover, are what they are     *)
(* declared to be.                                                         *)
LEMMA RestTypes ==
  /\ Idle \in Calls /\ NoRecovery \in Recoveries /\ NoDraft \in Drafts
  /\ Idle.pc = "idle"
  BY DEF Calls, Drafts, Idle, NoRecovery, NoDraft, Recoveries, Steps, Commits, None

(* A function updated at a point is one still, and is the same elsewhere.  *)
LEMMA Updated ==
  ASSUME NEW S, NEW T, NEW f \in [S -> T], NEW x \in S, NEW v \in T, NEW g,
         g = f \/ g = [f EXCEPT ![x] = v]
  PROVE  g \in [S -> T] /\ \A y \in S : y # x => g[y] = f[y]
  OBVIOUS

Runs == [Issues -> Calls]

(* What TypeOK says of what the steps of an Issue change.                  *)
LEMMA StepTypes ==
  ASSUME TypeOK, NEW i \in Issues,
         refs' \in [Branches -> Commits], remote' \in [Issues -> Commits],
         tree' \in [Issues -> Trees], saved' \in [Issues -> SavedStates],
         stage' \in [Issues -> Stages], draft' \in [Issues -> Drafts], run' \in Runs,
         made' \in [Authors -> Nat], faults' \in Nat, accepted' \in [Issues -> Commits],
         UNCHANGED <<checkout, local, misled>>,
         \A j \in Issues \ {i} : stage'[j] = stage[j] /\ run'[j] = run[j],
         run'[i].pc \in Publishing => stage'[i] = "FINALIZING"
  PROVE  TypeOK'
  BY DEF TypeOK, Drafts, Calls, Runs

(* The call of an Issue goes on, with what else it has read; or ends.      *)
Elsewhere(i) == \A j \in Issues \ {i} : run'[j] = run[j]

LEMMA GotoFacts ==
  ASSUME run \in Runs, NEW i \in Issues, NEW pc \in Steps, Goto(i, pc)
  PROVE  /\ run' \in Runs /\ Elsewhere(i)
         /\ run'[i].pc = pc /\ run'[i].base = run[i].base /\ run'[i].path = run[i].path
         /\ run'[i].result = run[i].result /\ run'[i].tries = run[i].tries
  BY DEF Goto, Runs, Calls, Elsewhere

LEMMA ReadFacts ==
  ASSUME run \in Runs, NEW i \in Issues, NEW pc \in Steps, NEW b \in Commits,
         run' = [run EXCEPT ![i].pc = pc, ![i].base = b]
  PROVE  /\ run' \in Runs /\ Elsewhere(i)
         /\ run'[i].pc = pc /\ run'[i].base = b
  <1>1. run[i] \in Calls /\ run' = [run EXCEPT ![i] = [@ EXCEPT !.pc = pc, !.base = b]]
    BY DEF Runs
  <1>2. [run[i] EXCEPT !.pc = pc, !.base = b] \in Calls
    BY <1>1 DEF Calls
  <1>3. QED
    BY <1>1, <1>2 DEF Runs, Elsewhere, Calls

LEMMA EndsFacts ==
  ASSUME run \in Runs, NEW i \in Issues, Ends(i)
  PROVE  run' \in Runs /\ Elsewhere(i) /\ run'[i] = Idle /\ run'[i].pc = "idle"
  BY RestTypes DEF Ends, Runs, Elsewhere

LEMMA EnterFacts ==
  ASSUME stage \in [Issues -> Stages], NEW i \in Issues, NEW s \in Stages, Enter(i, s)
  PROVE  /\ stage' \in [Issues -> Stages]
         /\ stage'[i] = s /\ \A j \in Issues \ {i} : stage'[j] = stage[j]
  BY DEF Enter

(* What a step of one Issue's call does to it and to its stage.            *)
CallStep(i) ==
  /\ run' \in Runs /\ stage' \in [Issues -> Stages]
  /\ \A j \in Issues \ {i} : stage'[j] = stage[j] /\ run'[j] = run[j]

CallTypes == run \in Runs /\ stage \in [Issues -> Stages]

LEMMA GoesOn ==
  ASSUME CallTypes, NEW i \in Issues, NEW pc \in Steps, Goto(i, pc), UNCHANGED stage
  PROVE  /\ CallStep(i) /\ stage'[i] = stage[i]
         /\ run'[i].pc = pc /\ run'[i].base = run[i].base /\ run'[i].path = run[i].path
         /\ run'[i].result = run[i].result /\ run'[i].tries = run[i].tries
  BY GotoFacts DEF CallTypes, CallStep, Elsewhere

LEMMA GoesWith ==
  ASSUME CallTypes, NEW i \in Issues, NEW c \in Calls, run' = [run EXCEPT ![i] = c],
         UNCHANGED stage
  PROVE  CallStep(i) /\ run'[i] = c /\ stage'[i] = stage[i]
  BY DEF CallTypes, CallStep, Runs

LEMMA EndsIn ==
  ASSUME CallTypes, NEW i \in Issues, NEW s \in Stages, Ends(i), Enter(i, s)
  PROVE  CallStep(i) /\ run'[i] = Idle /\ run'[i].pc = "idle" /\ stage'[i] = s
  BY EndsFacts, EnterFacts DEF CallTypes, CallStep, Elsewhere

LEMMA FailsIn ==
  ASSUME CallTypes, NEW i \in Issues, Fails(i)
  PROVE  CallStep(i) /\ run'[i] = Idle /\ run'[i].pc = "idle" /\ stage'[i] = "FAILED"
  BY EndsIn DEF Fails, Stages

LEMMA StaleIn ==
  ASSUME CallTypes, NEW i \in Issues, BaseStale(i)
  PROVE  CallStep(i) /\ run'[i] = Idle /\ run'[i].pc = "idle" /\ stage'[i] = "REPAIRING"
  BY EndsIn DEF BaseStale, Stages

(* What the steps of a merge put on record.                                *)
LEMMA ListedStep ==
  ASSUME CallTypes, NEW i \in Issues, NEW p \in BOOLEAN,
         run' = [run EXCEPT ![i].pc = "advancing", ![i].path = p], UNCHANGED stage
  PROVE  /\ CallStep(i) /\ stage'[i] = stage[i]
         /\ run'[i].pc = "advancing" /\ run'[i].path = p /\ run'[i].base = run[i].base
  <1> DEFINE c == [run[i] EXCEPT !.pc = "advancing", !.path = p]
  <1>1. run[i] \in Calls /\ run' = [run EXCEPT ![i] = c]
    BY DEF CallTypes, Runs
  <1>2. c \in Calls /\ c.pc = "advancing" /\ c.path = p /\ c.base = run[i].base
    BY <1>1 DEF Calls, Steps
  <1> HIDE DEF c
  <1>3. QED
    BY <1>1, <1>2, GoesWith

LEMMA ReadStep ==
  ASSUME CallTypes, NEW i \in Issues, NEW pc \in Steps, NEW b \in Commits,
         run' = [run EXCEPT ![i].pc = pc, ![i].base = b], UNCHANGED stage
  PROVE  /\ CallStep(i) /\ stage'[i] = stage[i]
         /\ run'[i].pc = pc /\ run'[i].base = b
  BY ReadFacts DEF CallTypes, CallStep, Elsewhere

LEMMA MergeStep ==
  ASSUME CallTypes, NEW i \in Issues, NEW b \in Commits, NEW p \in BOOLEAN,
         run' = [run EXCEPT ![i].pc = "attempting", ![i].base = b, ![i].path = p, ![i].tries = 1],
         UNCHANGED stage
  PROVE  /\ CallStep(i) /\ stage'[i] = stage[i]
         /\ run'[i].pc = "attempting" /\ run'[i].base = b /\ run'[i].path = p
  <1> DEFINE c == [run[i] EXCEPT !.pc = "attempting", !.base = b, !.path = p, !.tries = 1]
  <1>1. run[i] \in Calls /\ run' = [run EXCEPT ![i] = c]
    BY DEF CallTypes, Runs
  <1>2. 1 \in 0 .. 3
    OBVIOUS
  <1>3. c \in Calls /\ c.pc = "attempting" /\ c.path = p /\ c.base = b
    BY <1>1, <1>2 DEF Calls, Steps
  <1> HIDE DEF c
  <1>4. QED
    BY <1>1, <1>3, GoesWith

LEMMA ResultStep ==
  ASSUME CallTypes, NEW i \in Issues, NEW r \in Commits,
         run' = [run EXCEPT ![i].pc = "updating", ![i].result = r], UNCHANGED stage
  PROVE  /\ CallStep(i) /\ stage'[i] = stage[i]
         /\ run'[i].pc = "updating" /\ run'[i].result = r
         /\ run'[i].base = run[i].base /\ run'[i].path = run[i].path
  <1> DEFINE c == [run[i] EXCEPT !.pc = "updating", !.result = r]
  <1>1. run[i] \in Calls /\ run' = [run EXCEPT ![i] = c]
    BY DEF CallTypes, Runs
  <1>2. /\ c \in Calls /\ c.pc = "updating" /\ c.result = r
        /\ c.base = run[i].base /\ c.path = run[i].path
    BY <1>1 DEF Calls, Steps
  <1> HIDE DEF c
  <1>3. QED
    BY <1>1, <1>2, GoesWith

LEMMA AgainStep ==
  ASSUME CallTypes, NEW i \in Issues, refs[Base] \in Commits, AttemptFails(i)
  PROVE  /\ CallStep(i)
         /\ \/ /\ run'[i].pc = "attempting" /\ stage'[i] = stage[i]
               /\ run'[i].base = refs[Base] /\ run'[i].path = run[i].path
            \/ run'[i].pc = "idle" /\ stage'[i] = "FAILED"
  <1>1. CASE Fails(i)
    BY <1>1, FailsIn
  <1>2. CASE ~Fails(i)
    <2> DEFINE n == run[i].tries + 1
    <2> DEFINE c == [run[i] EXCEPT !.pc = "attempting", !.base = refs[Base], !.tries = n]
    <2>1. run[i] \in Calls
      BY DEF CallTypes, Runs
    <2>2. run' = [run EXCEPT ![i] = c] /\ UNCHANGED stage /\ run[i].tries < MaxAttempts
      BY <1>2 DEF AttemptFails, CallTypes, Runs
    <2>3. n \in 0 .. 3
      BY <2>1, <2>2 DEF Calls, MaxAttempts
    <2> HIDE DEF n
    <2>4. /\ c \in Calls /\ c.pc = "attempting" /\ c.base = refs[Base]
          /\ c.path = run[i].path
      BY <2>1, <2>3 DEF Calls, Steps
    <2> HIDE DEF c
    <2>5. QED
      BY <2>2, <2>4, GoesWith
  <1>3. QED
    BY <1>1, <1>2

(* What the steps of a recovery store.                                     *)
SavedTypes == saved \in [Issues -> SavedStates]
SavedElsewhere(i) == \A j \in Issues \ {i} : saved'[j] = saved[j]

(* A validated conflict is bound to the delivery.                          *)
LEMMA BoundFacts ==
  ASSUME SavedTypes, NEW i \in Issues, BindRecoveryDelivery(i)
  PROVE  /\ SavedTypes' /\ SavedElsewhere(i)
         /\ saved'[i].info = saved[i].info /\ saved'[i].known = saved[i].known
         /\ saved'[i].recovery.kind = Session(i).kind
         /\ saved'[i].recovery.base = Session(i).base
         /\ saved'[i].recovery.sealed = Session(i).sealed /\ saved'[i].recovery.candidate = TRUE
  <1> DEFINE r == [Session(i) EXCEPT !.candidate = TRUE]
             v == [saved[i] EXCEPT !.recovery = r]
  <1>1. saved[i] \in SavedStates /\ Session(i) \in Recoveries /\ saved[i].recovery = Session(i)
    BY DEF SavedTypes, SavedStates, Session
  <1>2. /\ r \in Recoveries /\ r.kind = Session(i).kind /\ r.base = Session(i).base
        /\ r.sealed = Session(i).sealed /\ r.candidate = TRUE
    BY <1>1 DEF Recoveries
  <1>3. saved' = [saved EXCEPT ![i] = v]
    BY <1>1 DEF BindRecoveryDelivery, SavedTypes, Session
  <1> HIDE DEF r
  <1>4. /\ v \in SavedStates /\ v.recovery = r
        /\ v.info = saved[i].info /\ v.known = saved[i].known
    BY <1>1, <1>2 DEF SavedStates
  <1> HIDE DEF v
  <1>5. saved' \in [Issues -> SavedStates] /\ saved'[i] = v
    BY <1>3, <1>4 DEF SavedTypes
  <1>6. QED
    BY <1>2, <1>3, <1>4, <1>5 DEF SavedTypes, SavedElsewhere

(* What was committed of it is stored.                                     *)
LEMMA SealedFacts ==
  ASSUME SavedTypes, NEW i \in Issues, NEW c \in Commits,
         saved' = [saved EXCEPT ![i].recovery.sealed = c]
  PROVE  /\ SavedTypes' /\ SavedElsewhere(i)
         /\ saved'[i].info = saved[i].info /\ saved'[i].known = saved[i].known
         /\ saved'[i].recovery.kind = Session(i).kind
         /\ saved'[i].recovery.base = Session(i).base
         /\ saved'[i].recovery.sealed = c /\ saved'[i].recovery.candidate = Session(i).candidate
  <1> DEFINE r == [Session(i) EXCEPT !.sealed = c]
             v == [saved[i] EXCEPT !.recovery = r]
  <1>1. saved[i] \in SavedStates /\ Session(i) \in Recoveries /\ saved[i].recovery = Session(i)
    BY DEF SavedTypes, SavedStates, Session
  <1>2. /\ r \in Recoveries /\ r.kind = Session(i).kind /\ r.base = Session(i).base
        /\ r.sealed = c /\ r.candidate = Session(i).candidate
    BY <1>1 DEF Recoveries
  <1>3. saved' = [saved EXCEPT ![i] = v]
    BY <1>1 DEF SavedTypes, Session
  <1> HIDE DEF r
  <1>4. /\ v \in SavedStates /\ v.recovery = r
        /\ v.info = saved[i].info /\ v.known = saved[i].known
    BY <1>1, <1>2 DEF SavedStates
  <1> HIDE DEF v
  <1>5. saved' \in [Issues -> SavedStates] /\ saved'[i] = v
    BY <1>3, <1>4 DEF SavedTypes
  <1>6. QED
    BY <1>2, <1>3, <1>4, <1>5 DEF SavedTypes, SavedElsewhere

(* branchInfo is stored, and the recovery is not any more.                 *)
LEMMA PublishedFacts ==
  ASSUME SavedTypes, NEW i \in Issues, NEW c \in Commits,
         saved' = [saved EXCEPT ![i].info = c, ![i].recovery = NoRecovery]
  PROVE  /\ SavedTypes' /\ SavedElsewhere(i)
         /\ saved'[i].info = c /\ saved'[i].known = saved[i].known
         /\ saved'[i].recovery = NoRecovery
  <1> DEFINE v == [saved[i] EXCEPT !.info = c, !.recovery = NoRecovery]
  <1>1. saved[i] \in SavedStates /\ saved' = [saved EXCEPT ![i] = v]
    BY DEF SavedTypes
  <1>2. /\ v \in SavedStates /\ v.info = c /\ v.known = saved[i].known
        /\ v.recovery = NoRecovery
    BY <1>1, RestTypes DEF SavedStates
  <1> HIDE DEF v
  <1>3. QED
    BY <1>1, <1>2 DEF SavedTypes, SavedElsewhere

(* The workspace's steps keep the types.                                   *)
LEMMA WorkspaceTypes ==
  ASSUME TypeOK, NEW i \in Issues, WorkspaceNext(i)
  PROVE  TypeOK'
  <1> USE DEF At, Fails, repository, history, Head, Elsewhere
  <1>0. run \in Runs /\ draft \in [Issues -> Drafts] /\ stage \in [Issues -> Stages]
    BY DEF TypeOK, Runs, Calls, Drafts
  <1>1. ASSUME AddWorktree(i) PROVE TypeOK'
    <2>1. refs' \in [Branches -> Commits] /\ tree' \in [Issues -> Trees]
      BY CommitTypes, <1>1 DEF AddWorktree, TypeOK, Trees
    <2>2. run' \in Runs /\ stage' \in [Issues -> Stages] /\ run'[i].pc \notin Publishing
          /\ \A j \in Issues \ {i} : stage'[j] = stage[j] /\ run'[j] = run[j]
      BY <1>0, <1>1, GotoFacts, EndsFacts, EnterFacts, RestTypes
        DEF AddWorktree, Steps, Stages, Publishing
    <2>3. QED
      BY <1>0, <1>1, <2>1, <2>2, StepTypes DEF AddWorktree, TypeOK
  <1>2. ASSUME SaveAcquired(i) PROVE TypeOK'
    <2>1. saved' \in [Issues -> SavedStates]
      BY <1>2 DEF SaveAcquired, TypeOK, SavedStates
    <2>2. run' \in Runs /\ run'[i].pc \notin Publishing /\ \A j \in Issues \ {i} : run'[j] = run[j]
      BY <1>0, <1>2, GotoFacts, EndsFacts, EnterFacts, RestTypes DEF SaveAcquired, Steps, Publishing
    <2>3. QED
      BY <1>0, <1>2, <2>1, <2>2, StepTypes DEF SaveAcquired, TypeOK
  <1>3. ASSUME Reacquire(i) PROVE TypeOK'
    <2>1. tree' \in [Issues -> Trees]
      BY <1>3 DEF Reacquire, TypeOK, Restored, Trees
    <2>2. run' \in Runs /\ run'[i].pc \notin Publishing /\ \A j \in Issues \ {i} : run'[j] = run[j]
      BY <1>0, <1>3, GotoFacts, EndsFacts, EnterFacts, RestTypes DEF Reacquire, Steps, Publishing
    <2>3. QED
      BY <1>0, <1>3, <2>1, <2>2, StepTypes DEF Reacquire, TypeOK
  <1>4. ASSUME CompleteAcquire(i) PROVE TypeOK'
    <2>1. run' \in Runs /\ stage' \in [Issues -> Stages] /\ run'[i].pc \notin Publishing
          /\ \A j \in Issues \ {i} : stage'[j] = stage[j] /\ run'[j] = run[j]
      BY <1>0, <1>4, GotoFacts, EndsFacts, EnterFacts, RestTypes
        DEF CompleteAcquire, Stages, Publishing
    <2>2. QED
      BY <1>0, <1>4, <2>1, StepTypes DEF CompleteAcquire, TypeOK
  <1>5. ASSUME ObserveRepair(i) PROVE TypeOK'
    <2>1. run' \in Runs /\ stage' \in [Issues -> Stages] /\ run'[i].pc \notin Publishing
          /\ \A j \in Issues \ {i} : stage'[j] = stage[j] /\ run'[j] = run[j]
      <3>1. refs[Base] \in Commits
        BY CommitTypes
      <3>2. CASE tree[i] = "absent"
        BY <1>0, <1>5, <3>2, EndsFacts, EnterFacts DEF ObserveRepair, Stages, Publishing
      <3>3. CASE tree[i] # "absent"
        BY <1>0, <1>5, <3>1, <3>3, ReadFacts DEF ObserveRepair, Publishing, Steps
      <3>4. QED
        BY <3>2, <3>3
    <2>2. QED
      BY <1>0, <1>5, <2>1, StepTypes DEF ObserveRepair, TypeOK
  <1>6. ASSUME AgentDelivers(i) PROVE TypeOK'
    <2>0. made' \in [Authors -> Nat] /\ faults' \in Nat
      BY <1>6, CommitTypes DEF AgentDelivers, AgentWorked, TypeOK, MakeCommit, Fault
    <2>1. refs' \in [Branches -> Commits]
      <3>1. run[i].base \in Commits
        BY <1>0 DEF Runs, Calls
      <3>2. \A q \in {refs[i], refs[i] \cup run[i].base} : NewCommit(i, q) \in Commits
        <4>1. refs[i] \in Commits /\ refs[i] \cup run[i].base \in Commits /\ i \in Authors
          BY <3>1, CommitTypes
        <4>2. QED
          BY <4>1, CommitTypes
      <3>3. \/ refs' = refs
            \/ \E q \in {refs[i], refs[i] \cup run[i].base} :
                 refs' = [refs EXCEPT ![i] = NewCommit(i, q)]
        BY <1>6 DEF AgentDelivers, AgentWorked
      <3>4. QED
        BY <3>2, <3>3, CommitTypes DEF TypeOK
    <2>2. tree' \in [Issues -> Trees]
      BY <1>6 DEF AgentDelivers, TypeOK, Trees
    <2>3. draft' \in [Issues -> Drafts]
      BY CommitTypes, <1>0, <1>6, <2>1 DEF AgentDelivers, Drafts, Runs, Calls
    <2>4. run' \in Runs /\ stage' \in [Issues -> Stages] /\ run'[i].pc \notin Publishing
          /\ \A j \in Issues \ {i} : stage'[j] = stage[j] /\ run'[j] = run[j]
      <3>1. Enter(i, "REVIEW") \/ Enter(i, "FAILED")
        BY <1>6 DEF AgentDelivers
      <3>2. Ends(i)
        BY <1>6 DEF AgentDelivers
      <3>3. QED
        BY <1>0, <3>1, <3>2, EndsFacts, EnterFacts DEF Stages, Publishing
    <2>5. QED
      BY <1>0, <1>6, <2>0, <2>1, <2>2, <2>3, <2>4, StepTypes DEF AgentDelivers, TypeOK
  <1>7. ASSUME AgentAsks(i) PROVE TypeOK'
    <2>1. tree' \in [Issues -> Trees]
      BY <1>7 DEF AgentAsks, TypeOK, Trees
    <2>2. run' \in Runs /\ stage' \in [Issues -> Stages] /\ run'[i].pc \notin Publishing
          /\ \A j \in Issues \ {i} : stage'[j] = stage[j] /\ run'[j] = run[j]
      BY <1>0, <1>7, GotoFacts, EndsFacts, EnterFacts, RestTypes DEF AgentAsks, Stages, Publishing
    <2>3. QED
      BY <1>0, <1>7, <2>1, <2>2, StepTypes DEF AgentAsks, TypeOK
  <1>8. ASSUME Release(i) PROVE TypeOK'
    <2>1. tree' \in [Issues -> Trees]
      BY <1>8 DEF Release, TypeOK, Trees
    <2>2. run' \in Runs /\ stage' \in [Issues -> Stages]
          /\ \A j \in Issues \ {i} : stage'[j] = stage[j] /\ run'[j] = run[j]
      BY <1>0, <1>8, GotoFacts, EndsFacts, EnterFacts, RestTypes DEF Release, Stages, Steps
    <2>3. run'[i].pc \in Publishing => stage'[i] = "FINALIZING"
      <3>1. stage[i] = "FINALIZING"
        BY <1>8 DEF Release, TypeOK, Publishing, Steps
      <3>2. QED
        BY <1>0, <1>8, <3>1, EndsFacts DEF Release, Publishing
    <2>4. QED
      BY <1>0, <1>8, <2>1, <2>2, <2>3, StepTypes DEF Release, TypeOK
  <1>9. ASSUME CompleteRelease(i) PROVE TypeOK'
    <2>1. run' \in Runs /\ stage' \in [Issues -> Stages] /\ run'[i].pc \notin Publishing
          /\ \A j \in Issues \ {i} : stage'[j] = stage[j] /\ run'[j] = run[j]
      BY <1>0, <1>9, GotoFacts, EndsFacts, EnterFacts, RestTypes
        DEF CompleteRelease, Stages, Publishing
    <2>2. QED
      BY <1>0, <1>9, <2>1, StepTypes DEF CompleteRelease, TypeOK
  <1>10. QED
    BY <1>1, <1>2, <1>3, <1>4, <1>5, <1>6, <1>7, <1>8, <1>9 DEF WorkspaceNext

(* What the human does keeps the types.                                    *)
LEMMA HumanTypes ==
  ASSUME TypeOK, NEW i \in Issues, HumanNext(i)
  PROVE  TypeOK'
  <1>1. run[i].pc \notin Publishing /\ run' = run
    BY DEF HumanNext, Decide, Accept, Reject, RetryRepair, Rests, At, Publishing
  <1>2. Enter(i, "REPAIRING") \/ Enter(i, "FINALIZING")
    BY DEF HumanNext, Decide, Accept, Reject, RetryRepair
  <1>3. /\ stage' \in [Issues -> Stages]
        /\ \A j \in Issues \ {i} : stage'[j] = stage[j]
    BY <1>2, EnterFacts DEF TypeOK, Stages
  <1>4. accepted' \in [Issues -> Commits] /\ faults' \in Nat
    BY DEF HumanNext, Decide, Accept, Reject, RetryRepair, TypeOK, history
  <1>5. UNCHANGED <<refs, remote, checkout, local, made, tree, saved, draft, run, misled>>
    BY DEF HumanNext, Decide, Accept, Reject, RetryRepair, repository, history
  <1>6. QED
    BY <1>1, <1>3, <1>4, <1>5 DEF TypeOK

(* A commit of what is in the worktree.                                    *)
LEMMA CommitWorktreeTypes ==
  ASSUME TypeOK, NEW i \in Issues, NEW p \in Commits, CommitWorktree(i, p)
  PROVE  /\ refs' \in [Branches -> Commits] /\ made' \in [Authors -> Nat]
         /\ tree' \in [Issues -> Trees] /\ accepted' \in [Issues -> Commits]
  <1>1. NewCommit(i, p) \in Commits /\ i \in Authors
    BY CommitTypes
  <1>2. refs' \in [Branches -> Commits]
    BY <1>1, CommitTypes DEF CommitWorktree, TypeOK
  <1>3. refs'[i] \in Commits
    BY <1>2, CommitTypes
  <1>4. QED
    BY <1>1, <1>2, <1>3 DEF CommitWorktree, TypeOK, MakeCommit, Trees

(* The steps of an earlier version's publication keep the types.           *)
LEMMA LegacyTypes ==
  ASSUME TypeOK, NEW i \in Issues, LegacyNext(i)
  PROVE  TypeOK'
  <1> USE DEF At, repository, history, Head
  <1>0. run \in Runs /\ draft \in [Issues -> Drafts] /\ CallTypes
    BY DEF TypeOK, Runs, Calls, Drafts, CallTypes
  <1>1. ASSUME Recover(i) PROVE TypeOK'
    <2>0. SavedTypes
      BY DEF TypeOK, SavedTypes
    <2>1. saved' \in [Issues -> SavedStates] /\ tree' \in [Issues -> Trees]
      <3>1. saved' = saved \/ BindRecoveryDelivery(i)
        BY <1>1 DEF Recover, RecoverConflict, RecoverGenerated
      <3>2. tree' \in [Issues -> Trees]
        BY <1>1 DEF Recover, RecoverConflict, RecoverGenerated, TypeOK, Trees
      <3>3. QED
        BY <2>0, <3>1, <3>2, BoundFacts DEF SavedTypes
    <2>2. \E s \in {"REVIEW", "FINALIZING", "FAILED"} : Enter(i, s)
      BY <1>1 DEF Recover, RecoverConflict, RecoverGenerated
    <2>3. stage' \in [Issues -> Stages] /\ \A j \in Issues \ {i} : stage'[j] = stage[j]
      BY <2>2, EnterFacts DEF Stages, TypeOK
    <2>4. draft' \in [Issues -> Drafts]
      BY <1>0, <1>1, CommitTypes DEF Recover, Drafts
    <2>5. run' = run /\ run[i].pc \notin Publishing
      BY <1>1 DEF Recover, Publishing
    <2>6. QED
      BY <1>0, <1>1, <2>1, <2>3, <2>4, <2>5, StepTypes DEF Recover, TypeOK
  <1>2. ASSUME PublishLegacy(i) PROVE TypeOK'
    <2>1. CallStep(i) /\ (run'[i].pc \in Publishing => stage'[i] = "FINALIZING")
      <3>1. CASE Fails(i)
        BY <1>0, <3>1, FailsIn DEF Publishing
      <3>2. CASE UNCHANGED stage /\ \E pc \in {AfterCommit, "sealed"} : Goto(i, pc)
        BY <1>0, <1>2, <3>2, GoesOn DEF PublishLegacy, AfterCommit, Steps
      <3>3. QED
        BY <1>2, <3>1, <3>2 DEF PublishLegacy, Seal, CommitAll
    <2>2. /\ refs' \in [Branches -> Commits] /\ made' \in [Authors -> Nat]
          /\ tree' \in [Issues -> Trees] /\ accepted' \in [Issues -> Commits]
      <3>1. CASE UNCHANGED <<refs, made, tree, accepted>>
        BY <3>1 DEF TypeOK
      <3>2. Session(i).base \in Commits /\ refs[i] \in Commits
        BY CommitTypes DEF TypeOK, SavedStates, Recoveries, Session
      <3>3. refs[i] \cup Session(i).base \in Commits
        BY <3>2, CommitTypes
      <3>4. CASE \E p \in {refs[i] \cup Session(i).base, refs[i]} : CommitWorktree(i, p)
        BY <3>2, <3>3, <3>4, CommitWorktreeTypes
      <3>5. QED
        BY <1>2, <3>1, <3>4 DEF PublishLegacy, Seal, CommitAll
    <2>3. QED
      BY <1>0, <1>2, <2>1, <2>2, StepTypes DEF CallStep, PublishLegacy, TypeOK
  <1>3. ASSUME SaveSealed(i) PROVE TypeOK'
    <2>1. saved' \in [Issues -> SavedStates]
      BY <1>3, CommitTypes, SealedFacts DEF SaveSealed, TypeOK, SavedTypes
    <2>2. CallStep(i) /\ stage'[i] = "FINALIZING"
      BY <1>0, <1>3, GoesOn DEF SaveSealed, AfterCommit, Steps, TypeOK, Publishing
    <2>3. QED
      BY <1>0, <1>3, <2>1, <2>2, StepTypes DEF CallStep, SaveSealed, TypeOK
  <1>4. ASSUME MergeLegacy(i) PROVE TypeOK'
    <2>0. stage[i] = "FINALIZING" /\ (checkout = Base) \in BOOLEAN
      BY <1>4 DEF MergeLegacy, TypeOK, Publishing, Steps
    <2>1. CallStep(i) /\ (run'[i].pc \in Publishing => stage'[i] = "FINALIZING")
      <3>1. CASE Fails(i)
        BY <1>0, <3>1, FailsIn DEF Publishing
      <3>2. CASE ~Fails(i)
        <4> DEFINE p == checkout = Base
        <4>1. /\ run' = [run EXCEPT ![i].pc = "attempting", ![i].base = refs[Base],
                                    ![i].path = p, ![i].tries = 1]
              /\ UNCHANGED stage
          BY <1>4, <3>2 DEF MergeLegacy
        <4>2. p \in BOOLEAN /\ refs[Base] \in Commits
          BY CommitTypes
        <4> HIDE DEF p
        <4>3. QED
          BY <1>0, <2>0, <4>1, <4>2, MergeStep
      <3>3. QED
        BY <3>1, <3>2
    <2>2. QED
      BY <1>0, <1>4, <2>1, StepTypes DEF CallStep, MergeLegacy, TypeOK
  <1>5. ASSUME AttemptMerge(i) PROVE TypeOK'
    <2>0. stage[i] = "FINALIZING" /\ run[i].base \in Commits /\ refs[i] \in Commits
      BY <1>0, <1>5, CommitTypes DEF AttemptMerge, TypeOK, Publishing, Steps, Runs, Calls
    <2>1. NewCommit(i, refs[i] \cup run[i].base) \in Commits /\ i \in Authors
      <3>1. refs[i] \cup run[i].base \in Commits
        BY <2>0, CommitTypes
      <3>2. QED
        BY <3>1, CommitTypes
    <2>2. CallStep(i) /\ (run'[i].pc \in Publishing => stage'[i] = "FINALIZING")
      BY <1>0, <1>5, <2>0, <2>1, GoesOn, ResultStep, AgainStep, CommitTypes
      DEF AttemptMerge, Publishing, Steps
    <2>3. made' \in [Authors -> Nat]
      BY <1>5, <2>1 DEF AttemptMerge, MakeCommit, TypeOK
    <2>4. QED
      BY <1>0, <1>5, <2>2, <2>3, StepTypes DEF CallStep, AttemptMerge, TypeOK
  <1>6. ASSUME UpdateBase(i) PROVE TypeOK'
    <2>0. stage[i] = "FINALIZING" /\ run[i].result \in Commits
      BY <1>0, <1>6 DEF UpdateBase, TypeOK, Publishing, Steps, Runs, Calls
    <2>1. refs' \in [Branches -> Commits]
      BY <1>6, <2>0, CommitTypes DEF UpdateBase, Advanced, TypeOK
    <2>2. CallStep(i) /\ (run'[i].pc \in Publishing => stage'[i] = "FINALIZING")
      BY <1>0, <1>6, <2>0, GoesOn, AgainStep, CommitTypes DEF UpdateBase, Publishing, Steps
    <2>3. QED
      BY <1>0, <1>6, <2>1, <2>2, StepTypes DEF CallStep, UpdateBase, TypeOK
  <1>7. QED
    BY <1>1, <1>2, <1>3, <1>4, <1>5, <1>6 DEF LegacyNext

(* The publication's own steps keep the types.                             *)
LEMMA PublicationTypes ==
  ASSUME TypeOK, NEW i \in Issues,
         Publish(i) \/ ListCheckouts(i) \/ FastForward(i) \/ Push(i) \/ SavePublished(i)
  PROVE  TypeOK'
  <1> USE DEF At, repository, history, Head
  <1>0. run \in Runs /\ draft \in [Issues -> Drafts] /\ CallTypes
    BY DEF TypeOK, Runs, Calls, Drafts, CallTypes
  <1>1. ASSUME Publish(i) PROVE TypeOK'
    <2>0. stage[i] = "FINALIZING"
      BY <1>1 DEF Publish
    <2>1. \/ Fails(i) \/ BaseStale(i)
          \/ UNCHANGED stage /\ \E pc \in {"releasing", AfterMerge} : Goto(i, pc)
          \/ UNCHANGED stage /\ run' = [run EXCEPT ![i].pc = "listing", ![i].base = refs[Base]]
      BY <1>1 DEF Publish, PublishedAlready, Judged
    <2>2. CallStep(i) /\ (run'[i].pc \in Publishing => stage'[i] = "FINALIZING")
      <3>1. CASE Fails(i) \/ BaseStale(i)
        BY <1>0, <3>1, FailsIn, StaleIn DEF Publishing
      <3>2. CASE UNCHANGED stage /\ \E pc \in {"releasing", AfterMerge} : Goto(i, pc)
        BY <1>0, <2>0, <3>2, GoesOn DEF AfterMerge, Steps
      <3>3. CASE UNCHANGED stage
                 /\ run' = [run EXCEPT ![i].pc = "listing", ![i].base = refs[Base]]
        BY <1>0, <2>0, <3>3, ReadStep, CommitTypes DEF Steps
      <3>4. QED
        BY <2>1, <3>1, <3>2, <3>3
    <2>3. QED
      BY <1>0, <1>1, <2>2, StepTypes DEF CallStep, Publish, TypeOK
  <1>2. ASSUME ListCheckouts(i) PROVE TypeOK'
    <2>0. stage[i] = "FINALIZING"
      BY <1>2 DEF ListCheckouts, TypeOK, Publishing, Steps
    <2>1. CallStep(i) /\ (run'[i].pc \in Publishing => stage'[i] = "FINALIZING")
      <3>1. CASE Fails(i)
        BY <1>0, <3>1, FailsIn DEF Publishing
      <3>2. CASE ~Fails(i)
        <4>1. UNCHANGED stage
              /\ \E p \in BOOLEAN : run' = [run EXCEPT ![i].pc = "advancing", ![i].path = p]
          BY <1>2, <3>2 DEF ListCheckouts
        <4>2. QED
          BY <1>0, <2>0, <4>1, ListedStep
      <3>3. QED
        BY <3>1, <3>2
    <2>2. QED
      BY <1>0, <1>2, <2>1, StepTypes DEF CallStep, ListCheckouts, TypeOK
  <1>3. ASSUME FastForward(i) PROVE TypeOK'
    <2>0. stage[i] = "FINALIZING"
      BY <1>3 DEF FastForward, TypeOK, Publishing, Steps
    <2>1. refs' \in [Branches -> Commits]
      BY <1>3, CommitTypes DEF FastForward, Advanced, TypeOK
    <2>2. CallStep(i) /\ (run'[i].pc \in Publishing => stage'[i] = "FINALIZING")
      <3>1. Fails(i) \/ BaseStale(i) \/ (UNCHANGED stage /\ Goto(i, AfterMerge))
        BY <1>3 DEF FastForward
      <3>2. AfterMerge \in Steps
        BY DEF AfterMerge, Steps
      <3>3. QED
        BY <1>0, <2>0, <3>1, <3>2, GoesOn, FailsIn, StaleIn DEF Publishing
    <2>3. QED
      BY <1>0, <1>3, <2>1, <2>2, StepTypes DEF CallStep, FastForward, TypeOK
  <1>4. ASSUME Push(i) PROVE TypeOK'
    <2>0. stage[i] = "FINALIZING"
      BY <1>4 DEF Push, TypeOK, Publishing, Steps
    <2>1. remote' \in [Issues -> Commits] /\ faults' \in Nat
      <3>1. refs[i] \in Commits
        BY CommitTypes
      <3>2. QED
        BY <1>4, <3>1 DEF Push, TypeOK, Fault
    <2>2. CallStep(i) /\ (run'[i].pc \in Publishing => stage'[i] = "FINALIZING")
      <3>1. Fails(i) \/ (UNCHANGED stage /\ \E pc \in {"merging", "saving"} : Goto(i, pc))
        BY <1>4 DEF Push, PushFails
      <3>2. QED
        BY <1>0, <2>0, <3>1, GoesOn, FailsIn DEF Publishing, Steps
    <2>3. QED
      BY <1>0, <1>4, <2>1, <2>2, StepTypes DEF CallStep, Push, TypeOK
  <1>5. ASSUME SavePublished(i) PROVE TypeOK'
    <2>0. stage[i] = "FINALIZING"
      BY <1>5 DEF SavePublished, TypeOK, Publishing, Steps
    <2>1. saved' \in [Issues -> SavedStates]
      BY <1>5, PublishedFacts, CommitTypes DEF SavePublished, TypeOK, SavedTypes
    <2>2. CallStep(i) /\ (run'[i].pc \in Publishing => stage'[i] = "FINALIZING")
      BY <1>0, <1>5, <2>0, GoesOn DEF SavePublished, Steps
    <2>3. QED
      BY <1>0, <1>5, <2>1, <2>2, StepTypes DEF CallStep, SavePublished, TypeOK
  <1>6. QED
    BY <1>1, <1>2, <1>3, <1>4, <1>5

(* So do its developer and its faults.                                     *)
LEMMA EnvironmentTypes ==
  ASSUME TypeOK, EnvironmentNext
  PROVE  TypeOK'
  <1> USE DEF repository, history, Fault
  <1>1. ASSUME DeveloperCommits PROVE TypeOK'
    <2>1. refs' \in [Branches -> Commits] /\ made' \in [Authors -> Nat]
      BY <1>1, CommitTypes DEF DeveloperCommits, MakeCommit, TypeOK
    <2>2. QED
      BY <1>1, <2>1 DEF DeveloperCommits, TypeOK
  <1>2. ASSUME DeveloperSwitches PROVE TypeOK'
    BY <1>2 DEF DeveloperSwitches, TypeOK
  <1>3. ASSUME DeveloperEdits PROVE TypeOK'
    BY <1>3 DEF DeveloperEdits, TypeOK
  <1>4. ASSUME Crash PROVE TypeOK'
    <2>1. run' \in Runs /\ \A i \in Issues : run'[i].pc \notin Publishing
      BY <1>4, RestTypes DEF Crash, Runs, Publishing
    <2>2. stage' \in [Issues -> Stages]
      BY <1>4 DEF Crash, TypeOK, Stages
    <2>3. QED
      BY <1>4, <2>1, <2>2 DEF Crash, TypeOK, Runs, Calls
  <1>5. ASSUME NEW i \in Issues, WorktreeTouched(i) PROVE TypeOK'
    <2>1. tree' \in [Issues -> Trees]
      BY <1>5 DEF WorktreeTouched, TypeOK, Trees
    <2>2. QED
      BY <1>5, <2>1 DEF WorktreeTouched, TypeOK
  <1>6. QED
    BY <1>1, <1>2, <1>3, <1>4, <1>5 DEF EnvironmentNext

(* The Issues, recovered or not, with which the program starts.            *)
LEMMA InitTypes == Init => TypeOK
  <1> SUFFICES ASSUME Init PROVE TypeOK
    OBVIOUS
  <1>1. InitialRefs \in [Branches -> Commits]
    BY RepositoryAssumption DEF InitialRefs, Branches, Commits, Authors, Root, None
  <1>2. \A i \in Issues : InitialRefs[i] \in Commits
    BY <1>1 DEF Branches
  <1>3. ASSUME NEW i \in Issues, NEW k \in {"conflict", "cleanup"}
        PROVE  Recovery(i, k, InitialRefs) \in Recoveries
    <2>1. Root \in Commits
      BY DEF Root, Commits, Authors
    <2>2. InitialRefs[i] \in Commits
      BY <1>2
    <2>3. /\ NoRecovery \in Recoveries
          /\ Recovery(i, k, InitialRefs)
               = [NoRecovery EXCEPT !.kind = k, !.base = Root, !.issue = InitialRefs[i],
                                    !.refs = InitialRefs]
      BY RestTypes DEF Recovery
    <2>4. QED
      BY <1>1, <2>1, <2>2, <2>3 DEF Recoveries
  <1>4. saved \in [Issues -> SavedStates]
    <2>1. PICK kind \in [LegacyIssues -> {"conflict", "cleanup"}] :
            saved = [i \in Issues |->
              [known |-> i \in LegacyIssues, info |-> None,
               recovery |-> IF i \in LegacyIssues THEN Recovery(i, kind[i], InitialRefs)
                            ELSE NoRecovery]]
      BY DEF Init
    <2>2. ASSUME NEW i \in Issues
          PROVE  (IF i \in LegacyIssues THEN Recovery(i, kind[i], InitialRefs)
                  ELSE NoRecovery) \in Recoveries
      BY <1>3, RestTypes
    <2>3. None \in Commits
      BY DEF None, Commits
    <2>4. QED
      BY <2>1, <2>2, <2>3 DEF SavedStates
  <1>5. tree \in [Issues -> Trees]
    BY DEF Init, Trees
  <1>6. run \in Runs /\ \A i \in Issues : run[i].pc \notin Publishing
    BY RestTypes DEF Init, Runs, Publishing
  <1>7. /\ remote \in [Issues -> Commits] /\ accepted \in [Issues -> Commits]
        /\ draft \in [Issues -> Drafts]
    BY <1>2, RestTypes DEF Init, None, Commits
  <1>8. stage \in [Issues -> Stages] /\ made \in [Authors -> Nat]
    BY DEF Init, Stages
  <1>9. checkout \in {Base, Other} /\ local \subseteq Issues /\ faults \in Nat
        /\ misled \subseteq Issues
    BY DEF Init
  <1>10. refs \in [Branches -> Commits]
    BY <1>1 DEF Init
  <1>11. QED
    BY <1>4, <1>5, <1>6, <1>7, <1>8, <1>9, <1>10 DEF TypeOK, Runs, Calls, Drafts

(* Every variable keeps its type, and a publication in progress is one of  *)
(* an Issue whose row says FINALIZING.                                     *)
THEOREM TypeCorrect == Spec => []TypeOK
  <1>1. ASSUME TypeOK, [Next]_vars PROVE TypeOK'
    <2>1. CASE UNCHANGED vars
      BY <1>1, <2>1 DEF TypeOK, vars
    <2>2. CASE Next
      BY <1>1, <2>2, EnvironmentTypes, WorkspaceTypes, HumanTypes, LegacyTypes, PublicationTypes
      DEF Next, ProviderNext
    <2>3. QED
      BY <1>1, <2>1, <2>2
  <1>2. QED
    BY <1>1, InitTypes, PTL DEF Spec

-----------------------------------------------------------------------------
(* What a step leaves of an Issue it is not about: its own row, and of the *)
(* base branch and the history whatever it has relied on.                  *)
RowSame(j) ==
  /\ refs'[j] = refs[j] /\ remote'[j] = remote[j] /\ tree'[j] = tree[j]
  /\ saved'[j] = saved[j] /\ stage'[j] = stage[j] /\ draft'[j] = draft[j]
  /\ run'[j] = run[j] /\ accepted'[j] = accepted[j]

BaseGains(j) ==
  Contains(refs'[Base], refs[Base]) /\ \A c \in refs'[Base] : c \in refs[Base] \/ c[1] # j

Led(j) == misled \subseteq misled' /\ (checkout' = checkout \/ (Located(j) => j \in misled'))

(* Then what is invariant about it is kept.                                *)
LEMMA OtherKept ==
  ASSUME NEW j \in Issues, RowInv(j), RowSame(j), BaseGains(j), Led(j)
  PROVE  RowInv(j)'
  <1> USE DEF RowSame, BaseGains, Led, Contains, Head, Session, Legacy
  <1>1. Phase(j)' /\ Markers(j)'
    BY DEF RowInv, Phase, Markers
  <1>2. Branch(j)'
    BY DEF RowInv, Branch
  <1>3. BaseRead(j)'
    BY DEF RowInv, BaseRead, Located, Reading, Following
  <1>4. Done(j)'
    BY DEF RowInv, Done, InBase, Pushed
  <1>5. QED
    BY <1>1, <1>2, <1>3, <1>4 DEF RowInv

(* A call that ends in a stage the Runtime leaves by itself, or the human: *)
(* nothing of what the publication has done is relied on any longer.       *)
Quiet == {"FAILED", "REPAIRING", "DECISION"}

LEMMA QuietKept ==
  ASSUME NEW i \in Issues, RowInv(i),
         run'[i].pc = "idle", stage'[i] \in Quiet,
         saved'[i] = saved[i], remote'[i] = remote[i], misled' = misled,
         refs'[i] # None, \A c \in refs'[i] : c[1] = i \/ c \in refs[Base],
         refs'[Base] = refs[Base]
  PROVE  RowInv(i)'
  <1> USE DEF Contains, Head, Session, Legacy
  <1>1. Phase(i)' /\ Markers(i)'
    BY DEF RowInv, Phase, Markers, Quiet, Released, Following, Merging, Publishing
  <1>2. Branch(i)'
    BY DEF RowInv, Branch, Quiet, Following
  <1>3. BaseRead(i)'
    BY DEF RowInv, BaseRead, Located, Reading, Following
  <1>4. Done(i)'
    BY DEF RowInv, Done, Merging
  <1>5. QED
    BY <1>1, <1>2, <1>3, <1>4 DEF RowInv

(* Most steps of an Issue leave the base branch as it is.                  *)
OnlyOwn(i) ==
  /\ \A j \in Issues \ {i} : RowSame(j)
  /\ refs'[Base] = refs[Base] /\ misled' = misled /\ checkout' = checkout

LEMMA CallOnly ==
  ASSUME TypeOK, NEW i \in Issues, CallStep(i),
         refs' = refs \/ (\E r : refs' = [refs EXCEPT ![i] = r]),
         remote' = remote \/ (\E r : remote' = [remote EXCEPT ![i] = r]),
         tree' = tree \/ (\E r : tree' = [tree EXCEPT ![i] = r]),
         saved' = saved \/ SavedElsewhere(i),
         draft' = draft \/ (\E r : draft' = [draft EXCEPT ![i] = r]),
         accepted' = accepted \/ (\E r : accepted' = [accepted EXCEPT ![i] = r]),
         UNCHANGED <<misled, checkout>>
  PROVE  OnlyOwn(i)
  <1>1. refs'[Base] = refs[Base] /\ \A j \in Issues \ {i} : refs'[j] = refs[j]
    BY RepositoryAssumption DEF TypeOK, Branches
  <1>2. \A j \in Issues \ {i} : /\ remote'[j] = remote[j] /\ tree'[j] = tree[j]
                                /\ draft'[j] = draft[j] /\ accepted'[j] = accepted[j]
    BY DEF TypeOK
  <1>3. \A j \in Issues \ {i} : saved'[j] = saved[j]
    BY DEF SavedElsewhere
  <1>4. QED
    BY <1>1, <1>2, <1>3 DEF OnlyOwn, RowSame, CallStep

LEMMA OwnKept ==
  ASSUME GitInv, NEW i \in Issues, OnlyOwn(i), RowInv(i)', TypeOK'
  PROVE  GitInv'
  <1>1. ASSUME NEW j \in Issues \ {i} PROVE RowInv(j)'
    BY <1>1, OtherKept DEF GitInv, OnlyOwn, BaseGains, Led, Contains
  <1>2. Rooted'
    BY DEF GitInv, OnlyOwn, Rooted
  <1>3. QED
    BY <1>1, <1>2 DEF GitInv

(* The workspace before the publication.                                   *)
LEMMA AddWorktreeKeeps ==
  ASSUME GitInv, NEW i \in Issues, AddWorktree(i), TypeOK'
  PROVE  GitInv'
  <1> USE DEF At, Head, repository, history
  <1>0. TypeOK /\ CallTypes /\ RowInv(i) /\ refs[Base] # None /\ refs[i] \in Commits
    BY CommitTypes DEF GitInv, TypeOK, CallTypes, Runs, Calls, Rooted, None
  <1>1. /\ CallStep(i)
        /\ \/ run'[i].pc = "added" /\ stage'[i] = "PREPARING" /\ tree'[i] = "clean"
              /\ refs'[i] \in {refs[i], refs[Base]} /\ refs'[i] # None
           \/ run'[i] = run[i] /\ stage'[i] = "UNPREPARED" /\ tree'[i] = tree[i]
              /\ refs'[i] = refs[i]
    <2>1. CASE tree[i] = "absent"
      BY <1>0, <2>1, GoesOn, RepositoryAssumption DEF AddWorktree, Steps, TypeOK, Branches
    <2>2. CASE tree[i] # "absent"
      BY <1>0, <2>2, EnterFacts DEF AddWorktree, CallStep, CallTypes, Stages
    <2>3. QED
      BY <2>1, <2>2
  <1>2. OnlyOwn(i)
    BY <1>0, <1>1, CallOnly DEF AddWorktree
  <1>3. /\ remote'[i] = remote[i] /\ saved'[i] = saved[i] /\ draft'[i] = draft[i]
        /\ accepted'[i] = accepted[i] /\ misled' = misled /\ checkout' = checkout
        /\ stage[i] = "PREPARING" /\ run[i].pc = "idle" /\ ~saved[i].known
        /\ refs'[Base] = refs[Base]
    BY <1>2 DEF AddWorktree, OnlyOwn
  <1>4. RowInv(i)'
    <2> USE DEF Contains, Session, Legacy
    <2>1. Phase(i)' /\ Markers(i)'
      BY <1>0, <1>1, <1>3
        DEF RowInv, Phase, Markers, Released, Following, Merging, Publishing, Steps
    <2>2. Branch(i)'
      BY <1>0, <1>1, <1>3 DEF RowInv, Branch, Following
    <2>3. BaseRead(i)'
      BY <1>0, <1>1, <1>3 DEF RowInv, BaseRead, Located, Reading, Following
    <2>4. Done(i)'
      BY <1>0, <1>1, <1>3 DEF RowInv, Done, Merging
    <2>5. QED
      BY <2>1, <2>2, <2>3, <2>4 DEF RowInv
  <1>5. QED
    BY <1>2, <1>4, OwnKept

LEMMA SaveAcquiredKeeps ==
  ASSUME GitInv, NEW i \in Issues, SaveAcquired(i), TypeOK'
  PROVE  GitInv'
  <1> USE DEF At, Head, repository, history
  <1>0. TypeOK /\ CallTypes /\ SavedTypes /\ RowInv(i) /\ run[i] \in Calls
    BY DEF GitInv, TypeOK, CallTypes, Runs, Calls, SavedTypes
  <1>1. /\ CallStep(i) /\ stage'[i] = stage[i]
        /\ run[i].pc = "added" /\ run'[i].pc = "acquired"
    BY <1>0, GoesOn DEF SaveAcquired, Steps
  <1>2. /\ SavedElsewhere(i) /\ saved'[i].known
        /\ saved'[i].info = saved[i].info /\ saved'[i].recovery = saved[i].recovery
    BY <1>0 DEF SaveAcquired, SavedTypes, SavedStates, SavedElsewhere
  <1>3. OnlyOwn(i)
    BY <1>0, <1>1, <1>2, CallOnly DEF SaveAcquired
  <1>4. UNCHANGED <<refs, remote, tree, draft, accepted, misled, checkout>>
    BY DEF SaveAcquired
  <1>5. RowInv(i)'
    <2> USE DEF Contains, Head, Session, Legacy
    <2>1. Phase(i)' /\ Markers(i)'
      BY <1>0, <1>1, <1>2, <1>4
      DEF RowInv, Phase, Markers, Released, Following, Merging, Publishing, Steps
    <2>2. Branch(i)'
      BY <1>0, <1>1, <1>2, <1>4 DEF RowInv, Branch, Following
    <2>3. BaseRead(i)'
      BY <1>0, <1>1, <1>2, <1>4
      DEF RowInv, BaseRead, Located, Reading, Following
    <2>4. Done(i)'
      BY <1>0, <1>1, <1>2, <1>4 DEF RowInv, Done, Merging
    <2>5. QED
      BY <2>1, <2>2, <2>3, <2>4 DEF RowInv
  <1>6. QED
    BY <1>3, <1>5, OwnKept

LEMMA ReacquireKeeps ==
  ASSUME GitInv, NEW i \in Issues, Reacquire(i), TypeOK'
  PROVE  GitInv'
  <1> USE DEF At, Head, repository, history
  <1>0. TypeOK /\ CallTypes /\ SavedTypes /\ RowInv(i) /\ run[i] \in Calls
    BY DEF GitInv, TypeOK, CallTypes, Runs, Calls, SavedTypes
  <1>1. /\ CallStep(i) /\ stage[i] = "PREPARING" /\ stage'[i] = "PREPARING"
        /\ run[i].pc = "idle" /\ run'[i].pc = "acquired" /\ saved[i].known
    BY <1>0, GoesOn DEF Reacquire, Steps
  <1>3. OnlyOwn(i)
    BY <1>0, <1>1, CallOnly DEF Reacquire
  <1>4. UNCHANGED <<refs, remote, saved, draft, accepted, misled, checkout>>
    BY DEF Reacquire
  <1>5. RowInv(i)'
    <2> USE DEF Contains, Head, Session, Legacy
    <2>1. Phase(i)' /\ Markers(i)'
      BY <1>0, <1>1, <1>4
      DEF RowInv, Phase, Markers, Released, Following, Merging, Publishing, Steps
    <2>2. Branch(i)'
      BY <1>0, <1>1, <1>4 DEF RowInv, Branch, Following
    <2>3. BaseRead(i)'
      BY <1>0, <1>1, <1>4
      DEF RowInv, BaseRead, Located, Reading, Following
    <2>4. Done(i)'
      BY <1>0, <1>1, <1>4 DEF RowInv, Done, Merging
    <2>5. QED
      BY <2>1, <2>2, <2>3, <2>4 DEF RowInv
  <1>6. QED
    BY <1>3, <1>5, OwnKept

LEMMA CompleteAcquireKeeps ==
  ASSUME GitInv, NEW i \in Issues, CompleteAcquire(i), TypeOK'
  PROVE  GitInv'
  <1> USE DEF At, Head, repository, history
  <1>0. TypeOK /\ CallTypes /\ SavedTypes /\ RowInv(i) /\ run[i] \in Calls
    BY DEF GitInv, TypeOK, CallTypes, Runs, Calls, SavedTypes
  <1>1. CallStep(i) /\ stage'[i] = "REPAIRING" /\ run'[i].pc = "idle"
    BY <1>0, EndsIn DEF CompleteAcquire, Stages
  <1>2. OnlyOwn(i)
    BY <1>0, <1>1, CallOnly DEF CompleteAcquire
  <1>3. refs[i] # None /\ \A c \in refs[i] : c[1] = i \/ c \in refs[Base]
    BY <1>0 DEF CompleteAcquire, RowInv, Branch
  <1>4. RowInv(i)'
    BY <1>0, <1>1, <1>3, QuietKept DEF CompleteAcquire, Quiet
  <1>5. QED
    BY <1>2, <1>4, OwnKept

LEMMA ObserveRepairKeeps ==
  ASSUME GitInv, NEW i \in Issues, ObserveRepair(i), TypeOK'
  PROVE  GitInv'
  <1> USE DEF At, Head, repository, history
  <1>0. TypeOK /\ CallTypes /\ SavedTypes /\ RowInv(i) /\ run[i] \in Calls
    BY DEF GitInv, TypeOK, CallTypes, Runs, Calls, SavedTypes
  <1>1. refs[Base] \in Commits /\ stage[i] = "REPAIRING"
    BY <1>0, CommitTypes DEF ObserveRepair
  <1>2. UNCHANGED <<refs, remote, tree, saved, draft, accepted, misled, checkout>>
    BY DEF ObserveRepair
  <1>3. refs[i] # None /\ \A c \in refs[i] : c[1] = i \/ c \in refs[Base]
    BY <1>0, <1>1 DEF RowInv, Branch
  <1>4. CASE Fails(i)
    <2>1. CallStep(i) /\ run'[i].pc = "idle" /\ stage'[i] = "FAILED"
      BY <1>0, <1>4, FailsIn
    <2>2. RowInv(i)'
      BY <1>0, <1>2, <1>3, <2>1, QuietKept DEF Quiet
    <2>3. QED
      BY <1>0, <1>2, <2>1, <2>2, CallOnly, OwnKept
  <1>5. CASE ~Fails(i)
    <2>1. run' = [run EXCEPT ![i].pc = "repairing", ![i].base = refs[Base]] /\ UNCHANGED stage
      BY <1>5 DEF ObserveRepair
    <2>2. /\ CallStep(i) /\ stage'[i] = "REPAIRING"
          /\ run'[i].pc = "repairing" /\ run'[i].base = refs[Base]
      BY <1>0, <1>1, <2>1, ReadStep DEF Steps
    <2>3. RowInv(i)'
      <3> USE DEF Contains, Head, Session, Legacy
      <3>1. Phase(i)' /\ Markers(i)'
        BY <1>0, <1>1, <1>2, <2>2
        DEF RowInv, Phase, Markers, Released, Following, Merging, Publishing, Steps
      <3>2. Branch(i)'
        BY <1>0, <1>1, <1>2, <2>2 DEF RowInv, Branch, Following
      <3>3. BaseRead(i)'
        BY <1>0, <1>1, <1>2, <2>2
        DEF RowInv, BaseRead, Located, Reading, Following
      <3>4. Done(i)'
        BY <1>0, <1>1, <1>2, <2>2 DEF RowInv, Done, Merging
      <3>5. QED
        BY <3>1, <3>2, <3>3, <3>4 DEF RowInv
    <2>4. QED
      BY <1>0, <1>2, <2>2, <2>3, CallOnly, OwnKept
  <1>6. QED
    BY <1>4, <1>5

LEMMA AgentDeliversKeeps ==
  ASSUME GitInv, NEW i \in Issues, AgentDelivers(i), TypeOK'
  PROVE  GitInv'
  <1> USE DEF At, Head, repository, history
  <1>0. TypeOK /\ CallTypes /\ SavedTypes /\ RowInv(i) /\ run[i] \in Calls
    BY DEF GitInv, TypeOK, CallTypes, Runs, Calls, SavedTypes
  <1>1. CallStep(i) /\ run'[i].pc = "idle" /\ stage'[i] \in {"REVIEW", "FAILED"}
    <2>1. Ends(i) /\ (Enter(i, "REVIEW") \/ Enter(i, "FAILED"))
      BY DEF AgentDelivers
    <2>2. QED
      BY <1>0, <2>1, EndsIn DEF Stages
  <1>2. /\ \/ refs' = refs
           \/ \E q \in {refs[i], refs[i] \cup run[i].base} :
                refs' = [refs EXCEPT ![i] = NewCommit(i, q)]
        /\ \E t \in {"clean", "dirty"} : tree' = [tree EXCEPT ![i] = t]
        /\ draft' = draft \/ \E d : draft' = [draft EXCEPT ![i] = d]
        /\ UNCHANGED <<remote, saved, accepted, misled, checkout>>
        /\ run[i].pc = "repairing"
    BY DEF AgentDelivers, AgentWorked
  <1>3. OnlyOwn(i)
    BY <1>0, <1>1, <1>2, CallOnly
  <1>4. Contains(refs[Base], run[i].base) /\ stage[i] = "REPAIRING" /\ refs[i] # None
        /\ \A c \in refs[i] : c[1] = i \/ c \in refs[Base]
    BY <1>0, <1>2 DEF RowInv, BaseRead, Reading, Phase, Branch
  <1>5. refs'[i] # None /\ \A c \in refs'[i] : c[1] = i \/ c \in refs[Base]
    <2>1. CASE refs' = refs
      BY <1>4, <2>1
    <2>2. CASE \E q \in {refs[i], refs[i] \cup run[i].base} :
                 refs' = [refs EXCEPT ![i] = NewCommit(i, q)]
      BY <1>0, <1>4, <2>2 DEF NewCommit, None, Contains, TypeOK, Branches
    <2>3. QED
      BY <1>2, <2>1, <2>2
  <1>6. refs'[Base] = refs[Base]
    BY <1>3 DEF OnlyOwn
  <1>7. RowInv(i)'
    <2>1. CASE stage'[i] = "FAILED"
      BY <1>0, <1>1, <1>2, <1>5, <1>6, <2>1, QuietKept DEF Quiet
    <2>2. CASE stage'[i] = "REVIEW"
      <3>0. draft'[i].commit = refs'[i] /\ tree'[i] = "clean"
        <4>1. RepairValid(i)
          BY <1>0, <2>2, EnterFacts DEF AgentDelivers, CallTypes, Stages
        <4>2. QED
          BY <1>0, <4>1 DEF AgentDelivers, RepairValid, WorktreeClean, TypeOK
      <3> USE DEF Contains, Head, Session, Legacy
      <3>1. Phase(i)' /\ Markers(i)'
        BY <1>0, <1>1, <1>2, <1>5, <1>6, <2>2, <3>0
        DEF RowInv, Phase, Markers, Released, Following, Merging, Publishing, Steps, Unsettled
      <3>2. Branch(i)'
        BY <1>0, <1>1, <1>2, <1>5, <1>6, <2>2, <3>0 DEF RowInv, Branch, Following
      <3>3. BaseRead(i)'
        BY <1>0, <1>1, <1>2, <1>5, <1>6, <2>2, <3>0
        DEF RowInv, BaseRead, Located, Reading, Following
      <3>4. Done(i)'
        BY <1>0, <1>1, <1>2, <1>5, <1>6, <2>2, <3>0 DEF RowInv, Done, Merging
      <3>5. QED
        BY <3>1, <3>2, <3>3, <3>4 DEF RowInv
    <2>3. QED
      BY <1>1, <2>1, <2>2
  <1>8. QED
    BY <1>3, <1>7, OwnKept

LEMMA AgentAsksKeeps ==
  ASSUME GitInv, NEW i \in Issues, AgentAsks(i), TypeOK'
  PROVE  GitInv'
  <1> USE DEF At, Head, repository, history
  <1>0. TypeOK /\ CallTypes /\ SavedTypes /\ RowInv(i) /\ run[i] \in Calls
    BY DEF GitInv, TypeOK, CallTypes, Runs, Calls, SavedTypes
  <1>1. CallStep(i) /\ run'[i].pc = "idle" /\ stage'[i] = "DECISION"
    BY <1>0, EndsIn DEF AgentAsks, Stages
  <1>2. OnlyOwn(i)
    BY <1>0, <1>1, CallOnly DEF AgentAsks
  <1>3. refs[i] # None /\ \A c \in refs[i] : c[1] = i \/ c \in refs[Base]
    BY <1>0 DEF AgentAsks, RowInv, Branch
  <1>4. RowInv(i)'
    BY <1>0, <1>1, <1>3, QuietKept DEF AgentAsks, Quiet
  <1>5. QED
    BY <1>2, <1>4, OwnKept

LEMMA ReleaseKeeps ==
  ASSUME GitInv, NEW i \in Issues, Release(i), TypeOK'
  PROVE  GitInv'
  <1> USE DEF At, Head, repository, history
  <1>0. TypeOK /\ CallTypes /\ SavedTypes /\ RowInv(i) /\ run[i] \in Calls
    BY DEF GitInv, TypeOK, CallTypes, Runs, Calls, SavedTypes
  <1>1. UNCHANGED <<refs, remote, saved, draft, accepted, misled, checkout>>
        /\ (tree' = tree \/ \E t : tree' = [tree EXCEPT ![i] = t])
    BY DEF Release
  <1>2. run[i].pc = "releasing" /\ stage[i] = "FINALIZING"
    BY <1>0 DEF Release, TypeOK, Publishing, Steps
  <1>3. refs[i] # None /\ \A c \in refs[i] : c[1] = i \/ c \in refs[Base]
    BY <1>0, <1>2 DEF RowInv, Branch
  <1>4. CASE Fails(i)
    <2>1. CallStep(i) /\ run'[i].pc = "idle" /\ stage'[i] = "FAILED"
      BY <1>0, <1>4, FailsIn
    <2>2. RowInv(i)'
      BY <1>0, <1>1, <1>3, <2>1, QuietKept DEF Quiet
    <2>3. QED
      BY <1>0, <1>1, <2>1, <2>2, CallOnly, OwnKept
  <1>5. CASE ~Fails(i)
    <2>1. /\ CallStep(i) /\ stage'[i] = "FINALIZING" /\ run'[i].pc = "released"
          /\ tree'[i] = "absent"
      BY <1>0, <1>2, <1>5, GoesOn DEF Release, Steps, TypeOK
    <2>2. RowInv(i)'
      <3> USE DEF Contains, Head, Session, Legacy
      <3>1. Phase(i)' /\ Markers(i)'
        BY <1>0, <1>1, <1>2, <2>1
        DEF RowInv, Phase, Markers, Released, Following, Merging, Publishing, Steps, Unsettled
      <3>2. Branch(i)'
        BY <1>0, <1>1, <1>2, <2>1 DEF RowInv, Branch, Following
      <3>3. BaseRead(i)'
        BY <1>0, <1>1, <1>2, <2>1
        DEF RowInv, BaseRead, Located, Reading, Following
      <3>4. Done(i)'
        BY <1>0, <1>1, <1>2, <2>1 DEF RowInv, Done, Merging
      <3>5. QED
        BY <3>1, <3>2, <3>3, <3>4 DEF RowInv
    <2>3. QED
      BY <1>0, <1>1, <2>1, <2>2, CallOnly, OwnKept
  <1>6. QED
    BY <1>4, <1>5

LEMMA CompleteReleaseKeeps ==
  ASSUME GitInv, NEW i \in Issues, CompleteRelease(i), TypeOK'
  PROVE  GitInv'
  <1> USE DEF At, Head, repository, history
  <1>0. TypeOK /\ CallTypes /\ SavedTypes /\ RowInv(i) /\ run[i] \in Calls
    BY DEF GitInv, TypeOK, CallTypes, Runs, Calls, SavedTypes
  <1>1. CallStep(i) /\ run'[i].pc = "idle" /\ stage'[i] = "COMPLETED"
    BY <1>0, EndsIn DEF CompleteRelease, Stages
  <1>2. UNCHANGED <<refs, remote, tree, saved, draft, accepted, misled, checkout>>
        /\ run[i].pc = "released"
    BY DEF CompleteRelease
  <1>3. RowInv(i)'
    <2> USE DEF Contains, Head, Session, Legacy
    <2>1. Phase(i)' /\ Markers(i)'
      BY <1>0, <1>1, <1>2
      DEF RowInv, Phase, Markers, Released, Following, Merging, Publishing, Steps
    <2>2. Branch(i)'
      BY <1>0, <1>1, <1>2 DEF RowInv, Branch, Following
    <2>3. BaseRead(i)'
      BY <1>0, <1>1, <1>2
      DEF RowInv, BaseRead, Located, Reading, Following
    <2>4. Done(i)'
      BY <1>0, <1>1, <1>2 DEF RowInv, Done, Merging
    <2>5. QED
      BY <2>1, <2>2, <2>3, <2>4 DEF RowInv
  <1>4. QED
    BY <1>0, <1>1, <1>2, <1>3, CallOnly, OwnKept

(* The human's commands: whatever is to be repaired, and the acceptance of *)
(* what was delivered.                                                     *)
LEMMA HumanKeeps ==
  ASSUME GitInv, NEW i \in Issues, HumanNext(i), TypeOK'
  PROVE  GitInv'
  <1> USE DEF At, Head, repository, history
  <1>0. TypeOK /\ CallTypes /\ SavedTypes /\ RowInv(i) /\ run[i] \in Calls
    BY DEF GitInv, TypeOK, CallTypes, Runs, Calls, SavedTypes
  <1>1. run[i].pc = "idle" /\ stage[i] \in {"DECISION", "REVIEW", "FAILED"}
        /\ UNCHANGED <<refs, remote, tree, saved, draft, run, misled, checkout>>
    BY DEF HumanNext, Decide, Accept, Reject, RetryRepair, Rests
  <1>2. refs[i] # None /\ \A c \in refs[i] : c[1] = i \/ c \in refs[Base]
    BY <1>0, <1>1 DEF RowInv, Branch
  <1>3. CASE Enter(i, "REPAIRING") /\ UNCHANGED accepted
    <2>1. CallStep(i) /\ stage'[i] = "REPAIRING"
      BY <1>0, <1>1, <1>3, EnterFacts DEF CallStep, CallTypes, Stages
    <2>2. RowInv(i)'
      BY <1>0, <1>1, <1>2, <2>1, QuietKept DEF Quiet
    <2>3. QED
      BY <1>0, <1>1, <1>3, <2>1, <2>2, CallOnly, OwnKept
  <1>4. CASE Accept(i)
    <2>1. CallStep(i) /\ stage'[i] = "FINALIZING" /\ stage[i] = "REVIEW"
      BY <1>0, <1>1, <1>4, EnterFacts DEF CallStep, CallTypes, Stages, Accept, Rests
    <2>2. accepted' = [accepted EXCEPT ![i] = draft[i].commit] /\ accepted'[i] = refs[i]
      BY <1>0, <1>4, <2>1 DEF Accept, RowInv, Branch, TypeOK
    <2>3. RowInv(i)'
      <3> USE DEF Contains, Head, Session, Legacy
      <3>1. Phase(i)' /\ Markers(i)'
        BY <1>0, <1>1, <1>2, <2>1, <2>2
        DEF RowInv, Phase, Markers, Released, Following, Merging, Publishing, Steps
      <3>2. Branch(i)'
        BY <1>0, <1>1, <1>2, <2>1, <2>2 DEF RowInv, Branch, Following
      <3>3. BaseRead(i)'
        BY <1>0, <1>1, <1>2, <2>1, <2>2
        DEF RowInv, BaseRead, Located, Reading, Following
      <3>4. Done(i)'
        BY <1>0, <1>1, <1>2, <2>1, <2>2 DEF RowInv, Done, Merging
      <3>5. QED
        BY <3>1, <3>2, <3>3, <3>4 DEF RowInv
    <2>4. QED
      BY <1>0, <1>1, <2>1, <2>2, <2>3, CallOnly, OwnKept
  <1>5. QED
    BY <1>3, <1>4 DEF HumanNext, Decide, Reject, RetryRepair

(* The recovery of an earlier version.                                     *)
LEMMA RecoverKeeps ==
  ASSUME GitInv, NEW i \in Issues, Recover(i), TypeOK'
  PROVE  GitInv'
  <1> USE DEF At, Head, repository, history
  <1>0. TypeOK /\ CallTypes /\ SavedTypes /\ RowInv(i) /\ run[i] \in Calls
    BY DEF GitInv, TypeOK, CallTypes, Runs, Calls, SavedTypes
  <1>1. run[i].pc = "idle" /\ stage[i] = "RECOVERING"
        /\ draft' = [draft EXCEPT ![i] = [base |-> None, commit |-> refs[i]]]
        /\ UNCHANGED <<refs, remote, run, accepted, misled, checkout>>
    BY DEF Recover
  <1>2. refs[i] # None /\ \A c \in refs[i] : c[1] = i \/ c \in refs[Base]
    BY <1>0, <1>1 DEF RowInv, Branch
  <1>3. \E s \in {"REVIEW", "FINALIZING", "FAILED"} : Enter(i, s)
    BY DEF Recover, RecoverConflict, RecoverGenerated
  <1>4. CallStep(i) /\ stage'[i] \in {"REVIEW", "FINALIZING", "FAILED"}
    BY <1>0, <1>1, <1>3, EnterFacts DEF CallStep, CallTypes, Stages
  <1>5. saved' = saved \/ BindRecoveryDelivery(i)
    BY DEF Recover, RecoverConflict, RecoverGenerated
  <1>6. /\ saved' = saved \/ SavedElsewhere(i)
        /\ saved'[i].info = saved[i].info /\ saved'[i].known = saved[i].known
        /\ saved'[i].recovery.kind = Session(i).kind /\ saved'[i].recovery.base = Session(i).base
        /\ saved'[i].recovery.sealed = Session(i).sealed
    BY <1>0, <1>5, BoundFacts DEF Session
  <1>7. OnlyOwn(i)
    <2>1. tree' = tree \/ \E t : tree' = [tree EXCEPT ![i] = t]
      BY DEF Recover, RecoverConflict, RecoverGenerated
    <2>2. QED
      BY <1>0, <1>1, <1>4, <1>6, <2>1, CallOnly
  <1>8. draft'[i].commit = refs[i]
    BY <1>0, <1>1 DEF TypeOK
  <1>9. CASE stage'[i] = "FAILED"
    <2>1. saved'[i] = saved[i]
      BY <1>0, <1>9, EnterFacts DEF Recover, RecoverConflict, RecoverGenerated, CallTypes, Stages
    <2>2. RowInv(i)'
      BY <1>0, <1>1, <1>2, <1>9, <2>1, QuietKept DEF Quiet
    <2>3. QED
      BY <1>7, <2>2, OwnKept
  <1>10. CASE stage'[i] # "FAILED"
    <2>1. \/ Session(i).kind = "conflict" /\ BindRecoveryDelivery(i)
          \/ Session(i).kind = "cleanup" /\ UNCHANGED <<tree, saved>>
      BY <1>0, <1>10, EnterFacts DEF Recover, RecoverConflict, RecoverGenerated, CallTypes, Stages
    <2>2. /\ Session(i).kind = "conflict" => saved'[i].recovery.candidate
          /\ Session(i).kind = "cleanup" => tree'[i] = tree[i]
      BY <1>0, <2>1, BoundFacts
    <2>3. RowInv(i)'
      <3> USE DEF Contains, Head, Session, Legacy
      <3>1. Phase(i)' /\ Markers(i)'
        BY <1>0, <1>1, <1>2, <1>4, <1>6, <1>8, <1>10, <2>1, <2>2
        DEF RowInv, Phase, Markers, Released, Following, Merging, Publishing, Steps, Unsettled
      <3>2. Branch(i)'
        BY <1>0, <1>1, <1>2, <1>4, <1>6, <1>8, <1>10, <2>1, <2>2 DEF RowInv, Branch, Following
      <3>3. BaseRead(i)'
        BY <1>0, <1>1, <1>2, <1>4, <1>6, <1>8, <1>10, <2>1, <2>2
        DEF RowInv, BaseRead, Located, Reading, Following
      <3>4. Done(i)'
        BY <1>0, <1>1, <1>2, <1>4, <1>6, <1>8, <1>10, <2>1, <2>2 DEF RowInv, Done, Merging
      <3>5. QED
        BY <3>1, <3>2, <3>3, <3>4 DEF RowInv
    <2>4. QED
      BY <1>7, <2>3, OwnKept
  <1>11. QED
    BY <1>9, <1>10

LEMMA PublishLegacyKeeps ==
  ASSUME GitInv, NEW i \in Issues, PublishLegacy(i), TypeOK'
  PROVE  GitInv'
  <1> USE DEF At, Head, repository, history
  <1>0. TypeOK /\ CallTypes /\ SavedTypes /\ RowInv(i) /\ run[i] \in Calls
    BY DEF GitInv, TypeOK, CallTypes, Runs, Calls, SavedTypes
  <1>1. /\ run[i].pc = "idle" /\ stage[i] = "FINALIZING" /\ saved[i].info = None /\ Legacy(i)
        /\ UNCHANGED <<remote, checkout, saved, draft, misled>>
    BY DEF PublishLegacy
  <1>2. /\ refs[i] # None /\ \A c \in refs[i] : c[1] = i \/ c \in refs[Base]
        /\ accepted[i] = refs[i] /\ Contains(refs[Base], Session(i).base)
    BY <1>0, <1>1 DEF RowInv, Branch, BaseRead
  <1>3. \/ UNCHANGED <<refs, made, tree, accepted>>
        \/ \E q \in {refs[i] \cup Session(i).base, refs[i]} : CommitWorktree(i, q)
    BY DEF PublishLegacy, Seal, CommitAll
  <1>4. /\ refs' = refs \/ \E r : refs' = [refs EXCEPT ![i] = r]
        /\ tree' = tree \/ \E t : tree' = [tree EXCEPT ![i] = t]
        /\ accepted' = accepted \/ \E r : accepted' = [accepted EXCEPT ![i] = r]
    BY <1>3 DEF CommitWorktree
  <1>5. /\ refs'[i] # None /\ accepted'[i] = refs'[i] /\ Contains(refs'[i], refs[i])
        /\ \A c \in refs'[i] : c[1] = i \/ c \in refs[Base]
        /\ (tree'[i] = tree[i] \/ tree'[i] = "clean")
    <2>1. CASE UNCHANGED <<refs, made, tree, accepted>>
      BY <1>2, <2>1 DEF Contains
    <2>2. ASSUME NEW q \in {refs[i] \cup Session(i).base, refs[i]}, CommitWorktree(i, q)
          PROVE  /\ refs'[i] # None /\ accepted'[i] = refs'[i] /\ Contains(refs'[i], refs[i])
                 /\ \A c \in refs'[i] : c[1] = i \/ c \in refs[Base]
                 /\ tree'[i] = "clean"
      <3>1. refs'[i] = NewCommit(i, q)
        BY <1>0, <2>2 DEF CommitWorktree, TypeOK, Branches
      <3>2. accepted'[i] = refs'[i] /\ tree'[i] = "clean"
        BY <1>0, <2>2 DEF CommitWorktree, TypeOK
      <3>3. QED
        BY <1>2, <2>2, <3>1, <3>2 DEF NewCommit, None, Contains
    <2>3. QED
      BY <1>3, <2>1, <2>2
  <1>6. CASE Fails(i)
    <2>1. CallStep(i) /\ run'[i].pc = "idle" /\ stage'[i] = "FAILED"
      BY <1>0, <1>6, FailsIn
    <2>2. OnlyOwn(i)
      BY <1>0, <1>1, <1>4, <2>1, CallOnly
    <2>3. RowInv(i)'
      BY <1>0, <1>1, <1>5, <2>1, <2>2, QuietKept DEF Quiet, OnlyOwn
    <2>4. QED
      BY <2>2, <2>3, OwnKept
  <1>7. CASE ~Fails(i)
    <2>1. UNCHANGED stage /\ \E pc \in {"sealed", "pushing", "merging"} : Goto(i, pc)
      BY <1>7 DEF PublishLegacy, Seal, CommitAll, AfterCommit
    <2>2. CallStep(i) /\ stage'[i] = "FINALIZING" /\ run'[i].pc \in {"sealed", "pushing", "merging"}
      BY <1>0, <1>1, <2>1, GoesOn DEF Steps
    <2>3. run'[i].pc = "merging" => ~PushToRemote
      BY <1>0, <1>7, GoesOn DEF PublishLegacy, Seal, CommitAll, AfterCommit, Steps
    <2>4. tree'[i] \notin Unsettled
      BY <1>0, <1>1, <1>7 DEF PublishLegacy, Seal, CommitAll, CommitWorktree, WorktreeClean, RowInv,
                      Markers, Unsettled, TypeOK
    <2>5. OnlyOwn(i)
      BY <1>0, <1>1, <1>4, <2>2, CallOnly
    <2>6. refs'[Base] = refs[Base]
      BY <2>5 DEF OnlyOwn
    <2>7. RowInv(i)'
      <3> USE DEF Contains, Head, Session, Legacy
      <3>1. Phase(i)' /\ Markers(i)'
        BY <1>0, <1>1, <1>5, <2>2, <2>3, <2>4, <2>6
        DEF RowInv, Phase, Markers, Released, Following, Merging, Publishing, Steps, Unsettled
      <3>2. Branch(i)'
        BY <1>0, <1>1, <1>5, <2>2, <2>3, <2>4, <2>6 DEF RowInv, Branch, Following
      <3>3. BaseRead(i)'
        BY <1>0, <1>1, <1>5, <2>2, <2>3, <2>4, <2>6
        DEF RowInv, BaseRead, Located, Reading, Following
      <3>4. Done(i)'
        BY <1>0, <1>1, <1>5, <2>2, <2>3, <2>4, <2>6 DEF RowInv, Done, Merging, Pushed, InBase
      <3>5. QED
        BY <3>1, <3>2, <3>3, <3>4 DEF RowInv
    <2>8. QED
      BY <2>5, <2>7, OwnKept
  <1>8. QED
    BY <1>6, <1>7

LEMMA SaveSealedKeeps ==
  ASSUME GitInv, NEW i \in Issues, SaveSealed(i), TypeOK'
  PROVE  GitInv'
  <1> USE DEF At, Head, repository, history
  <1>0. TypeOK /\ CallTypes /\ SavedTypes /\ RowInv(i) /\ run[i] \in Calls
    BY DEF GitInv, TypeOK, CallTypes, Runs, Calls, SavedTypes
  <1>1. run[i].pc = "sealed" /\ stage[i] = "FINALIZING"
        /\ UNCHANGED <<refs, remote, tree, draft, accepted, misled, checkout>>
    BY <1>0 DEF SaveSealed, TypeOK, Publishing, Steps
  <1>2. CallStep(i) /\ stage'[i] = "FINALIZING" /\ run'[i].pc \in {"pushing", "merging"}
        /\ (run'[i].pc = "merging" => ~PushToRemote)
    BY <1>0, <1>1, GoesOn DEF SaveSealed, AfterCommit, Steps
  <1>3. /\ SavedElsewhere(i)
        /\ saved'[i].info = saved[i].info /\ saved'[i].known = saved[i].known
        /\ saved'[i].recovery.kind = Session(i).kind /\ saved'[i].recovery.base = Session(i).base
    <2>1. refs[i] \in Commits
      BY <1>0, CommitTypes
    <2>2. QED
      BY <1>0, <2>1, SealedFacts DEF SaveSealed
  <1>4. RowInv(i)'
    <2> USE DEF Contains, Head, Session, Legacy
    <2>1. Phase(i)' /\ Markers(i)'
      BY <1>0, <1>1, <1>2, <1>3
      DEF RowInv, Phase, Markers, Released, Following, Merging, Publishing, Steps, Unsettled
    <2>2. Branch(i)'
      BY <1>0, <1>1, <1>2, <1>3 DEF RowInv, Branch, Following
    <2>3. BaseRead(i)'
      BY <1>0, <1>1, <1>2, <1>3
      DEF RowInv, BaseRead, Located, Reading, Following
    <2>4. Done(i)'
      BY <1>0, <1>1, <1>2, <1>3 DEF RowInv, Done, Merging, Pushed, InBase, Phase
    <2>5. QED
      BY <2>1, <2>2, <2>3, <2>4 DEF RowInv
  <1>5. QED
    BY <1>0, <1>1, <1>2, <1>3, <1>4, CallOnly, OwnKept

(* The merge of its delivery into the base branch.                         *)
LEMMA MergeLegacyKeeps ==
  ASSUME GitInv, NEW i \in Issues, MergeLegacy(i), TypeOK'
  PROVE  GitInv'
  <1> USE DEF At, Head, repository, history
  <1>0. TypeOK /\ CallTypes /\ SavedTypes /\ RowInv(i) /\ run[i] \in Calls
    BY DEF GitInv, TypeOK, CallTypes, Runs, Calls, SavedTypes
  <1>1. run[i].pc = "merging" /\ stage[i] = "FINALIZING"
        /\ UNCHANGED <<refs, remote, tree, saved, draft, accepted, misled, checkout>>
    BY <1>0 DEF MergeLegacy, TypeOK, Publishing, Steps
  <1>2. refs[i] # None /\ \A c \in refs[i] : c[1] = i \/ c \in refs[Base]
    BY <1>0, <1>1 DEF RowInv, Branch
  <1>3. CASE Fails(i)
    <2>1. CallStep(i) /\ run'[i].pc = "idle" /\ stage'[i] = "FAILED"
      BY <1>0, <1>3, FailsIn
    <2>2. RowInv(i)'
      BY <1>0, <1>1, <1>2, <2>1, QuietKept DEF Quiet
    <2>3. QED
      BY <1>0, <1>1, <2>1, <2>2, CallOnly, OwnKept
  <1>4. CASE ~Fails(i)
    <2> DEFINE p == checkout = Base
    <2>1. /\ run' = [run EXCEPT ![i].pc = "attempting", ![i].base = refs[Base],
                                ![i].path = p, ![i].tries = 1]
          /\ UNCHANGED stage
      BY <1>4 DEF MergeLegacy
    <2>2. p \in BOOLEAN /\ refs[Base] \in Commits /\ (p => checkout = Base)
      BY <1>0, CommitTypes
    <2> HIDE DEF p
    <2>3. /\ CallStep(i) /\ stage'[i] = "FINALIZING" /\ run'[i].pc = "attempting"
          /\ run'[i].base = refs[Base] /\ run'[i].path = p
      BY <1>0, <1>1, <2>1, <2>2, MergeStep
    <2>4. RowInv(i)'
      <3> USE DEF Contains, Head, Session, Legacy
      <3>1. Phase(i)' /\ Markers(i)'
        BY <1>0, <1>1, <2>2, <2>3
        DEF RowInv, Phase, Markers, Released, Following, Merging, Publishing, Steps, Unsettled
      <3>2. Branch(i)'
        BY <1>0, <1>1, <2>2, <2>3 DEF RowInv, Branch, Following
      <3>3. BaseRead(i)'
        BY <1>0, <1>1, <2>2, <2>3
        DEF RowInv, BaseRead, Located, Reading, Following
      <3>4. Done(i)'
        BY <1>0, <1>1, <2>2, <2>3 DEF RowInv, Done, Merging, Pushed, InBase
      <3>5. QED
        BY <3>1, <3>2, <3>3, <3>4 DEF RowInv
    <2>5. QED
      BY <1>0, <1>1, <2>3, <2>4, CallOnly, OwnKept
  <1>5. QED
    BY <1>3, <1>4

(* An attempt is given up, or made again with the base read anew.          *)
LEMMA AgainKept ==
  ASSUME TypeOK, CallTypes, NEW i \in Issues, RowInv(i), run[i].pc \in {"attempting", "updating"},
         AttemptFails(i), UNCHANGED <<refs, remote, tree, saved, draft, accepted, misled, checkout>>
  PROVE  CallStep(i) /\ RowInv(i)'
  <1> USE DEF Head
  <1>1. stage[i] = "FINALIZING"
    BY DEF TypeOK, Publishing, Steps
  <1>2. refs[i] # None /\ \A c \in refs[i] : c[1] = i \/ c \in refs[Base]
    BY <1>1 DEF RowInv, Branch
  <1>3. /\ CallStep(i)
        /\ \/ /\ run'[i].pc = "attempting" /\ stage'[i] = stage[i]
              /\ run'[i].base = refs[Base] /\ run'[i].path = run[i].path
           \/ run'[i].pc = "idle" /\ stage'[i] = "FAILED"
    BY CommitTypes, AgainStep
  <1>4. CASE run'[i].pc = "idle" /\ stage'[i] = "FAILED"
    BY <1>2, <1>3, <1>4, QuietKept DEF Quiet
  <1>5. CASE run'[i].pc = "attempting"
    <2>1. stage'[i] = "FINALIZING" /\ run'[i].base = refs[Base] /\ run'[i].path = run[i].path
      BY <1>1, <1>3, <1>5
    <2>2. RowInv(i)'
      <3> USE DEF Contains, Head, Session, Legacy
      <3>1. Phase(i)' /\ Markers(i)'
        BY <1>1, <1>2, <1>5, <2>1
        DEF RowInv, Phase, Markers, Released, Following, Merging, Publishing, Steps, Unsettled
      <3>2. Branch(i)'
        BY <1>1, <1>2, <1>5, <2>1 DEF RowInv, Branch, Following
      <3>3. BaseRead(i)'
        BY <1>1, <1>2, <1>5, <2>1
        DEF RowInv, BaseRead, Located, Reading, Following
      <3>4. Done(i)'
        BY <1>1, <1>2, <1>5, <2>1 DEF RowInv, Done, Merging, Pushed, InBase
      <3>5. QED
        BY <3>1, <3>2, <3>3, <3>4 DEF RowInv
    <2>3. QED
      BY <1>3, <2>2
  <1>6. QED
    BY <1>3, <1>4, <1>5

LEMMA AttemptMergeKeeps ==
  ASSUME GitInv, NEW i \in Issues, AttemptMerge(i), TypeOK'
  PROVE  GitInv'
  <1> USE DEF At, Head, repository, history
  <1>0. TypeOK /\ CallTypes /\ SavedTypes /\ RowInv(i) /\ run[i] \in Calls
    BY DEF GitInv, TypeOK, CallTypes, Runs, Calls, SavedTypes
  <1>1. run[i].pc = "attempting" /\ stage[i] = "FINALIZING"
        /\ UNCHANGED <<refs, remote, tree, saved, draft, accepted, misled, checkout>>
    BY <1>0 DEF AttemptMerge, TypeOK, Publishing, Steps
  <1>2. run[i].base \in Commits /\ refs[i] \in Commits
    BY <1>0, CommitTypes DEF Calls
  <1>3. CASE AttemptFails(i)
    BY <1>0, <1>1, <1>3, AgainKept, CallOnly, OwnKept
  <1>4. CASE Contains(run[i].base, refs[i]) /\ Goto(i, "saving") /\ UNCHANGED stage
    <2>1. CallStep(i) /\ stage'[i] = "FINALIZING" /\ run'[i].pc = "saving"
      BY <1>0, <1>1, <1>4, GoesOn DEF Steps
    <2>2. Contains(refs[Base], refs[i])
      BY <1>0, <1>1, <1>4 DEF RowInv, BaseRead, Reading, Contains
    <2>3. RowInv(i)'
      <3> USE DEF Contains, Head, Session, Legacy
      <3>1. Phase(i)' /\ Markers(i)'
        BY <1>0, <1>1, <2>1, <2>2
        DEF RowInv, Phase, Markers, Released, Following, Merging, Publishing, Steps, Unsettled
      <3>2. Branch(i)'
        BY <1>0, <1>1, <2>1, <2>2 DEF RowInv, Branch, Following
      <3>3. BaseRead(i)'
        BY <1>0, <1>1, <2>1, <2>2
        DEF RowInv, BaseRead, Located, Reading, Following
      <3>4. Done(i)'
        BY <1>0, <1>1, <2>1, <2>2 DEF RowInv, Done, Merging, Pushed, InBase
      <3>5. QED
        BY <3>1, <3>2, <3>3, <3>4 DEF RowInv
    <2>4. QED
      BY <1>0, <1>1, <2>1, <2>3, CallOnly, OwnKept
  <1>5. ASSUME NEW r \in {refs[i], NewCommit(i, refs[i] \cup run[i].base)},
               Contains(r, refs[i] \cup run[i].base),
               run' = [run EXCEPT ![i].pc = "updating", ![i].result = r], UNCHANGED stage
        PROVE  GitInv'
    <2>1. r \in Commits
      <3>1. refs[i] \cup run[i].base \in Commits /\ i \in Authors
        BY <1>0, <1>2, CommitTypes
      <3>2. NewCommit(i, refs[i] \cup run[i].base) \in Commits
        BY <1>0, <3>1, CommitTypes
      <3>3. QED
        BY <1>2, <1>5, <3>2
    <2>2. /\ CallStep(i) /\ stage'[i] = "FINALIZING" /\ run'[i].pc = "updating"
          /\ run'[i].result = r /\ run'[i].base = run[i].base /\ run'[i].path = run[i].path
      BY <1>0, <1>1, <1>5, <2>1, ResultStep
    <2>3. \A c \in r : c[1] = i \/ c \in refs[i] \cup run[i].base
      BY <1>5 DEF NewCommit
    <2>4. RowInv(i)'
      <3> USE DEF Contains, Head, Session, Legacy
      <3>1. Phase(i)' /\ Markers(i)'
        BY <1>0, <1>1, <1>5, <2>2, <2>3
        DEF RowInv, Phase, Markers, Released, Following, Merging, Publishing, Steps, Unsettled
      <3>2. Branch(i)'
        BY <1>0, <1>1, <1>5, <2>2, <2>3 DEF RowInv, Branch, Following
      <3>3. BaseRead(i)'
        BY <1>0, <1>1, <1>5, <2>2, <2>3
        DEF RowInv, BaseRead, Located, Reading, Following
      <3>4. Done(i)'
        BY <1>0, <1>1, <1>5, <2>2, <2>3 DEF RowInv, Done, Merging, Pushed, InBase
      <3>5. QED
        BY <3>1, <3>2, <3>3, <3>4 DEF RowInv
    <2>5. QED
      BY <1>0, <1>1, <2>2, <2>4, CallOnly, OwnKept
  <1>6. QED
    <2>1. CASE Contains(run[i].base, refs[i])
      BY <1>4, <2>1 DEF AttemptMerge
    <2>2. CASE ~Contains(run[i].base, refs[i]) /\ ~AttemptFails(i)
      <3>1. CASE Contains(refs[i], run[i].base)
        <4>1. Contains(refs[i], refs[i] \cup run[i].base)
          BY <3>1 DEF Contains
        <4>2. QED
          BY <1>5, <2>2, <3>1, <4>1 DEF AttemptMerge
      <3>2. CASE ~Contains(refs[i], run[i].base)
        <4>1. Contains(NewCommit(i, refs[i] \cup run[i].base), refs[i] \cup run[i].base)
          BY DEF NewCommit, Contains
        <4>2. QED
          BY <1>5, <2>2, <3>2, <4>1 DEF AttemptMerge
      <3>3. QED
        BY <3>1, <3>2
    <2>3. QED
      BY <1>3, <2>1, <2>2

(* What git merge --ff-only and git update-ref do: the base branch is what *)
(* it was or the commit, which contains it; and it is the commit, or has   *)
(* it, unless another branch is checked out where the base was.            *)
LEMMA AdvanceFacts ==
  ASSUME TypeOK, NEW i \in Issues, NEW r \in Commits, NEW e \in Commits, NEW p \in BOOLEAN,
         Contains(r, e), Advances(i, r, e, p), refs' = Advanced(r, p)
  PROVE  /\ \A j \in Issues : refs'[j] = refs[j]
         /\ refs'[Base] = refs[Base] \/ (refs'[Base] = r /\ Contains(r, refs[Base]))
         /\ (p /\ checkout # Base) \/ Contains(refs'[Base], r)
  BY RepositoryAssumption
    DEF TypeOK, Branches, Advances, Advanced, UpToDate, MayFastForward, Contains

(* A step of one Issue that gives the base branch commits of its own, or   *)
(* such as it has.                                                         *)
LEMMA BaseKept ==
  ASSUME GitInv, NEW i \in Issues, CallStep(i), TypeOK', RowInv(i)',
         \A j \in Issues : refs'[j] = refs[j], Contains(refs'[Base], refs[Base]),
         \A c \in refs'[Base] : c[1] = i \/ c \in refs[Base],
         UNCHANGED <<remote, tree, saved, draft, accepted, misled, checkout>>
  PROVE  GitInv'
  <1>1. ASSUME NEW j \in Issues \ {i} PROVE RowInv(j)'
    <2>1. RowSame(j)
      BY DEF RowSame, CallStep
    <2>2. BaseGains(j) /\ Led(j)
      BY DEF BaseGains, Led
    <2>3. QED
      BY <2>1, <2>2, OtherKept DEF GitInv
  <1>2. Rooted'
    BY DEF GitInv, Rooted, Contains
  <1>3. QED
    BY <1>1, <1>2 DEF GitInv

LEMMA UpdateBaseGives ==
  ASSUME TypeOK, NEW i \in Issues, RowInv(i), run[i] \in Calls, run[i].pc = "updating",
         Advances(i, run[i].result, run[i].base, run[i].path),
         refs' = Advanced(run[i].result, run[i].path)
  PROVE  /\ \A j \in Issues : refs'[j] = refs[j]
         /\ refs'[Base] = refs[Base]
              \/ (refs'[Base] = run[i].result /\ Contains(run[i].result, refs[Base]))
         /\ i \in misled \/ Contains(refs'[Base], Head(i))
         /\ \A c \in refs'[Base] : c[1] = i \/ c \in refs[Base]
  <1> USE DEF Contains
  <1>1. /\ Contains(run[i].result, Head(i) \cup run[i].base) /\ Contains(refs[Base], run[i].base)
        /\ \A c \in run[i].result : c[1] = i \/ c \in Head(i) \cup run[i].base
        /\ run[i].path /\ checkout # Base => i \in misled
    BY DEF RowInv, BaseRead, Reading, Located
  <1>2. \A c \in Head(i) : c[1] = i \/ c \in refs[Base]
    BY DEF RowInv, Branch
  <1>3. run[i].result \in Commits /\ run[i].base \in Commits /\ run[i].path \in BOOLEAN
        /\ Contains(run[i].result, run[i].base)
    BY <1>1 DEF Calls
  <1>4. /\ \A j \in Issues : refs'[j] = refs[j]
        /\ \/ refs'[Base] = refs[Base]
           \/ refs'[Base] = run[i].result /\ Contains(run[i].result, refs[Base])
        /\ (run[i].path /\ checkout # Base) \/ Contains(refs'[Base], run[i].result)
    BY <1>3, AdvanceFacts
  <1>5. QED
    BY <1>1, <1>2, <1>4

LEMMA UpdateBaseKeeps ==
  ASSUME GitInv, NEW i \in Issues, UpdateBase(i), TypeOK'
  PROVE  GitInv'
  <1> USE DEF At, Head, repository, history
  <1>0. TypeOK /\ CallTypes /\ SavedTypes /\ RowInv(i) /\ run[i] \in Calls
    BY DEF GitInv, TypeOK, CallTypes, Runs, Calls, SavedTypes
  <1>1. run[i].pc = "updating" /\ stage[i] = "FINALIZING"
        /\ UNCHANGED <<remote, tree, saved, draft, accepted, misled, checkout>>
    BY <1>0 DEF UpdateBase, TypeOK, Publishing, Steps
  <1>2. CASE AttemptFails(i) /\ UNCHANGED refs
    BY <1>0, <1>1, <1>2, AgainKept, CallOnly, OwnKept
  <1>3. CASE /\ Advances(i, run[i].result, run[i].base, run[i].path)
             /\ refs' = Advanced(run[i].result, run[i].path) /\ Goto(i, "saving") /\ UNCHANGED stage
    <2>1. CallStep(i) /\ stage'[i] = "FINALIZING" /\ run'[i].pc = "saving"
      BY <1>0, <1>1, <1>3, GoesOn DEF Steps
    <2>2. /\ \A j \in Issues : refs'[j] = refs[j]
          /\ Contains(refs'[Base], refs[Base])
          /\ i \in misled \/ Contains(refs'[Base], refs[i])
          /\ \A c \in refs'[Base] : c[1] = i \/ c \in refs[Base]
      BY <1>0, <1>1, <1>3, UpdateBaseGives DEF Contains
    <2>3. RowInv(i)'
      <3> USE DEF Contains, Head, Session, Legacy
      <3>1. Phase(i)' /\ Markers(i)'
        BY <1>0, <1>1, <2>1, <2>2
        DEF RowInv, Phase, Markers, Released, Following, Merging, Publishing, Steps, Unsettled
      <3>2. Branch(i)'
        BY <1>0, <1>1, <2>1, <2>2 DEF RowInv, Branch, Following
      <3>3. BaseRead(i)'
        BY <1>0, <1>1, <2>1, <2>2
        DEF RowInv, BaseRead, Located, Reading, Following
      <3>4. Done(i)'
        BY <1>0, <1>1, <2>1, <2>2 DEF RowInv, Done, Merging, Pushed, InBase
      <3>5. QED
        BY <3>1, <3>2, <3>3, <3>4 DEF RowInv
    <2>4. QED
      BY <1>0, <1>1, <2>1, <2>2, <2>3, BaseKept
  <1>4. QED
    BY <1>2, <1>3 DEF UpdateBase

-----------------------------------------------------------------------------
(* This version's publication.                                             *)
LEMMA PublishKeeps ==
  ASSUME GitInv, NEW i \in Issues, Publish(i), TypeOK'
  PROVE  GitInv'
  <1> USE DEF At, Head, repository, history
  <1>0. TypeOK /\ CallTypes /\ SavedTypes /\ RowInv(i) /\ run[i] \in Calls
    BY DEF GitInv, TypeOK, CallTypes, Runs, Calls, SavedTypes
  <1>1. run[i].pc = "idle" /\ stage[i] = "FINALIZING"
        /\ UNCHANGED <<refs, remote, tree, saved, draft, accepted, misled, checkout>>
    BY DEF Publish
  <1>2. refs[i] # None /\ \A c \in refs[i] : c[1] = i \/ c \in refs[Base]
    BY <1>0, <1>1 DEF RowInv, Branch
  <1>3. CASE Fails(i)
    <2>1. CallStep(i) /\ run'[i].pc = "idle" /\ stage'[i] = "FAILED"
      BY <1>0, <1>3, FailsIn
    <2>2. RowInv(i)'
      BY <1>0, <1>1, <1>2, <2>1, QuietKept DEF Quiet
    <2>3. QED
      BY <1>0, <1>1, <2>1, <2>2, CallOnly, OwnKept
  <1>4. CASE BaseStale(i)
    <2>1. CallStep(i) /\ run'[i].pc = "idle" /\ stage'[i] = "REPAIRING"
      BY <1>0, <1>4, StaleIn
    <2>2. RowInv(i)'
      BY <1>0, <1>1, <1>2, <2>1, QuietKept DEF Quiet
    <2>3. QED
      BY <1>0, <1>1, <2>1, <2>2, CallOnly, OwnKept
  <1>5. CASE PublishedAlready(i)
    <2>1. CallStep(i) /\ stage'[i] = "FINALIZING" /\ run'[i].pc = "releasing"
          /\ saved[i].info # None
      BY <1>0, <1>1, <1>5, GoesOn DEF PublishedAlready, Steps
    <2>2. tree[i] \notin Unsettled
      BY <1>0, <1>1, <2>1 DEF RowInv, Phase, Markers, Legacy
    <2>3. RowInv(i)'
      <3> USE DEF Contains, Head, Session, Legacy
      <3>1. Phase(i)' /\ Markers(i)'
        BY <1>0, <1>1, <2>1, <2>2
        DEF RowInv, Phase, Markers, Released, Following, Merging, Publishing, Steps, Unsettled
      <3>2. Branch(i)'
        BY <1>0, <1>1, <2>1, <2>2 DEF RowInv, Branch, Following
      <3>3. BaseRead(i)'
        BY <1>0, <1>1, <2>1, <2>2
        DEF RowInv, BaseRead, Located, Reading, Following
      <3>4. Done(i)'
        BY <1>0, <1>1, <2>1, <2>2 DEF RowInv, Done, Merging, Pushed, InBase
      <3>5. QED
        BY <3>1, <3>2, <3>3, <3>4 DEF RowInv
    <2>4. QED
      BY <1>0, <1>1, <2>1, <2>3, CallOnly, OwnKept
  <1>6. CASE /\ ~PublishedAlready(i) /\ ~Fails(i) /\ ~BaseStale(i)
    <2>1. saved[i].info = None /\ ~Legacy(i) /\ ~NotPublishable(i) /\ Judged(i)
      BY <1>6 DEF Publish, Legacy, Session
    <2>2. tree[i] \notin Unsettled /\ draft[i].commit = refs[i]
      BY <2>1 DEF NotPublishable, WorktreeClean, Unsettled
    <2>3. CASE Contains(refs[Base], refs[i])
      <3>1. Goto(i, AfterMerge) /\ UNCHANGED stage
        BY <2>1, <2>3 DEF Judged
      <3>2. CallStep(i) /\ stage'[i] = "FINALIZING" /\ run'[i].pc \in {"pushing", "saving"}
            /\ (run'[i].pc = "saving" => ~PushToRemote)
        BY <1>0, <1>1, <3>1, GoesOn DEF AfterMerge, Steps
      <3>3. RowInv(i)'
        <4> USE DEF Contains, Head, Session, Legacy
        <4>1. Phase(i)' /\ Markers(i)'
          BY <1>0, <1>1, <2>1, <2>2, <2>3, <3>2
          DEF RowInv, Phase, Markers, Released, Following, Merging, Publishing, Steps, Unsettled
        <4>2. Branch(i)'
          BY <1>0, <1>1, <2>1, <2>2, <2>3, <3>2 DEF RowInv, Branch, Following
        <4>3. BaseRead(i)'
          BY <1>0, <1>1, <2>1, <2>2, <2>3, <3>2
          DEF RowInv, BaseRead, Located, Reading, Following
        <4>4. Done(i)'
          BY <1>0, <1>1, <2>1, <2>2, <2>3, <3>2 DEF RowInv, Done, Merging, Pushed, InBase
        <4>5. QED
          BY <4>1, <4>2, <4>3, <4>4 DEF RowInv
      <3>4. QED
        BY <1>0, <1>1, <3>2, <3>3, CallOnly, OwnKept
    <2>4. CASE ~Contains(refs[Base], refs[i])
      <3>1. /\ run' = [run EXCEPT ![i].pc = "listing", ![i].base = refs[Base]] /\ UNCHANGED stage
            /\ Contains(refs[i], refs[Base])
        BY <1>6, <2>1, <2>4 DEF Judged
      <3>2. CallStep(i) /\ stage'[i] = "FINALIZING" /\ run'[i].pc = "listing"
            /\ run'[i].base = refs[Base]
        BY <1>0, <1>1, <3>1, ReadStep, CommitTypes DEF Steps
      <3>3. RowInv(i)'
        <4> USE DEF Contains, Head, Session, Legacy
        <4>1. Phase(i)' /\ Markers(i)'
          BY <1>0, <1>1, <1>2, <2>1, <2>2, <3>1, <3>2
          DEF RowInv, Phase, Markers, Released, Following, Merging, Publishing, Steps, Unsettled
        <4>2. Branch(i)'
          BY <1>0, <1>1, <1>2, <2>1, <2>2, <3>1, <3>2 DEF RowInv, Branch, Following
        <4>3. BaseRead(i)'
          BY <1>0, <1>1, <1>2, <2>1, <2>2, <3>1, <3>2
          DEF RowInv, BaseRead, Located, Reading, Following
        <4>4. Done(i)'
          BY <1>0, <1>1, <1>2, <2>1, <2>2, <3>1, <3>2 DEF RowInv, Done, Merging, Pushed, InBase
        <4>5. QED
          BY <4>1, <4>2, <4>3, <4>4 DEF RowInv
      <3>4. QED
        BY <1>0, <1>1, <3>2, <3>3, CallOnly, OwnKept
    <2>5. QED
      BY <2>3, <2>4
  <1>7. QED
    BY <1>3, <1>4, <1>5, <1>6

LEMMA ListCheckoutsKeeps ==
  ASSUME GitInv, NEW i \in Issues, ListCheckouts(i), TypeOK'
  PROVE  GitInv'
  <1> USE DEF At, Head, repository, history
  <1>0. TypeOK /\ CallTypes /\ SavedTypes /\ RowInv(i) /\ run[i] \in Calls
    BY DEF GitInv, TypeOK, CallTypes, Runs, Calls, SavedTypes
  <1>1. run[i].pc = "listing" /\ stage[i] = "FINALIZING"
        /\ UNCHANGED <<refs, remote, tree, saved, draft, accepted, misled, checkout>>
    BY <1>0 DEF ListCheckouts, TypeOK, Publishing, Steps
  <1>2. refs[i] # None /\ \A c \in refs[i] : c[1] = i \/ c \in refs[Base]
    BY <1>0, <1>1 DEF RowInv, Branch
  <1>3. CASE Fails(i)
    <2>1. CallStep(i) /\ run'[i].pc = "idle" /\ stage'[i] = "FAILED"
      BY <1>0, <1>3, FailsIn
    <2>2. RowInv(i)'
      BY <1>0, <1>1, <1>2, <2>1, QuietKept DEF Quiet
    <2>3. QED
      BY <1>0, <1>1, <2>1, <2>2, CallOnly, OwnKept
  <1>4. CASE ~Fails(i)
    <2> DEFINE p == checkout = Base
    <2>1. run' = [run EXCEPT ![i].pc = "advancing", ![i].path = p] /\ UNCHANGED stage
      BY <1>4 DEF ListCheckouts
    <2>2. p \in BOOLEAN /\ (p => checkout = Base)
      OBVIOUS
    <2> HIDE DEF p
    <2>3. /\ CallStep(i) /\ stage'[i] = "FINALIZING" /\ run'[i].pc = "advancing"
          /\ run'[i].base = run[i].base /\ run'[i].path = p
      BY <1>0, <1>1, <2>1, <2>2, ListedStep
    <2>4. RowInv(i)'
      <3> USE DEF Contains, Head, Session, Legacy
      <3>1. Phase(i)' /\ Markers(i)'
        BY <1>0, <1>1, <2>2, <2>3
        DEF RowInv, Phase, Markers, Released, Following, Merging, Publishing, Steps, Unsettled
      <3>2. Branch(i)'
        BY <1>0, <1>1, <2>2, <2>3 DEF RowInv, Branch, Following
      <3>3. BaseRead(i)'
        BY <1>0, <1>1, <2>2, <2>3
        DEF RowInv, BaseRead, Located, Reading, Following
      <3>4. Done(i)'
        BY <1>0, <1>1, <2>2, <2>3 DEF RowInv, Done, Merging, Pushed, InBase
      <3>5. QED
        BY <3>1, <3>2, <3>3, <3>4 DEF RowInv
    <2>5. QED
      BY <1>0, <1>1, <2>3, <2>4, CallOnly, OwnKept
  <1>5. QED
    BY <1>3, <1>4

LEMMA FastForwardGives ==
  ASSUME TypeOK, NEW i \in Issues, RowInv(i), run[i] \in Calls, run[i].pc = "advancing",
         Advances(i, Head(i), run[i].base, run[i].path), refs' = Advanced(Head(i), run[i].path)
  PROVE  /\ \A j \in Issues : refs'[j] = refs[j]
         /\ refs'[Base] = refs[Base] \/ (refs'[Base] = Head(i) /\ Contains(Head(i), refs[Base]))
         /\ i \in misled \/ Contains(refs'[Base], Head(i))
         /\ \A c \in refs'[Base] : c[1] = i \/ c \in refs[Base]
  <1> USE DEF Head
  <1>1. Contains(refs[i], run[i].base) /\ (run[i].path /\ checkout # Base => i \in misled)
    BY DEF RowInv, BaseRead, Following, Located
  <1>2. \A c \in refs[i] : c[1] = i \/ c \in refs[Base]
    BY DEF RowInv, Branch
  <1>3. refs[i] \in Commits /\ run[i].base \in Commits /\ run[i].path \in BOOLEAN
    BY CommitTypes DEF Calls
  <1>4. /\ \A j \in Issues : refs'[j] = refs[j]
        /\ refs'[Base] = refs[Base] \/ (refs'[Base] = refs[i] /\ Contains(refs[i], refs[Base]))
        /\ (run[i].path /\ checkout # Base) \/ Contains(refs'[Base], refs[i])
    BY <1>1, <1>3, AdvanceFacts
  <1>5. QED
    BY <1>1, <1>2, <1>4

LEMMA FastForwardKeeps ==
  ASSUME GitInv, NEW i \in Issues, FastForward(i), TypeOK'
  PROVE  GitInv'
  <1> USE DEF At, Head, repository, history
  <1>0. TypeOK /\ CallTypes /\ SavedTypes /\ RowInv(i) /\ run[i] \in Calls
    BY DEF GitInv, TypeOK, CallTypes, Runs, Calls, SavedTypes
  <1>1. run[i].pc = "advancing" /\ stage[i] = "FINALIZING"
        /\ UNCHANGED <<remote, tree, saved, draft, accepted, misled, checkout>>
    BY <1>0 DEF FastForward, TypeOK, Publishing, Steps
  <1>2. refs[i] # None /\ \A c \in refs[i] : c[1] = i \/ c \in refs[Base]
    BY <1>0, <1>1 DEF RowInv, Branch
  <1>3. CASE Fails(i) /\ UNCHANGED refs
    <2>1. CallStep(i) /\ run'[i].pc = "idle" /\ stage'[i] = "FAILED"
      BY <1>0, <1>3, FailsIn
    <2>2. RowInv(i)'
      BY <1>0, <1>1, <1>2, <1>3, <2>1, QuietKept DEF Quiet
    <2>3. QED
      BY <1>0, <1>1, <1>3, <2>1, <2>2, CallOnly, OwnKept
  <1>4. CASE BaseStale(i) /\ UNCHANGED refs
    <2>1. CallStep(i) /\ run'[i].pc = "idle" /\ stage'[i] = "REPAIRING"
      BY <1>0, <1>4, StaleIn
    <2>2. RowInv(i)'
      BY <1>0, <1>1, <1>2, <1>4, <2>1, QuietKept DEF Quiet
    <2>3. QED
      BY <1>0, <1>1, <1>4, <2>1, <2>2, CallOnly, OwnKept
  <1>5. CASE /\ Advances(i, refs[i], run[i].base, run[i].path)
             /\ refs' = Advanced(refs[i], run[i].path) /\ Goto(i, AfterMerge) /\ UNCHANGED stage
    <2>1. CallStep(i) /\ stage'[i] = "FINALIZING" /\ run'[i].pc \in {"pushing", "saving"}
          /\ (run'[i].pc = "saving" => ~PushToRemote)
      BY <1>0, <1>1, <1>5, GoesOn DEF AfterMerge, Steps
    <2>2. /\ \A j \in Issues : refs'[j] = refs[j]
          /\ Contains(refs'[Base], refs[Base])
          /\ i \in misled \/ Contains(refs'[Base], refs[i])
          /\ \A c \in refs'[Base] : c[1] = i \/ c \in refs[Base]
      BY <1>0, <1>1, <1>5, FastForwardGives DEF Contains
    <2>3. RowInv(i)'
      <3> USE DEF Contains, Head, Session, Legacy
      <3>1. Phase(i)' /\ Markers(i)'
        BY <1>0, <1>1, <1>2, <2>1, <2>2
        DEF RowInv, Phase, Markers, Released, Following, Merging, Publishing, Steps, Unsettled
      <3>2. Branch(i)'
        BY <1>0, <1>1, <1>2, <2>1, <2>2 DEF RowInv, Branch, Following
      <3>3. BaseRead(i)'
        BY <1>0, <1>1, <1>2, <2>1, <2>2
        DEF RowInv, BaseRead, Located, Reading, Following
      <3>4. Done(i)'
        BY <1>0, <1>1, <1>2, <2>1, <2>2 DEF RowInv, Done, Merging, Pushed, InBase
      <3>5. QED
        BY <3>1, <3>2, <3>3, <3>4 DEF RowInv
    <2>4. QED
      BY <1>0, <1>1, <2>1, <2>2, <2>3, BaseKept
  <1>6. QED
    BY <1>3, <1>4, <1>5 DEF FastForward

LEMMA PushKeeps ==
  ASSUME GitInv, NEW i \in Issues, Push(i), TypeOK'
  PROVE  GitInv'
  <1> USE DEF At, Head, repository, history
  <1>0. TypeOK /\ CallTypes /\ SavedTypes /\ RowInv(i) /\ run[i] \in Calls
    BY DEF GitInv, TypeOK, CallTypes, Runs, Calls, SavedTypes
  <1>1. run[i].pc = "pushing" /\ stage[i] = "FINALIZING"
        /\ UNCHANGED <<refs, tree, saved, draft, accepted, misled, checkout>>
    BY <1>0 DEF Push, TypeOK, Publishing, Steps
  <1>2. refs[i] # None /\ \A c \in refs[i] : c[1] = i \/ c \in refs[Base]
    BY <1>0, <1>1 DEF RowInv, Branch
  <1>3. CASE Fails(i) /\ UNCHANGED remote
    <2>1. CallStep(i) /\ run'[i].pc = "idle" /\ stage'[i] = "FAILED"
      BY <1>0, <1>3, FailsIn
    <2>2. RowInv(i)'
      BY <1>0, <1>1, <1>2, <1>3, <2>1, QuietKept DEF Quiet
    <2>3. QED
      BY <1>0, <1>1, <1>3, <2>1, <2>2, CallOnly, OwnKept
  <1>4. CASE /\ remote' = [remote EXCEPT ![i] = refs[i]]
             /\ Goto(i, IF Legacy(i) THEN "merging" ELSE "saving") /\ UNCHANGED stage
    <2>1. CallStep(i) /\ stage'[i] = "FINALIZING"
          /\ run'[i].pc = IF Legacy(i) THEN "merging" ELSE "saving"
      BY <1>0, <1>1, <1>4, GoesOn DEF Steps
    <2>2. remote'[i] = refs[i]
      BY <1>0, <1>4 DEF TypeOK
    <2>3. saved[i].info = None
      BY <1>0, <1>1 DEF RowInv, Phase, Publishing, Steps, Released
    <2>4. RowInv(i)'
      <3> USE DEF Contains, Head, Session, Legacy
      <3>1. Phase(i)' /\ Markers(i)'
        BY <1>0, <1>1, <2>1, <2>2, <2>3
        DEF RowInv, Phase, Markers, Released, Following, Merging, Publishing, Steps, Unsettled
      <3>2. Branch(i)'
        BY <1>0, <1>1, <2>1, <2>2, <2>3 DEF RowInv, Branch, Following
      <3>3. BaseRead(i)'
        BY <1>0, <1>1, <2>1, <2>2, <2>3
        DEF RowInv, BaseRead, Located, Reading, Following
      <3>4. Done(i)'
        BY <1>0, <1>1, <2>1, <2>2, <2>3 DEF RowInv, Done, Merging, Pushed, InBase
      <3>5. QED
        BY <3>1, <3>2, <3>3, <3>4 DEF RowInv
    <2>5. QED
      BY <1>0, <1>1, <1>4, <2>1, <2>4, CallOnly, OwnKept
  <1>5. QED
    BY <1>3, <1>4 DEF Push, PushFails

LEMMA SavePublishedKeeps ==
  ASSUME GitInv, NEW i \in Issues, SavePublished(i), TypeOK'
  PROVE  GitInv'
  <1> USE DEF At, Head, repository, history
  <1>0. TypeOK /\ CallTypes /\ SavedTypes /\ RowInv(i) /\ run[i] \in Calls
    BY DEF GitInv, TypeOK, CallTypes, Runs, Calls, SavedTypes
  <1>1. run[i].pc = "saving" /\ stage[i] = "FINALIZING"
        /\ UNCHANGED <<refs, remote, tree, draft, accepted, misled, checkout>>
    BY <1>0 DEF SavePublished, TypeOK, Publishing, Steps
  <1>2. refs[i] # None /\ \A c \in refs[i] : c[1] = i \/ c \in refs[Base]
    BY <1>0, <1>1 DEF RowInv, Branch
  <1>3. CallStep(i) /\ stage'[i] = "FINALIZING" /\ run'[i].pc = "releasing"
    BY <1>0, <1>1, GoesOn DEF SavePublished, Steps
  <1>4. /\ SavedElsewhere(i) /\ saved'[i].info = refs[i] /\ saved'[i].known = saved[i].known
        /\ saved'[i].recovery.kind = "none" /\ saved'[i].recovery.base = {}
    <2>1. refs[i] \in Commits
      BY <1>0, CommitTypes
    <2>2. NoRecovery.kind = "none" /\ NoRecovery.base = {}
      BY DEF NoRecovery, None
    <2>3. QED
      BY <1>0, <2>1, <2>2, PublishedFacts DEF SavePublished
  <1>5. RowInv(i)'
    <2> USE DEF Contains, Head, Session, Legacy
    <2>1. Phase(i)' /\ Markers(i)'
      BY <1>0, <1>1, <1>2, <1>3, <1>4
      DEF RowInv, Phase, Markers, Released, Following, Merging, Publishing, Steps, Unsettled
    <2>2. Branch(i)'
      BY <1>0, <1>1, <1>2, <1>3, <1>4 DEF RowInv, Branch, Following
    <2>3. BaseRead(i)'
      BY <1>0, <1>1, <1>2, <1>3, <1>4
      DEF RowInv, BaseRead, Located, Reading, Following
    <2>4. Done(i)'
      BY <1>0, <1>1, <1>2, <1>3, <1>4 DEF RowInv, Done, Merging, Pushed, InBase
    <2>5. QED
      BY <2>1, <2>2, <2>3, <2>4 DEF RowInv
  <1>6. QED
    BY <1>0, <1>1, <1>3, <1>4, <1>5, CallOnly, OwnKept

-----------------------------------------------------------------------------
(* The developer commits, switches the checkout and edits files in it.     *)
LEMMA DeveloperKeeps ==
  ASSUME GitInv, DeveloperCommits \/ DeveloperSwitches \/ DeveloperEdits, TypeOK'
  PROVE  GitInv'
  <1> USE DEF history
  <1>0. TypeOK /\ Developer \notin Issues /\ \A j \in Issues : j # Base
    BY RepositoryAssumption DEF GitInv
  <1>1. \A j \in Issues : RowSame(j)
    BY <1>0 DEF DeveloperCommits, DeveloperSwitches, DeveloperEdits, RowSame, TypeOK, Branches
  <1>2. \A j \in Issues : BaseGains(j)
    <2>1. refs' = refs \/ refs' = [refs EXCEPT ![Base] = NewCommit(Developer, @)]
      BY DEF DeveloperCommits, DeveloperSwitches, DeveloperEdits
    <2>2. refs'[Base] = refs[Base] \/ refs'[Base] = NewCommit(Developer, refs[Base])
      BY <1>0, <2>1 DEF TypeOK, Branches
    <2>3. QED
      BY <1>0, <2>2 DEF BaseGains, NewCommit, Contains
  <1>3. \A j \in Issues : Led(j)
    BY DEF DeveloperCommits, DeveloperSwitches, DeveloperEdits, Led
  <1>4. Contains(refs'[Base], refs[Base])
    <2>1. refs' = refs \/ refs' = [refs EXCEPT ![Base] = NewCommit(Developer, @)]
      BY DEF DeveloperCommits, DeveloperSwitches, DeveloperEdits
    <2>2. refs'[Base] = refs[Base] \/ refs'[Base] = NewCommit(Developer, refs[Base])
      BY <1>0, <2>1 DEF TypeOK, Branches
    <2>3. QED
      BY <2>2 DEF NewCommit, Contains
  <1>5. QED
    BY <1>1, <1>2, <1>3, <1>4, OtherKept DEF GitInv, Rooted, Contains

(* A file is left in a worktree, or the worktree goes.                     *)
LEMMA TouchedKeeps ==
  ASSUME GitInv, NEW i \in Issues, WorktreeTouched(i), TypeOK'
  PROVE  GitInv'
  <1> USE DEF repository, history
  <1>0. TypeOK /\ RowInv(i) /\ CallTypes
    BY DEF GitInv, TypeOK, CallTypes, Runs, Calls
  <1>1. UNCHANGED <<refs, remote, checkout, saved, stage, draft, run, accepted, misled>>
    BY DEF WorktreeTouched
  <1>2. /\ \E t : tree' = [tree EXCEPT ![i] = t]
        /\ \/ stage[i] \in {"REVIEW", "FINALIZING"} /\ tree[i] = "clean" /\ tree'[i] = "dirty"
           \/ stage[i] \in {"REVIEW", "FINALIZING"} /\ tree[i] = "resolved" /\ tree'[i] = "merging"
           \/ stage[i] = "PREPARING" /\ tree'[i] = "absent"
    BY <1>0 DEF WorktreeTouched, TypeOK
  <1>3. CallStep(i)
    BY <1>0, <1>1 DEF CallStep, CallTypes
  <1>4. RowInv(i)'
    <2> USE DEF Contains, Head, Session, Legacy
    <2>1. Phase(i)' /\ Markers(i)'
      BY <1>0, <1>1, <1>2
      DEF RowInv, Phase, Markers, Released, Following, Merging, Publishing, Steps, Unsettled
    <2>2. Branch(i)'
      BY <1>0, <1>1, <1>2 DEF RowInv, Branch, Following
    <2>3. BaseRead(i)'
      BY <1>0, <1>1, <1>2
      DEF RowInv, BaseRead, Located, Reading, Following
    <2>4. Done(i)'
      BY <1>0, <1>1, <1>2 DEF RowInv, Done, Merging, Pushed, InBase
    <2>5. QED
      BY <2>1, <2>2, <2>3, <2>4 DEF RowInv
  <1>5. QED
    BY <1>0, <1>1, <1>2, <1>3, <1>4, CallOnly, OwnKept

(* The process ends: no call is in progress, and what it had not prepared  *)
(* is to be prepared again.                                                *)
LEMMA CrashKeeps ==
  ASSUME GitInv, Crash, TypeOK'
  PROVE  GitInv'
  <1> USE DEF repository, history
  <1>1. UNCHANGED <<refs, remote, tree, checkout, saved, draft, accepted, misled>>
    BY DEF Crash
  <1>2. ASSUME NEW i \in Issues PROVE RowInv(i)'
    <2>0. RowInv(i)
      BY DEF GitInv
    <2>1. /\ run'[i].pc = "idle"
          /\ stage'[i] = stage[i] \/ (stage[i] = "UNPREPARED" /\ stage'[i] = "PREPARING")
      BY RestTypes DEF Crash
    <2> USE DEF Contains, Head, Session, Legacy
    <2>2. Phase(i)' /\ Markers(i)'
      BY <1>1, <2>0, <2>1
      DEF RowInv, Phase, Markers, Released, Following, Merging, Publishing, Steps, Unsettled
    <2>3. Branch(i)'
      BY <1>1, <2>0, <2>1 DEF RowInv, Branch, Following
    <2>4. BaseRead(i)'
      BY <1>1, <2>0, <2>1
      DEF RowInv, BaseRead, Located, Reading, Following
    <2>5. Done(i)'
      BY <1>1, <2>0, <2>1 DEF RowInv, Done, Merging, Pushed, InBase
    <2>6. QED
      BY <2>2, <2>3, <2>4, <2>5 DEF RowInv
  <1>3. QED
    BY <1>1, <1>2 DEF GitInv, Rooted

LEMMA InitKeeps == Init => GitInv
  <1> SUFFICES ASSUME Init PROVE GitInv
    OBVIOUS
  <1>1. TypeOK
    BY InitTypes
  <1>2. refs[Base] = Root /\ Rooted
    BY RepositoryAssumption DEF Init, InitialRefs, Branches, Root, Rooted
  <1>3. ASSUME NEW i \in Issues PROVE RowInv(i)
    <2>1. /\ run[i].pc = "idle" /\ saved[i].info = None
          /\ stage[i] = IF i \in LegacyIssues THEN "RECOVERING" ELSE "PREPARING"
      BY RestTypes DEF Init
    <2>2. refs[i] = IF i \in LegacyIssues THEN Root \cup {<<i, 1>>} ELSE None
      BY RepositoryAssumption DEF Init, InitialRefs, Branches
    <2>3. CASE i \in LegacyIssues
      <3>1. PICK kind \in [LegacyIssues -> {"conflict", "cleanup"}] :
              /\ saved = [j \in Issues |->
                   [known |-> j \in LegacyIssues, info |-> None,
                    recovery |-> IF j \in LegacyIssues THEN Recovery(j, kind[j], InitialRefs)
                                 ELSE NoRecovery]]
              /\ tree = [j \in Issues |->
                           CASE j \notin LegacyIssues -> "absent"
                             [] j \in LegacyIssues /\ kind[j] = "conflict" -> "merging"
                             [] OTHER -> "dirty"]
        BY DEF Init
      <3>2. /\ saved[i].recovery = Recovery(i, kind[i], InitialRefs)
            /\ tree[i] = IF kind[i] = "conflict" THEN "merging" ELSE "dirty"
        BY <2>3, <3>1
      <3>3. /\ Recovery(i, kind[i], InitialRefs).kind = kind[i]
            /\ Recovery(i, kind[i], InitialRefs).base = Root
            /\ Recovery(i, kind[i], InitialRefs).sealed = None
        BY DEF Recovery, NoRecovery
      <3>4. accepted[i] = refs[i] /\ refs[i] # None
            /\ \A c \in refs[i] : c[1] = i \/ c \in refs[Base]
        <4>1. refs = InitialRefs /\ accepted[i] = InitialRefs[i]
          BY <2>3 DEF Init
        <4>2. refs[i] = Root \cup {<<i, 1>>}
          BY <2>2, <2>3
        <4>3. ASSUME NEW c \in refs[i] PROVE c[1] = i \/ c \in refs[Base]
          <5>1. c \in Root \/ c = <<i, 1>>
            BY <4>2
          <5>2. QED
            BY <1>2, <5>1
        <4>4. refs[i] # None
          BY <4>2 DEF None
        <4>5. QED
          BY <4>1, <4>3, <4>4
      <3> USE DEF Contains, Head, Session, Legacy
      <3>5. Phase(i) /\ Markers(i)
        BY <2>1, <2>3, <3>2, <3>3
          DEF Phase, Markers, Released, Following, Merging, Publishing, Unsettled
      <3>6. Branch(i) /\ BaseRead(i) /\ Done(i)
        BY <1>2, <2>1, <2>3, <3>2, <3>3, <3>4
        DEF Branch, BaseRead, Done, Following, Reading, Merging, Located
      <3>7. QED
        BY <3>5, <3>6 DEF RowInv
    <2>4. CASE i \notin LegacyIssues
      <3>1. saved[i].recovery = NoRecovery /\ ~saved[i].known
        <4>1. \E kind : saved = [j \in Issues |->
                [known |-> j \in LegacyIssues, info |-> None,
                 recovery |-> IF j \in LegacyIssues THEN Recovery(j, kind[j], InitialRefs)
                              ELSE NoRecovery]]
          BY DEF Init
        <4>2. saved[i].recovery = NoRecovery
          BY <2>4, <4>1
        <4>3. saved[i].known = (i \in LegacyIssues)
          BY <4>1
        <4>4. QED
          BY <2>4, <4>2, <4>3
      <3>2. NoRecovery.kind = "none" /\ NoRecovery.base = {}
        BY DEF NoRecovery, None
      <3> USE DEF Contains, Head, Session, Legacy
      <3>3. Phase(i) /\ Markers(i)
        BY <2>1, <2>4, <3>1, <3>2
          DEF Phase, Markers, Released, Following, Merging, Publishing, Unsettled
      <3>4. Branch(i) /\ BaseRead(i) /\ Done(i)
        BY <2>1, <2>2, <2>4, <3>1, <3>2
        DEF Branch, BaseRead, Done, Following, Reading, Merging, Located, None
      <3>5. QED
        BY <3>3, <3>4 DEF RowInv
    <2>5. QED
      BY <2>3, <2>4
  <1>4. QED
    BY <1>1, <1>2, <1>3 DEF GitInv

(* A step keeps the invariant.                                             *)
LEMMA NextKeeps ==
  ASSUME GitInv, [Next]_vars
  PROVE  GitInv'
  <1>1. TypeOK'
    <2>1. CASE UNCHANGED vars
      BY <2>1 DEF GitInv, TypeOK, vars
    <2>2. CASE Next
      BY <2>2, EnvironmentTypes, WorkspaceTypes, HumanTypes, LegacyTypes, PublicationTypes
      DEF GitInv, Next, ProviderNext
    <2>3. QED
      BY <2>1, <2>2
  <1>2. CASE UNCHANGED vars
    <2>1. \A j \in Issues : RowSame(j) /\ BaseGains(j) /\ Led(j)
      BY <1>2 DEF vars, RowSame, BaseGains, Led, Contains
    <2>2. QED
      BY <1>1, <1>2, <2>1, OtherKept DEF GitInv, Rooted, vars
  <1>3. CASE EnvironmentNext
    BY <1>1, <1>3, DeveloperKeeps, TouchedKeeps, CrashKeeps DEF EnvironmentNext
  <1>4. CASE \E i \in Issues : ProviderNext(i)
    <2>1. PICK i \in Issues : ProviderNext(i)
      BY <1>4
    <2>2. CASE WorkspaceNext(i)
      BY <1>1, <2>2, AddWorktreeKeeps, SaveAcquiredKeeps, ReacquireKeeps, CompleteAcquireKeeps,
         ObserveRepairKeeps, AgentDeliversKeeps, AgentAsksKeeps, ReleaseKeeps, CompleteReleaseKeeps
      DEF WorkspaceNext
    <2>3. CASE LegacyNext(i)
      BY <1>1, <2>3, RecoverKeeps, PublishLegacyKeeps, SaveSealedKeeps, MergeLegacyKeeps,
         AttemptMergeKeeps, UpdateBaseKeeps
      DEF LegacyNext
    <2>4. CASE Publish(i) \/ ListCheckouts(i) \/ FastForward(i) \/ Push(i) \/ SavePublished(i)
      BY <1>1, <2>4, PublishKeeps, ListCheckoutsKeeps, FastForwardKeeps, PushKeeps,
         SavePublishedKeeps
    <2>5. QED
      BY <2>1, <2>2, <2>3, <2>4 DEF ProviderNext
  <1>5. CASE \E i \in Issues : HumanNext(i)
    BY <1>1, <1>5, HumanKeeps
  <1>6. QED
    BY <1>2, <1>3, <1>4, <1>5 DEF Next

THEOREM Invariance == Spec => []GitInv
  <1>1. Init => GitInv
    BY InitKeeps
  <1>2. GitInv /\ [Next]_vars => GitInv'
    BY NextKeeps
  <1>3. QED
    BY <1>1, <1>2, PTL DEF Spec

(* What is recorded as published is in the base branch, unless the         *)
(* checkout was switched under it, and at the remote; and an Issue is      *)
(* completed only then, without a clean worktree left behind.              *)
THEOREM Published == Spec => []PublishedEverywhere
  <1>1. GitInv => PublishedEverywhere
    BY DEF GitInv, RowInv, Done, Phase, PublishedEverywhere
  <1>2. QED
    BY <1>1, Invariance, PTL

-----------------------------------------------------------------------------
(* A step of an Issue moves only that Issue's stage and branch, and the    *)
(* base or the developer's branch; from FINALIZING only a stale base sends *)
(* it back to a Repair.                                                    *)
LEMMA StageEntered ==
  ASSUME NEW i \in Issues, ProviderNext(i) \/ HumanNext(i)
  PROVE  UNCHANGED stage \/ \E s : Enter(i, s)
  <1>1. CASE WorkspaceNext(i)
    BY <1>1 DEF WorkspaceNext, AddWorktree, SaveAcquired, Reacquire, CompleteAcquire, ObserveRepair,
                AgentDelivers, AgentAsks, Release, CompleteRelease, Fails
  <1>2. CASE Recover(i)
    BY <1>2 DEF Recover, RecoverConflict, RecoverGenerated
  <1>3. CASE PublishLegacy(i)
    BY <1>3 DEF PublishLegacy, Seal, CommitAll, Fails
  <1>4. CASE SaveSealed(i) \/ MergeLegacy(i) \/ AttemptMerge(i) \/ UpdateBase(i)
    BY <1>4 DEF SaveSealed, MergeLegacy, AttemptMerge, UpdateBase, AttemptFails, Fails
  <1>5. CASE Publish(i) \/ ListCheckouts(i) \/ FastForward(i) \/ Push(i) \/ SavePublished(i)
    BY <1>5 DEF Publish, PublishedAlready, Judged, BaseStale, ListCheckouts, FastForward, Push,
                PushFails, SavePublished, Fails
  <1>6. CASE HumanNext(i)
    BY <1>6 DEF HumanNext, Decide, Accept, Reject, RetryRepair
  <1>7. QED
    BY <1>1, <1>2, <1>3, <1>4, <1>5, <1>6 DEF ProviderNext, LegacyNext

LEMMA SentBack ==
  ASSUME GitInv, NEW i \in Issues, ProviderNext(i) \/ HumanNext(i),
         stage[i] = "FINALIZING", stage'[i] = "REPAIRING"
  PROVE  Publish(i) \/ FastForward(i)
  <1> USE EnterFacts DEF At, Fails, Stages
  <1>0. /\ stage \in [Issues -> Stages] /\ run[i].pc \notin {"acquired", "repairing"}
        /\ \A s \in Stages : Enter(i, s) => stage'[i] = s
    BY DEF GitInv, TypeOK, RowInv, Phase
  <1>1. ~WorkspaceNext(i)
    BY <1>0 DEF WorkspaceNext, AddWorktree, SaveAcquired, Reacquire, CompleteAcquire, ObserveRepair,
                AgentDelivers, AgentAsks, Release, CompleteRelease
  <1>2. ~Recover(i)
    BY DEF Recover
  <1>3. ~PublishLegacy(i)
    BY <1>0 DEF PublishLegacy, Seal, CommitAll
  <1>4. ~(SaveSealed(i) \/ MergeLegacy(i) \/ AttemptMerge(i) \/ UpdateBase(i))
    BY <1>0 DEF SaveSealed, MergeLegacy, AttemptMerge, UpdateBase, AttemptFails
  <1>5. ~(ListCheckouts(i) \/ Push(i) \/ SavePublished(i))
    BY <1>0 DEF ListCheckouts, Push, PushFails, SavePublished
  <1>6. ~HumanNext(i)
    BY DEF HumanNext, Decide, Accept, Reject, RetryRepair, Rests
  <1>7. QED
    BY <1>1, <1>2, <1>3, <1>4, <1>5, <1>6 DEF ProviderNext, LegacyNext

(* Then the base has a commit the delivery lacks: of a fast-forward that   *)
(* was overtaken, one that came since the base was read, and it is not the *)
(* Issue's own.                                                            *)
LEMMA StaleReal ==
  ASSUME GitInv, NEW i \in Issues, Publish(i) \/ FastForward(i),
         stage[i] = "FINALIZING", stage'[i] = "REPAIRING"
  PROVE  ~Contains(draft[i].commit, refs[Base])
  <1> USE DEF At, Head
  <1>0. stage \in [Issues -> Stages] /\ RowInv(i) /\ (Enter(i, "FAILED") => stage'[i] = "FAILED")
    BY EnterFacts DEF GitInv, TypeOK, Stages
  <1>1. CASE Publish(i)
    BY <1>0, <1>1 DEF Publish, PublishedAlready, NotPublishable, Judged, Fails
  <1>2. CASE FastForward(i)
    <2>1. /\ run[i].pc = "advancing"
          /\ ~Advances(i, refs[i], run[i].base, run[i].path) /\ FastForwardStale(i)
      BY <1>0, <1>2 DEF FastForward, Fails
    <2>2. refs[Base] # run[i].base
      BY <2>1 DEF FastForwardStale, Advances
    <2>3. /\ draft[i].commit = refs[i] /\ Contains(refs[Base], run[i].base)
          /\ \A c \in refs[i] : c[1] = i \/ c \in run[i].base
          /\ \A c \in refs[Base] : c[1] = i => c \in run[i].base
      BY <1>0, <2>1 DEF RowInv, Branch, BaseRead, Following, Reading
    <2>4. PICK c \in refs[Base] : c \notin run[i].base
      BY <2>2, <2>3 DEF Contains
    <2>5. c \notin refs[i]
      BY <2>3, <2>4
    <2>6. QED
      BY <2>3, <2>5 DEF Contains
  <1>3. QED
    BY <1>1, <1>2

(* A merge with markers in it is committed by the Agent or by nobody.      *)
LEMMA MarkersKept ==
  ASSUME GitInv, NEW i \in Issues, NEW j \in Issues, ProviderNext(i) \/ HumanNext(i)
  PROVE  MarkersStay(j)
  <1> USE DEF At, Head, repository, history
  <1>0. TypeOK /\ RowInv(i) /\ run[i] \in Calls
    BY DEF GitInv, TypeOK, Calls
  <1> SUFFICES ASSUME tree[j] = "merging", refs'[j] # refs[j] PROVE run[j].pc = "repairing"
    BY DEF MarkersStay
  <1>1. CASE WorkspaceNext(i)
    <2>1. \/ AgentDelivers(i) /\ \E r : refs' = [refs EXCEPT ![i] = r]
          \/ tree[i] = "absent" /\ \E r : refs' = [refs EXCEPT ![i] = r]
      BY <1>1 DEF WorkspaceNext, AddWorktree, SaveAcquired, Reacquire, CompleteAcquire,
                  ObserveRepair, AgentDelivers, AgentWorked, AgentAsks, Release, CompleteRelease
    <2>2. j = i
      BY <1>0, <2>1 DEF TypeOK, Branches
    <2>3. QED
      BY <2>1, <2>2 DEF AgentDelivers
  <1>2. CASE PublishLegacy(i)
    <2>1. \E q : CommitWorktree(i, q)
      BY <1>2 DEF PublishLegacy, Seal, CommitAll
    <2>2. j = i
      BY <1>0, <2>1 DEF CommitWorktree, TypeOK, Branches
    <2>3. ~Seal(i)
      BY <2>2 DEF Seal, Sealable, Resolved
    <2>4. CommitAll(i) /\ stage[i] = "FINALIZING"
      BY <1>2, <2>3 DEF PublishLegacy
    <2>5. QED
      BY <1>0, <2>2, <2>4 DEF CommitAll, RowInv, Markers, Unsettled
  <1>3. CASE UpdateBase(i)
    BY <1>0, <1>3, UpdateBaseGives DEF UpdateBase
  <1>4. CASE FastForward(i)
    BY <1>0, <1>4, FastForwardGives DEF FastForward
  <1>5. CASE Recover(i) \/ SaveSealed(i) \/ MergeLegacy(i) \/ AttemptMerge(i)
    BY <1>5 DEF Recover, SaveSealed, MergeLegacy, AttemptMerge
  <1>6. CASE Publish(i) \/ ListCheckouts(i) \/ Push(i) \/ SavePublished(i) \/ HumanNext(i)
    BY <1>6 DEF Publish, ListCheckouts, Push, SavePublished, HumanNext, Decide, Accept, Reject,
                RetryRepair
  <1>7. QED
    BY <1>1, <1>2, <1>3, <1>4, <1>5, <1>6 DEF ProviderNext, LegacyNext

(* What the provider decides alone it decides rightly: a delivery it sends *)
(* back as stale lacks a commit of the base, and a merge that is not       *)
(* resolved gets into none of its commits.                                 *)
THEOREM Decides == Spec => DecidesRightly
  <1> DEFINE Right == \A i \in Issues : StaleIsReal(i) /\ MarkersStay(i)
  <1>1. ASSUME GitInv, [Next]_vars PROVE [Right]_vars
    <2>1. CASE UNCHANGED vars
      BY <2>1
    <2>2. CASE EnvironmentNext
      <3>1. \A j \in Issues : refs'[j] = refs[j]
        BY <1>1, <2>2, RepositoryAssumption
        DEF EnvironmentNext, DeveloperCommits, DeveloperSwitches, DeveloperEdits, Crash,
            WorktreeTouched, repository, GitInv, TypeOK, Branches
      <3>2. \A j \in Issues : stage[j] = "FINALIZING" => stage'[j] = "FINALIZING"
        BY <2>2 DEF EnvironmentNext, DeveloperCommits, DeveloperSwitches, DeveloperEdits, Crash,
                    WorktreeTouched, history
      <3>3. QED
        BY <3>1, <3>2 DEF StaleIsReal, MarkersStay, Head
    <2>3. ASSUME NEW i \in Issues, ProviderNext(i) \/ HumanNext(i), NEW j \in Issues
          PROVE  StaleIsReal(j) /\ MarkersStay(j)
      <3>1. stage \in [Issues -> Stages]
        BY <1>1 DEF GitInv, TypeOK
      <3>2. j # i => stage'[j] = stage[j]
        BY <2>3, <3>1, StageEntered DEF Enter
      <3>3. StaleIsReal(j)
        BY <1>1, <2>3, <3>2, SentBack, StaleReal DEF StaleIsReal
      <3>4. QED
        BY <1>1, <2>3, <3>3, MarkersKept
    <2>4. QED
      BY <1>1, <2>1, <2>2, <2>3 DEF Next
  <1> HIDE DEF Right
  <1>2. [][Right]_vars => DecidesRightly
    BY PTL DEF Right, DecidesRightly
  <1>3. QED
    BY <1>1, <1>2, Invariance, PTL DEF Spec

-----------------------------------------------------------------------------
(* The refinement: a step of publication is one of DeliveredBase, or none. *)
LEMMA Stutters ==
  ASSUME refs'[Base] = refs[Base], UNCHANGED <<accepted, misled>>,
         \A i \in Issues : saved'[i].info = saved[i].info
  PROVE  UNCHANGED Delivery!vars
  BY DEF Delivery!vars

LEMMA DeveloperRefines ==
  ASSUME TypeOK, DeveloperCommits
  PROVE  Delivery!DeveloperCommits
  <1>1. refs'[Base] = NewCommit(Developer, refs[Base])
    BY DEF DeveloperCommits, TypeOK, Branches
  <1>2. UNCHANGED <<accepted, saved, misled>>
    BY DEF DeveloperCommits, history
  <1>3. QED
    BY <1>1, <1>2 DEF Delivery!DeveloperCommits, NewCommit

LEMMA SwitchRefines ==
  ASSUME TypeOK, DeveloperSwitches
  PROVE  Delivery!Mislead
  BY DEF TypeOK, DeveloperSwitches, Delivery!Mislead

LEMMA AcceptRefines ==
  ASSUME TypeOK, NEW i \in Issues, Accept(i)
  PROVE  Delivery!Accept(i)
  BY DEF TypeOK, Accept, repository, Delivery!Accept

LEMMA CommitRefines ==
  ASSUME TypeOK, NEW i \in Issues, NEW q, CommitWorktree(i, q), UNCHANGED <<saved, misled>>
  PROVE  Delivery!Accept(i)
  BY RepositoryAssumption DEF TypeOK, Branches, CommitWorktree, Delivery!Accept

LEMMA FastForwardRefines ==
  ASSUME GitInv, NEW i \in Issues, FastForward(i)
  PROVE  Delivery!Deliver(i) \/ UNCHANGED Delivery!vars
  <1> USE DEF At, Head
  <1>1. TypeOK /\ RowInv(i) /\ run[i] \in Calls /\ run[i].pc = "advancing"
        /\ UNCHANGED <<accepted, saved, misled>>
    BY DEF GitInv, TypeOK, Calls, FastForward, history
  <1>2. refs'[Base] = refs[Base] \/ (refs'[Base] = refs[i] /\ Contains(refs[i], refs[Base]))
    BY <1>1, FastForwardGives DEF FastForward
  <1>3. accepted[i] = refs[i] /\ refs[i] # {}
    BY <1>1 DEF TypeOK, Publishing, Steps, RowInv, Branch, None
  <1>4. QED
    BY <1>1, <1>2, <1>3 DEF Delivery!Deliver, Delivery!vars, Contains

LEMMA UpdateBaseRefines ==
  ASSUME GitInv, NEW i \in Issues, UpdateBase(i)
  PROVE  Delivery!Deliver(i) \/ UNCHANGED Delivery!vars
  <1> USE DEF At, Head
  <1>1. TypeOK /\ RowInv(i) /\ run[i] \in Calls /\ run[i].pc = "updating"
        /\ UNCHANGED <<accepted, saved, misled>>
    BY DEF GitInv, TypeOK, Calls, UpdateBase, history
  <1>2. \/ refs'[Base] = refs[Base]
        \/ refs'[Base] = run[i].result /\ Contains(run[i].result, refs[Base])
    BY <1>1, UpdateBaseGives DEF UpdateBase
  <1>3. /\ accepted[i] = refs[i] /\ i \in LegacyIssues
        /\ Contains(run[i].result, refs[i] \cup run[i].base) /\ Contains(refs[Base], run[i].base)
        /\ \A c \in run[i].result : c[1] = i \/ c \in refs[i] \cup run[i].base
    BY <1>1 DEF TypeOK, Publishing, Steps, RowInv, Branch, Phase, Merging, BaseRead, Reading
  <1>4. QED
    BY <1>1, <1>2, <1>3 DEF Delivery!Deliver, Delivery!vars, Contains

LEMMA PublishedRefines ==
  ASSUME GitInv, NEW i \in Issues, SavePublished(i)
  PROVE  Delivery!Publish(i)
  <1> USE DEF At, Head
  <1>1. TypeOK /\ SavedTypes /\ RowInv(i) /\ run[i].pc = "saving" /\ stage[i] = "FINALIZING"
        /\ UNCHANGED <<refs, accepted, misled>>
    BY DEF GitInv, TypeOK, SavedTypes, SavePublished, repository, history, Publishing, Steps
  <1>2. /\ accepted[i] = refs[i] /\ saved[i].info = {}
        /\ Contains(refs[Base], refs[i]) \/ i \in misled
    BY <1>1 DEF RowInv, Branch, Phase, Publishing, Steps, Released, Done, InBase, None
  <1>3. SavedElsewhere(i) /\ saved'[i].info = refs[i]
    BY <1>1, CommitTypes, PublishedFacts DEF SavePublished
  <1>4. [j \in Issues |-> saved'[j].info]
          = [[j \in Issues |-> saved[j].info] EXCEPT ![i] = accepted[i]]
    BY <1>2, <1>3 DEF SavedElsewhere
  <1>5. QED
    BY <1>1, <1>2, <1>4 DEF Delivery!Publish, Contains

(* Whatever else a step does, DeliveredBase does not see it.               *)
LEMMA OthersStutter ==
  ASSUME TypeOK, NEW i \in Issues,
         \/ WorkspaceNext(i) \/ Publish(i) \/ ListCheckouts(i) \/ Push(i)
         \/ Recover(i) \/ SaveSealed(i) \/ MergeLegacy(i) \/ AttemptMerge(i)
         \/ Decide(i) \/ Reject(i) \/ RetryRepair(i)
  PROVE  UNCHANGED Delivery!vars
  <1> USE DEF repository, history, Head
  <1>1. UNCHANGED <<accepted, misled>>
    BY DEF WorkspaceNext, AddWorktree, SaveAcquired, Reacquire, CompleteAcquire, ObserveRepair,
           AgentDelivers, AgentAsks, Release, CompleteRelease, Publish, ListCheckouts, Push,
           Recover, SaveSealed, MergeLegacy, AttemptMerge, Decide, Reject, RetryRepair
  <1>2. UNCHANGED refs \/ \E r : refs' = [refs EXCEPT ![i] = r]
    BY DEF WorkspaceNext, AddWorktree, SaveAcquired, Reacquire, CompleteAcquire, ObserveRepair,
           AgentDelivers, AgentWorked, AgentAsks, Release, CompleteRelease, Publish, ListCheckouts,
           Push, Recover, SaveSealed, MergeLegacy, AttemptMerge, Decide, Reject, RetryRepair
  <1>3. refs'[Base] = refs[Base]
    BY <1>2, RepositoryAssumption DEF TypeOK, Branches
  <1>4. \/ UNCHANGED saved \/ BindRecoveryDelivery(i)
        \/ saved' = [saved EXCEPT ![i].known = TRUE]
        \/ saved' = [saved EXCEPT ![i].recovery.sealed = refs[i]]
    BY DEF WorkspaceNext, AddWorktree, SaveAcquired, Reacquire, CompleteAcquire, ObserveRepair,
           AgentDelivers, AgentAsks, Release, CompleteRelease, Publish, ListCheckouts, Push,
           Recover, RecoverConflict, RecoverGenerated, SaveSealed, MergeLegacy, AttemptMerge,
           Decide, Reject, RetryRepair
  <1>5. \A j \in Issues : saved'[j].info = saved[j].info
    <2>0. SavedTypes /\ refs[i] \in Commits
      BY CommitTypes DEF TypeOK, SavedTypes
    <2>1. CASE BindRecoveryDelivery(i) \/ saved' = [saved EXCEPT ![i].recovery.sealed = refs[i]]
      BY <2>0, <2>1, BoundFacts, SealedFacts DEF SavedElsewhere
    <2>2. CASE saved' = [saved EXCEPT ![i].known = TRUE]
      BY <2>0, <2>2 DEF SavedTypes, SavedStates
    <2>3. QED
      BY <1>4, <2>1, <2>2
  <1>6. QED
    BY <1>1, <1>3, <1>5, Stutters

(* Publication implements what it promises: the base branch only gains the *)
(* developer's commits and accepted deliveries, whole, and an Issue is     *)
(* published once, with what was accepted, when the base has it.           *)
THEOREM Refinement == Spec => Delivers
  <1>1. Init => Delivery!Init
    <2> SUFFICES ASSUME Init PROVE Delivery!Init
      OBVIOUS
    <2>1. refs[Base] = {<<Developer, 0>>}
      BY RepositoryAssumption DEF Init, InitialRefs, Branches, Root
    <2>2. \A i \in Issues : saved[i].info = {}
      BY DEF Init, None
    <2>3. misled = {} /\ \A i \in Issues \ LegacyIssues : accepted[i] = {}
      BY DEF Init, None
    <2>4. QED
      BY <2>1, <2>2, <2>3 DEF Delivery!Init
  <1>2. ASSUME GitInv, [Next]_vars PROVE [Delivery!Next]_(Delivery!vars)
    <2>0. TypeOK
      BY <1>2 DEF GitInv
    <2>1. CASE UNCHANGED vars
      BY <2>1, Stutters DEF vars
    <2>2. CASE EnvironmentNext
      <3>1. CASE DeveloperCommits
        BY <2>0, <3>1, DeveloperRefines DEF Delivery!Next
      <3>2. CASE DeveloperSwitches
        BY <2>0, <3>2, SwitchRefines DEF Delivery!Next
      <3>3. CASE DeveloperEdits \/ Crash \/ \E i \in Issues : WorktreeTouched(i)
        BY <3>3, Stutters DEF DeveloperEdits, Crash, WorktreeTouched, repository
      <3>4. QED
        BY <2>2, <3>1, <3>2, <3>3 DEF EnvironmentNext
    <2>3. ASSUME NEW i \in Issues, ProviderNext(i) \/ HumanNext(i)
          PROVE  [Delivery!Next]_(Delivery!vars)
      <3>1. CASE Accept(i)
        BY <2>0, <3>1, AcceptRefines DEF Delivery!Next
      <3>2. CASE PublishLegacy(i)
        <4>1. CASE \E q : CommitWorktree(i, q)
          BY <2>0, <3>2, <4>1, CommitRefines DEF PublishLegacy, Delivery!Next
        <4>2. CASE UNCHANGED <<refs, made, tree, accepted>>
          BY <3>2, <4>2, Stutters DEF PublishLegacy
        <4>3. QED
          BY <3>2, <4>1, <4>2 DEF PublishLegacy, Seal, CommitAll
      <3>3. CASE FastForward(i) \/ UpdateBase(i)
        BY <1>2, <3>3, FastForwardRefines, UpdateBaseRefines DEF Delivery!Next
      <3>4. CASE SavePublished(i)
        BY <1>2, <3>4, PublishedRefines DEF Delivery!Next
      <3>5. QED
        BY <2>0, <2>3, <3>1, <3>2, <3>3, <3>4, OthersStutter DEF ProviderNext, LegacyNext, HumanNext
    <2>4. QED
      BY <1>2, <2>1, <2>2, <2>3 DEF Next
  <1>3. QED
    BY <1>1, <1>2, Invariance, PTL DEF Spec, Delivers, Delivery!Spec

=============================================================================
