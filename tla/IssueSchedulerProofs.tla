------------------------ MODULE IssueSchedulerProofs ------------------------
(***************************************************************************)
(* What holds of the pump for any number of Issues, slots and operations:  *)
(* the slots are used as far as they can be, and drain returns only when   *)
(* the pump is at rest.                                                    *)
(***************************************************************************)
EXTENDS IssueScheduler, FiniteSetTheorems, TLAPS

-----------------------------------------------------------------------------
(* The first issues of a set.                                              *)

Before(eligible, i) == {j \in eligible : j < i}

(* How many issues come before an issue numbers the issues of a set from   *)
(* zero, and leaves out no number.                                         *)
LEMMA RanksAreNumbers ==
  ASSUME NEW eligible \in SUBSET Nat, IsFiniteSet(eligible)
  PROVE  LET rank == [i \in eligible |-> Cardinality(Before(eligible, i))]
             all  == 0 .. Cardinality(eligible) - 1
         IN  rank \in Bijection(eligible, all)
<1> DEFINE rank == [i \in eligible |-> Cardinality(Before(eligible, i))]
           all  == 0 .. Cardinality(eligible) - 1
<1>1. Cardinality(eligible) \in Nat
  BY FS_CardinalityType
<1>2. ASSUME NEW i \in eligible
      PROVE  /\ Cardinality(Before(eligible, i)) \in Nat
             /\ Cardinality(Before(eligible, i)) < Cardinality(eligible)
  <2>1. Before(eligible, i) \in SUBSET eligible
    BY DEF Before
  <2>2. i \notin Before(eligible, i)
    BY DEF Before
  <2>3. IsFiniteSet(Before(eligible, i))
    BY <2>1, FS_Subset
  <2>4. Cardinality(Before(eligible, i)) \in Nat
    BY <2>3, FS_CardinalityType
  <2> QED
    BY <1>1, <2>1, <2>2, <2>4, FS_Subset
<1>3. rank \in [eligible -> all]
  BY <1>1, <1>2
<1>4. ASSUME NEW i \in eligible, NEW k \in eligible, i < k
      PROVE  Cardinality(Before(eligible, i)) < Cardinality(Before(eligible, k))
  <2>1. Before(eligible, k) \in SUBSET eligible
    BY DEF Before
  <2>2. IsFiniteSet(Before(eligible, k))
    BY <2>1, FS_Subset
  <2>3. Before(eligible, i) \in SUBSET Before(eligible, k)
    <3>1. ASSUME NEW j \in eligible, j < i
          PROVE  j < k
      BY <1>4, <3>1
    <3> QED
      BY <3>1, Zenon DEF Before
  <2>4. i \in Before(eligible, k) /\ i \notin Before(eligible, i)
    BY <1>4 DEF Before
  <2> QED
    BY <1>2, <2>2, <2>3, <2>4, FS_Subset
<1>5. rank \in Injection(eligible, all)
  <2>1. ASSUME NEW i \in eligible, NEW k \in eligible, rank[i] = rank[k]
        PROVE  i = k
    BY <1>2, <1>4, <2>1
  <2> QED
    BY <1>3, <2>1 DEF Injection, IsInjective
<1>6. IsFiniteSet(all) /\ Cardinality(all) = Cardinality(eligible)
  <2>1. 0 \in Int /\ Cardinality(eligible) - 1 \in Int
    BY <1>1
  <2>2. /\ IsFiniteSet(all)
        /\ Cardinality(all) = IF 0 > Cardinality(eligible) - 1 THEN 0
                              ELSE Cardinality(eligible) - 1 - 0 + 1
    BY <2>1, FS_Interval
  <2> QED
    BY <1>1, <2>2
<1>7. rank \in Surjection(eligible, all)
  BY <1>5, <1>6, FS_Injection
<1> QED
  BY <1>5, <1>7 DEF Bijection

(* With n slots the first issues fill the slots, unless all issues fit.    *)
LEMMA FirstOfFillsSlots ==
  ASSUME NEW eligible \in SUBSET Nat, IsFiniteSet(eligible), NEW n \in Nat
  PROVE  /\ FirstOf(eligible, n) \in SUBSET eligible
         /\ IsFiniteSet(FirstOf(eligible, n))
         /\ Cardinality(FirstOf(eligible, n)) \in Nat
         /\ Cardinality(FirstOf(eligible, n)) <= n
         /\ Cardinality(FirstOf(eligible, n)) = n \/ FirstOf(eligible, n) = eligible
<1> DEFINE first == FirstOf(eligible, n)
           rank  == [i \in eligible |-> Cardinality(Before(eligible, i))]
           all   == 0 .. Cardinality(eligible) - 1
<1>1. first = {i \in eligible : rank[i] < n}
  BY DEF FirstOf, Before
<1>2. rank \in Bijection(eligible, all)
  BY RanksAreNumbers
<1>3. first \in SUBSET eligible
  BY <1>1
<1>4. IsFiniteSet(first) /\ Cardinality(first) <= Cardinality(eligible)
  BY <1>3, FS_Subset
<1>5. Cardinality(first) \in Nat /\ Cardinality(eligible) \in Nat
  BY <1>4, FS_CardinalityType
<1>6. /\ rank \in [eligible -> all]
      /\ \A i, k \in eligible : rank[i] = rank[k] => i = k
      /\ \A m \in all : \E i \in eligible : rank[i] = m
  BY <1>2 DEF Bijection, Injection, IsInjective, Surjection
<1>7. \A i \in eligible : rank[i] \in Nat /\ rank[i] < Cardinality(eligible)
  <2>1. \A i \in eligible : rank[i] \in all
    BY <1>6
  <2> QED
    BY <1>5, <2>1
<1>8. \A i : i \in first <=> i \in eligible /\ rank[i] < n
  BY <1>1, Zenon
<1> HIDE DEF first, rank
<1>9. CASE Cardinality(eligible) <= n
  <2>1. \A i \in eligible : rank[i] < n
    BY <1>5, <1>9, <1>7
  <2>2. first = eligible
    BY <1>8, <2>1, Zenon
  <2> QED
    BY <1>3, <1>4, <1>5, <1>9, <2>2 DEF first
<1>10. CASE n < Cardinality(eligible)
  <2> DEFINE slots == 0 .. n - 1
             taken == [i \in first |-> rank[i]]
  <2>1. \A i \in first : i \in eligible /\ rank[i] \in slots
    <3>1. TAKE i \in first
    <3>2. i \in eligible /\ rank[i] < n
      BY <1>8, Zenon
    <3>3. rank[i] \in Nat
      BY <1>7, <3>2
    <3> QED
      BY <3>2, <3>3
  <2>2. taken \in [first -> slots]
    BY <2>1
  <2>3. \A m \in slots : \E i \in first : taken[i] = m
    <3>1. TAKE m \in slots
    <3>2. PICK i \in eligible : rank[i] = m
      BY <1>5, <1>6, <1>10
    <3> QED
      BY <1>8, <3>2
  <2>4. taken \in Bijection(first, slots)
    BY <1>3, <1>6, <2>2, <2>3 DEF Bijection, Injection, IsInjective, Surjection
  <2>5. Cardinality(slots) = n
    <3>1. 0 \in Int /\ n - 1 \in Int
      OBVIOUS
    <3>2. Cardinality(slots) = IF 0 > n - 1 THEN 0 ELSE n - 1 - 0 + 1
      BY <3>1, FS_Interval
    <3> QED
      BY <3>2
  <2>6. Cardinality(slots) = Cardinality(first)
    BY <1>4, <2>4, FS_Bijection DEF ExistsBijection
  <2> QED
    BY <1>3, <1>4, <1>5, <2>5, <2>6 DEF first
<1> QED
  BY <1>5, <1>9, <1>10

-----------------------------------------------------------------------------
(* The inductive invariant.                                                *)

(* A pump that does not wait has nothing in its map, and one that has      *)
(* ended, or ends without another kick, leaves pending only what failed.   *)
PumpRests ==
  /\ pump # "waiting" => InMap = {}
  /\ accepting /\ (pump = "none" \/ (pump = "ending" /\ ~wakeRequested)) =>
       pending \subseteq failedInPump

IInv == TypeOK /\ WorkConserving /\ PumpRests

(* A new pump knows of nothing.                                            *)
LEMMA InitialInvariant == Init => IInv
<1> SUFFICES ASSUME Init PROVE IInv
  OBVIOUS
<1>1. TypeOK
  BY SchedulerAssumption DEF Init, TypeOK
<1>2. InMap = {}
  BY DEF Init, InMap
<1>3. Cardinality(InMap) <= MaxConcurrentIssues
  BY <1>2, FS_EmptySet, SchedulerAssumption
<1>4. WorkConserving
  BY <1>3 DEF Init, WorkConserving
<1>5. PumpRests
  BY <1>2 DEF Init, PumpRests
<1> QED
  BY <1>1, <1>4, <1>5 DEF IInv

(* What a round leaves behind, whatever settled before it: it fills the    *)
(* slots with what could be started, and ends only when there is nothing.  *)
LEMMA RoundFillsSlots ==
  ASSUME TypeOK,
         NEW failed \in SUBSET Issues,
         NEW current \in [Issues -> {"no", "running", "ok", "failed"}],
         Cardinality({i \in Issues : current[i] # "no"}) <= MaxConcurrentIssues,
         Round(failed, current), accepting' = accepting, drainer' = drainer
  PROVE  IInv'
<1> DEFINE map      == {i \in Issues : current[i] # "no"}
           eligible == Eligible(failed, map)
           free     == MaxConcurrentIssues - Cardinality(map)
           selected == Selected(failed, map)
<1>1. /\ active' = [i \in Issues |-> IF i \in selected THEN "running" ELSE current[i]]
      /\ pending' = pending \ selected
      /\ kicked' = kicked \ selected
      /\ started' = [i \in Issues |-> IF i \in selected THEN started[i] + 1 ELSE started[i]]
      /\ wakeRequested' = IF accepting THEN FALSE ELSE wakeRequested
      /\ failedInPump' = failed
      /\ pump' = IF map \cup selected = {} THEN "ending" ELSE "waiting"
      /\ woken' = FALSE
  BY DEF Round
<1>2. IsFiniteSet(map) /\ map \subseteq Issues
  BY SchedulerAssumption, FS_Subset
<1>3. Cardinality(map) \in Nat /\ free \in Nat
  BY <1>2, FS_CardinalityType, SchedulerAssumption
<1>4. eligible \in SUBSET Issues /\ eligible \cap map = {}
  BY DEF Eligible, TypeOK
<1>5. IsFiniteSet(eligible) /\ eligible \in SUBSET Nat
  BY <1>4, SchedulerAssumption, FS_Subset
<1>6. /\ selected \subseteq eligible
      /\ IsFiniteSet(selected)
      /\ Cardinality(selected) \in Nat
      /\ Cardinality(selected) <= free
      /\ accepting => Cardinality(selected) = free \/ selected = eligible
  <2>1. CASE accepting
    <3>1. selected = FirstOf(eligible, free)
      BY <2>1 DEF Selected
    <3> HIDE DEF selected, eligible, free
    <3> QED
      BY <1>3, <1>5, <3>1, FirstOfFillsSlots
  <2>2. CASE ~accepting
    <3>1. selected = {}
      BY <2>2 DEF Selected
    <3> HIDE DEF selected, eligible, free
    <3> QED
      BY <1>3, <2>2, <3>1, FS_EmptySet
  <2> QED
    BY <2>1, <2>2
<1>7. selected \subseteq Issues /\ selected \cap map = {} /\ selected \subseteq pending
  BY <1>4, <1>6 DEF Eligible
<1> HIDE DEF selected, free
<1>8. InMap' = map \cup selected
  BY <1>1, <1>7 DEF InMap
<1>9. Cardinality(InMap') = Cardinality(map) + Cardinality(selected)
  BY <1>2, <1>3, <1>6, <1>7, <1>8, FS_Union, FS_EmptySet
<1>10. TypeOK'
  <2>1. /\ pending' \subseteq Issues /\ failedInPump' \subseteq Issues
        /\ kicked' \subseteq Issues
    BY <1>1 DEF TypeOK
  <2>2. active' \in [Issues -> {"no", "running", "ok", "failed"}]
    BY <1>1
  <2>3. started' \in [Issues -> Nat]
    BY <1>1 DEF TypeOK
  <2>4. /\ pump' \in {"none", "starting", "waiting", "ending"}
        /\ woken' \in BOOLEAN /\ wakeRequested' \in BOOLEAN
    BY <1>1 DEF TypeOK
  <2> QED
    BY <2>1, <2>2, <2>3, <2>4 DEF TypeOK
<1>11. Cardinality(InMap') <= MaxConcurrentIssues
  BY <1>3, <1>6, <1>9, SchedulerAssumption DEF free
<1>12. accepting =>
         \/ Cardinality(InMap') = MaxConcurrentIssues
         \/ pending' \subseteq failed \cup InMap'
  <2> SUFFICES ASSUME accepting, selected = eligible
               PROVE  pending' \subseteq failed \cup InMap'
    BY <1>3, <1>6, <1>9, SchedulerAssumption DEF free
  <2> QED
    BY <1>1, <1>8 DEF Eligible
<1>13. WorkConserving'
  BY <1>1, <1>11, <1>12 DEF WorkConserving
<1>14. PumpRests'
  <2>1. pump' # "waiting" => InMap' = {}
    BY <1>1, <1>8
  <2>2. ASSUME accepting, InMap' = {}
        PROVE  pending' \subseteq failed
    <3>1. Cardinality(InMap') # MaxConcurrentIssues
      BY <2>2, FS_EmptySet, SchedulerAssumption
    <3> QED
      BY <1>12, <2>2, <3>1
  <2> QED
    BY <1>1, <2>1, <2>2 DEF PumpRests
<1> QED
  BY <1>10, <1>13, <1>14 DEF IInv

-----------------------------------------------------------------------------
(* Every step keeps the invariant.                                         *)

(* What queues an operation wakes the pump that waits, or makes one.       *)
LEMMA KickWakes ==
  ASSUME TypeOK, Kick
  PROVE  /\ accepting => wakeRequested' /\ pump' # "none"
         /\ accepting /\ pump = "waiting" => woken'
         /\ pump' = pump \/ (pump = "none" /\ pump' = "starting")
         /\ ~accepting => UNCHANGED <<wakeRequested, pump, woken>>
         /\ pump' \in {"none", "starting", "waiting", "ending"}
         /\ woken' \in BOOLEAN /\ wakeRequested' \in BOOLEAN
<1>1. CASE accepting
  BY <1>1 DEF Kick, TypeOK
<1>2. CASE ~accepting
  BY <1>2 DEF Kick, TypeOK
<1> QED
  BY <1>1, <1>2

(* A queued operation makes the wait of the pump end.                      *)
LEMMA EnqueueKeeps ==
  ASSUME IInv, NEW i \in Issues, Enqueue(i)
  PROVE  IInv'
<1> USE DEF Enqueue
<1>1. TypeOK /\ WorkConserving /\ PumpRests
  BY DEF IInv
<1>2. InMap' = InMap
  BY DEF InMap
<1>3. TypeOK'
  BY <1>1, KickWakes DEF TypeOK
<1>4. WorkConserving'
  BY <1>1, <1>2, KickWakes DEF WorkConserving, TypeOK
<1>5. PumpRests'
  BY <1>1, <1>2, KickWakes DEF PumpRests, TypeOK
<1> QED
  BY <1>3, <1>4, <1>5 DEF IInv

(* drain wakes the pump as a queued operation does.                        *)
LEMMA DrainKeeps ==
  ASSUME IInv, Drain
  PROVE  IInv'
<1> USE DEF Drain
<1>1. TypeOK /\ WorkConserving /\ PumpRests
  BY DEF IInv
<1>2. InMap' = InMap
  BY DEF InMap
<1>3. TypeOK'
  BY <1>1, KickWakes DEF TypeOK, Awaiting
<1>4. WorkConserving'
  BY <1>1, <1>2, KickWakes DEF WorkConserving, TypeOK
<1>5. PumpRests'
  BY <1>1, <1>2, KickWakes DEF PumpRests, TypeOK
<1> QED
  BY <1>3, <1>4, <1>5 DEF IInv

(* An operation that settles keeps its slot until the pump consumes it.    *)
LEMMA OperationEndsKeeps ==
  ASSUME IInv, NEW i \in Issues, OperationEnds(i)
  PROVE  IInv'
<1> USE DEF OperationEnds
<1>1. TypeOK /\ WorkConserving /\ PumpRests
  BY DEF IInv
<1>2. InMap' = InMap /\ i \in InMap
  BY <1>1 DEF InMap, TypeOK
<1>3. TypeOK'
  BY <1>1 DEF TypeOK
<1>4. i \in {k \in Issues : active'[k] \in {"ok", "failed"}}
  BY <1>1 DEF TypeOK
<1>5. WorkConserving'
  BY <1>1, <1>2, <1>4 DEF WorkConserving
<1>6. PumpRests'
  BY <1>1, <1>2 DEF PumpRests
<1> QED
  BY <1>3, <1>5, <1>6 DEF IInv

(* The pump consumes what settled and then makes a round; FinishPump keeps *)
(* it going only after another kick.                                       *)
LEMMA PumpKeeps ==
  ASSUME IInv, PumpNext
  PROVE  IInv'
<1>1. TypeOK /\ WorkConserving /\ PumpRests
  BY DEF IInv
<1>2. InMap = {k \in Issues : active[k] # "no"}
  BY DEF InMap
<1>3. Cardinality(InMap) <= MaxConcurrentIssues
  BY <1>1 DEF WorkConserving
<1>4. CASE PumpStarts
  BY <1>1, <1>2, <1>3, <1>4, RoundFillsSlots DEF PumpStarts, TypeOK
<1>5. CASE Woken
  BY <1>1, <1>2, <1>3, <1>5, RoundFillsSlots DEF Woken, TypeOK
<1>6. ASSUME NEW i \in Issues, Settled(i)
      PROVE  IInv'
  <2> DEFINE failed  == IF active[i] = "failed" THEN failedInPump \cup {i} ELSE failedInPump
             current == [active EXCEPT ![i] = "no"]
             left    == {k \in Issues : current[k] # "no"}
  <2>1. Round(failed, current) /\ accepting' = accepting /\ drainer' = drainer
    BY <1>6 DEF Settled
  <2>2. failed \in SUBSET Issues
    BY <1>1 DEF TypeOK
  <2>3. current \in [Issues -> {"no", "running", "ok", "failed"}]
    BY <1>1 DEF TypeOK
  <2>4. left \in SUBSET InMap
    BY <1>1 DEF InMap, TypeOK
  <2>5. IsFiniteSet(InMap)
    BY <1>2, SchedulerAssumption, FS_Subset
  <2>6. IsFiniteSet(left) /\ Cardinality(left) <= Cardinality(InMap)
    BY <2>4, <2>5, FS_Subset
  <2>7. Cardinality(left) <= MaxConcurrentIssues
    BY <1>3, <2>5, <2>6, FS_CardinalityType, SchedulerAssumption
  <2> HIDE DEF failed, current
  <2> QED
    BY <1>1, <2>1, <2>2, <2>3, <2>7, RoundFillsSlots
<1>7. CASE FinishPump
  <2> USE <1>7 DEF FinishPump
  <2>1. InMap' = InMap
    BY DEF InMap
  <2>2. TypeOK'
    BY <1>1 DEF TypeOK, Awaiting
  <2>3. WorkConserving'
    BY <1>1, <2>1 DEF WorkConserving
  <2>4. PumpRests'
    BY <1>1, <2>1 DEF PumpRests, TypeOK
  <2> QED
    BY <2>2, <2>3, <2>4 DEF IInv
<1> QED
  BY <1>4, <1>5, <1>6, <1>7 DEF PumpNext

(* One case per action.                                                    *)
LEMMA StepKeepsInvariant ==
  ASSUME IInv, [Next]_vars
  PROVE  IInv'
<1>1. TypeOK /\ WorkConserving /\ PumpRests
  BY DEF IInv
<1>2. CASE PumpNext
  BY <1>2, PumpKeeps
<1>3. ASSUME NEW i \in Issues, Enqueue(i)
      PROVE  IInv'
  BY <1>3, EnqueueKeeps
<1>4. ASSUME NEW i \in Issues, OperationEnds(i)
      PROVE  IInv'
  BY <1>4, OperationEndsKeeps
<1>5. CASE BeginShutdown
  BY <1>1, <1>5 DEF BeginShutdown, IInv, TypeOK, WorkConserving, PumpRests, InMap
<1>6. CASE Drain
  BY <1>6, DrainKeeps
<1>7. CASE DrainReturns
  BY <1>1, <1>7
     DEF DrainReturns, IInv, TypeOK, WorkConserving, PumpRests, InMap, Awaiting
<1>8. CASE UNCHANGED vars
  BY <1>1, <1>8 DEF vars, IInv, TypeOK, WorkConserving, PumpRests, InMap
<1> QED
  BY <1>2, <1>3, <1>4, <1>5, <1>6, <1>7, <1>8 DEF Next

-----------------------------------------------------------------------------
(* The invariant holds of the pump in every state.                         *)
THEOREM PumpInvariance == Spec => []IInv
<1>1. Init => IInv
  BY InitialInvariant
<1>2. IInv /\ [Next]_vars => IInv'
  BY StepKeepsInvariant
<1> QED
  BY <1>1, <1>2, PTL DEF Spec

(* Every variable of the pump keeps its type.                              *)
THEOREM PumpTypeCorrect == Spec => []TypeOK
<1>1. IInv => TypeOK
  BY DEF IInv
<1> QED
  BY <1>1, PumpInvariance, PTL

(* Never more Issues run than there are slots, and the pump does not wait  *)
(* with a free slot while there is an Issue it could start.                *)
THEOREM SlotsAreUsed == Spec => []WorkConserving
<1>1. IInv => WorkConserving
  BY DEF IInv
<1> QED
  BY <1>1, PumpInvariance, PTL

(* drain returns only when nothing the pump started still runs and nothing *)
(* is pending but what had failed: the step is DrainReturns, of a pump     *)
(* that is at rest.                                                        *)
THEOREM DrainReturnsAtRest == Spec => DrainIsQuiescent
<1> DEFINE Quiet == DrainReturned =>
                      InMap = {} /\ (accepting => pending \subseteq failedInPump)
<1>1. ASSUME IInv, [Next]_vars PROVE [Quiet]_vars
  <2>1. CASE DrainReturns
    BY <1>1, <2>1 DEF DrainReturns, IInv, PumpRests
  <2>2. CASE ~DrainReturns
    <3>1. drainer' = drainer \/ drainer = "none" \/ drainer' \in Awaiting
      BY <1>1, <2>2
         DEF Next, vars, PumpNext, PumpStarts, Woken, Settled, FinishPump, Enqueue,
             OperationEnds, BeginShutdown, Drain, Awaiting
    <3>2. ~DrainReturned
      BY <3>1 DEF DrainReturned, Awaiting
    <3> QED
      BY <3>2
  <2> QED
    BY <2>1, <2>2
<1> QED
  BY <1>1, PumpInvariance, PTL DEF Spec, DrainIsQuiescent
=============================================================================
