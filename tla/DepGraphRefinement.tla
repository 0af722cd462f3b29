------------------------- MODULE DepGraphRefinement -------------------------
(***************************************************************************)
(* DepGraph implements DepGraphAbstract, for every N and resource set,     *)
(* when the input is well formed: the safety part of ImplementsAbstract,   *)
(* proved step by step under the refinement mapping Abs of DepGraph.       *)
(***************************************************************************)
EXTENDS DepGraphProofs, OrderLemmas

(***************************************************************************)
(* The equation that defines EarliestLevel: a leveling g puts a task with  *)
(* no earlier conflicting task in level 1, and any other task one level    *)
(* after the deepest of them.                                              *)
(***************************************************************************)
IsLeveling(g) ==
    g = [t \in TaskIds |->
            IF Abs!SpecPred(t) = {} THEN 1
            ELSE 1 + Abs!MaxOf({g[p] : p \in Abs!SpecPred(t)})]

\* The recursive definition picks a solution of its equation when one exists.
LEMMA EarliestIsLeveling ==
    ASSUME NEW g, IsLeveling(g)
    PROVE  IsLeveling(Abs!EarliestLevel)
<1>1. Abs!TaskIds = TaskIds
  BY DEF Abs!TaskIds, TaskIds
<1>2. QED
  BY <1>1 DEF IsLeveling, Abs!EarliestLevel

(***************************************************************************)
(* The equation has at most one solution: at the first position where two  *)
(* solutions differ, they agree on every earlier position, hence on the    *)
(* task's predecessors, hence on the task.                                 *)
(***************************************************************************)
LEMMA LevelingUnique ==
    ASSUME NEW g, NEW h, IsLeveling(g), IsLeveling(h)
    PROVE  g = h
<1> DEFINE Diff == {t \in TaskIds : g[t] # h[t]}
<1> SUFFICES Diff = {}
  BY DEF IsLeveling
<1>1. SUFFICES ASSUME Diff # {} PROVE FALSE
  OBVIOUS
<1>2. PICK t \in Diff : \A y \in Diff : t <= y
  <2>1. Diff \in SUBSET Nat
    BY NAssumption DEF TaskIds
  <2>2. QED
    BY <1>1, <2>1, NatSetHasMin
<1>3. \A p \in Abs!SpecPred(t) : g[p] = h[p]
  <2>1. Abs!SpecPred(t) \subseteq 0 .. (t - 1) /\ t \in Nat
    BY NAssumption DEF Abs!SpecPred, TaskIds
  <2>2. 0 .. (t - 1) \subseteq TaskIds
    BY NAssumption DEF TaskIds
  <2>3. QED
    BY <1>2, <2>1, <2>2
<1>4. {g[p] : p \in Abs!SpecPred(t)} = {h[p] : p \in Abs!SpecPred(t)}
  BY <1>3
<1>5. g[t] = h[t]
  BY <1>4 DEF IsLeveling
<1>6. QED
  BY <1>2, <1>5

\* A member of a set of naturals that bounds the set is its MaxOf.
LEMMA MaxOfIs ==
    ASSUME NEW S \in SUBSET Nat, NEW m \in S, \A x \in S : x <= m
    PROVE  Abs!MaxOf(S) = m
<1>1. \A x \in S : (\A y \in S : y <= x) => x = m
  OBVIOUS
<1>2. QED
  BY <1>1 DEF Abs!MaxOf


-----------------------------------------------------------------------------
(***************************************************************************)
(* Greediness of the scan.  A task lands in level k > 1 only because in    *)
(* the pass before, one of its dependencies was still missing from         *)
(* `completed`: that dependency is in level k - 1.  The invariant follows  *)
(* the pass: a task scanned and left out of current_level has a           *)
(* dependency outside `completed`, and once a level exists every task      *)
(* still remaining has a dependency outside the levels before the last.    *)
(* No level is empty, since an empty pass panics instead.                  *)
(***************************************************************************)
GreedyRest ==
    /\ \A k \in 1 .. Len(levels) : levels[k] # {}
    /\ \A k \in 2 .. Len(levels) : \A t \in levels[k] :
          \E p \in dependencies[t] : p \in levels[k - 1]
    /\ pc = "scan" =>
          \A t \in scanned \ currentLevel : ~(dependencies[t] \subseteq completed)
    /\ (pc = "scan" /\ Len(levels) >= 1) =>
          \A t \in remaining :
             \E p \in dependencies[t] : p \notin Placed(Len(levels) - 1)

GreedyInv == OrdInv /\ GreedyRest

\* The last pushed level is what Placed gains from the one before.
LEMMA PlacedLast ==
    ASSUME NEW S, levels \in Seq(S), NEW L \in 1 .. Len(levels)
    PROVE  Placed(L) = Placed(L - 1) \cup levels[L]
<1>1. 1 .. L = (1 .. (L - 1)) \cup {L}
  OBVIOUS
<1>2. QED
  BY <1>1 DEF Placed

LEMMA GreedyInit == WellFormedInput /\ Init => GreedyInv
<1> SUFFICES ASSUME WellFormedInput, Init PROVE GreedyInv
  OBVIOUS
<1>1. OrdInv
  BY OrdInit
<1>2. GreedyRest
  BY DEF Init, GreedyRest
<1>3. QED
  BY <1>1, <1>2 DEF GreedyInv

LEMMA GreedyStep == WellFormedInput /\ GreedyInv /\ [Next]_vars => GreedyRest'
<1> SUFFICES ASSUME WellFormedInput, GreedyInv, [Next]_vars PROVE GreedyRest'
  OBVIOUS
<1>0. /\ TypeOK /\ OrdRest /\ SoundInv /\ GreedyRest
      /\ TypeOK' /\ OrdRest'
  <2>1. OrdInv'
    BY OrdInvStep DEF GreedyInv
  <2>2. QED
    BY <2>1 DEF GreedyInv, OrdInv, SoundInv
<1>1. CASE BuildCompare \/ BuildInsert \/ FromTasksReturn
  \* no level exists before execution_levels starts
  <2>1. pc \in {"build", "built"} /\ pc' \in {"build", "built"}
        /\ UNCHANGED levelVars
    BY <1>1 DEF BuildCompare, BuildInsert, FromTasksReturn
  <2>2. levels = <<>>
    BY <2>1, <1>0 DEF SoundInv
  <2>3. QED
    BY <2>1, <2>2 DEF GreedyRest, levelVars
<1>2. ASSUME NEW t \in TaskIds, NEW d \in TaskIds, InjectDependency(t, d)
      PROVE GreedyRest'
  BY <1>2 DEF InjectDependency, WellFormedInput
<1>3. CASE StartLevels
  BY <1>3 DEF StartLevels, GreedyRest
<1>4. ASSUME NEW t \in IdRange, ScanMissingKey(t) PROVE GreedyRest'
  BY <1>4, <1>0 DEF ScanMissingKey, GreedyRest, Placed, buildVars
<1>5. ASSUME NEW t \in IdRange, ScanReady(t) PROVE GreedyRest'
  \* t joins current_level: the tasks left out are the same
  BY <1>5, <1>0 DEF ScanReady, GreedyRest, Placed, buildVars
<1>6. ASSUME NEW t \in IdRange, ScanBlocked(t) PROVE GreedyRest'
  \* t is left out because a dependency is not completed
  BY <1>6, <1>0 DEF ScanBlocked, GreedyRest, Placed, buildVars
<1>7. CASE DetectCycle
  BY <1>7, <1>0 DEF DetectCycle, GreedyRest, Placed, buildVars, levelVars
<1>8. CASE CompleteLevel
  <2> USE <1>8
  <2>0. PICK L \in Nat : L = Len(levels)
    BY <1>0 DEF TypeOK
  <2>1. /\ levels \in Seq(SUBSET IdRange) /\ Len(levels') = L + 1
        /\ levels'[L + 1] = currentLevel
        /\ \A m \in 1 .. L : levels'[m] = levels[m]
    BY <2>0, <1>0 DEF TypeOK, CompleteLevel
  <2>2. /\ pc = "scan" /\ scanned = remaining /\ currentLevel # {}
        /\ remaining' = remaining \ currentLevel
        /\ scanned' = {} /\ UNCHANGED dependencies
    BY DEF CompleteLevel, buildVars
  <2>3. completed = Placed(L)
    BY <2>0, <1>0 DEF SoundInv
  <2>4. \A k \in 0 .. L : Placed(k)' = Placed(k)
    BY <2>1 DEF Placed
  \* no level is empty
  <2>5. \A k \in 1 .. Len(levels') : levels'[k] # {}
    BY <2>0, <2>1, <2>2, <1>0 DEF GreedyRest
  \* the new level: each of its tasks waited for a task of level L
  <2>6. \A k \in 2 .. Len(levels') : \A t \in levels'[k] :
          \E p \in dependencies'[t] : p \in levels'[k - 1]
    <3> SUFFICES ASSUME NEW k \in 2 .. L + 1, NEW t \in levels'[k]
                 PROVE  \E p \in dependencies[t] : p \in levels'[k - 1]
      BY <2>1, <2>2
    <3>1. CASE k \in 2 .. L
      BY <3>1, <2>0, <2>1, <1>0 DEF GreedyRest
    <3>2. CASE k = L + 1
      <4>1. t \in currentLevel /\ t \in remaining /\ L >= 1
        BY <3>2, <2>1, <1>0 DEF OrdRest
      <4>2. PICK p \in dependencies[t] : p \notin Placed(L - 1)
        BY <4>1, <2>0, <2>2, <1>0 DEF GreedyRest
      <4>3. dependencies[t] \subseteq Placed(L)
        BY <4>1, <2>3, <1>0 DEF SoundInv
      <4>4. Placed(L) = Placed(L - 1) \cup levels[L]
        BY <4>1, <2>0, <2>1, PlacedLast
      <4>5. p \in levels'[L]
        BY <4>2, <4>3, <4>4, <4>1, <2>1
      <4>6. QED
        BY <3>2, <4>5
    <3>3. QED
      BY <3>1, <3>2
  \* a task left for the next pass was left out of this one
  <2>7. (pc = "scan" /\ Len(levels) >= 1)' =>
          \A t \in remaining' :
             \E p \in dependencies'[t] : p \notin Placed(Len(levels) - 1)'
    <3> SUFFICES ASSUME NEW t \in remaining'
                 PROVE  \E p \in dependencies[t] : p \notin Placed(L)'
      BY <2>0, <2>1, <2>2
    <3>1. t \in scanned \ currentLevel
      BY <2>2
    <3>2. ~(dependencies[t] \subseteq completed)
      BY <3>1, <2>2, <1>0 DEF GreedyRest
    <3>3. QED
      BY <3>2, <2>3, <2>4, <2>0
  <2>8. QED
    BY <2>2, <2>5, <2>6, <2>7 DEF GreedyRest
<1>9. CASE UNCHANGED vars
  BY <1>9, <1>0 DEF vars, GreedyRest, Placed
<1>10. QED
  BY <1>1, <1>2, <1>3, <1>4, <1>5, <1>6, <1>7, <1>8, <1>9 DEF Next

LEMMA GreedyInvStep == WellFormedInput /\ GreedyInv /\ [Next]_vars => GreedyInv'
BY OrdInvStep, GreedyStep DEF GreedyInv

-----------------------------------------------------------------------------
(***************************************************************************)
(* When execution_levels returns, the level of each task solves the        *)
(* equation of EarliestLevel, so it is EarliestLevel, and the levels are   *)
(* GreedyLevels.  The map entry of each task is its spec predecessors (the *)
(* builder's invariant and the symmetry of conflicts_with); LevelsSound    *)
(* puts them below the task, GreedyRest puts one of them just below.       *)
(***************************************************************************)
\* The level each task was returned in.
Lvl == [t \in TaskIds |-> LevelOf(t)]

LEMMA DoneIsGreedy ==
    ASSUME WellFormedInput, GreedyInv, pc = "done"
    PROVE  levels = Abs!GreedyLevels
<1>0. /\ TypeOK /\ OrdRest /\ SoundInv /\ GreedyRest /\ LevelsSound
      /\ IdRange = TaskIds /\ i = N /\ remaining = {}
  BY IdRangeIsTaskIds DEF GreedyInv, OrdInv, SoundInv, OrdRest
<1> PICK L \in Nat : L = Len(levels)
  BY <1>0 DEF TypeOK
<1>1. completed = TaskIds /\ completed = Placed(L)
  BY <1>0 DEF OrdRest, SoundInv
\* every task is in the level LevelOf names, and in no other
<1>2. \A t \in TaskIds : Lvl[t] \in 1 .. L /\ t \in levels[Lvl[t]]
  <2> SUFFICES ASSUME NEW t \in TaskIds PROVE Lvl[t] \in 1 .. L /\ t \in levels[Lvl[t]]
    OBVIOUS
  <2>1. PICK k \in 1 .. L : t \in levels[k]
    BY <1>1 DEF Placed
  <2>2. LevelOf(t) = k
    BY <2>1, LevelOfPlaced DEF GreedyInv
  <2>3. QED
    BY <2>1, <2>2 DEF Lvl
<1>3. \A k \in 1 .. L : \A t \in levels[k] : t \in TaskIds /\ Lvl[t] = k
  <2> SUFFICES ASSUME NEW k \in 1 .. L, NEW t \in levels[k]
               PROVE  t \in TaskIds /\ Lvl[t] = k
    OBVIOUS
  <2>1. t \in TaskIds
    BY <1>1 DEF Placed
  <2>2. QED
    BY <2>1, LevelOfPlaced DEF GreedyInv, Lvl
\* the map entry of a task is the set of its spec predecessors
<1>4. \A t \in TaskIds : dependencies[t] = Abs!SpecPred(t)
  <2> SUFFICES ASSUME NEW t \in TaskIds PROVE dependencies[t] = Abs!SpecPred(t)
    OBVIOUS
  <2>1. dependencies[t] = BuiltDeps(t)
    BY <1>0 DEF OrdRest, TaskIds
  <2>2. \A p \in 0 .. (t - 1) :
          Conflicts(tasks[t], tasks[p]) <=> SpecConflict(tasks[p], tasks[t])
    <3> SUFFICES ASSUME NEW p \in 0 .. (t - 1)
                 PROVE  Conflicts(tasks[t], tasks[p]) <=> SpecConflict(tasks[p], tasks[t])
      OBVIOUS
    <3>1. tasks[t] \in TaskRecord(Nat) /\ tasks[p] \in TaskRecord(Nat)
      BY <1>0, NAssumption DEF TypeOK, TaskRecord, TaskIds
    <3>2. QED
      BY <3>1, ConflictsIsSpecConflict
  <2>3. QED
    <3>1. \A p \in 0 .. (t - 1) :
            SpecConflict(tasks[p], tasks[t]) <=> Abs!SpecConflict(tasks[p], tasks[t])
      BY DEF SpecConflict, Abs!SpecConflict
    <3>2. QED
      BY <2>1, <2>2, <3>1 DEF BuiltDeps, Abs!SpecPred
\* a dependency is in a lower level
<1>5. \A t \in TaskIds : \A p \in dependencies[t] : p \in TaskIds /\ Lvl[p] < Lvl[t]
  <2> SUFFICES ASSUME NEW t \in TaskIds, NEW p \in dependencies[t]
               PROVE  p \in TaskIds /\ Lvl[p] < Lvl[t]
    OBVIOUS
  <2>1. dependencies[t] \subseteq Placed(Lvl[t] - 1)
    BY <1>2, <1>0 DEF LevelsSound
  <2>2. PICK m \in 1 .. (Lvl[t] - 1) : p \in levels[m]
    BY <2>1 DEF Placed
  <2>3. QED
    BY <2>2, <1>2, <1>3
\* and one dependency is in the level just below
<1>6. \A t \in TaskIds : Lvl[t] > 1 => \E p \in dependencies[t] : Lvl[p] = Lvl[t] - 1
  <2> SUFFICES ASSUME NEW t \in TaskIds, Lvl[t] > 1
               PROVE  \E p \in dependencies[t] : Lvl[p] = Lvl[t] - 1
    OBVIOUS
  <2>1. PICK p \in dependencies[t] : p \in levels[Lvl[t] - 1]
    BY <1>2, <1>0 DEF GreedyRest
  <2>2. QED
    BY <2>1, <1>2, <1>3
\* so the returned levels solve the equation of EarliestLevel
<1>7. IsLeveling(Lvl)
  <2> SUFFICES ASSUME NEW t \in TaskIds
               PROVE  Lvl[t] = IF Abs!SpecPred(t) = {} THEN 1
                               ELSE 1 + Abs!MaxOf({Lvl[p] : p \in Abs!SpecPred(t)})
    BY DEF IsLeveling, Lvl
  <2>1. CASE Abs!SpecPred(t) = {}
    BY <2>1, <1>2, <1>4, <1>6
  <2>2. CASE Abs!SpecPred(t) # {}
    <3>1. Lvl[t] > 1
      BY <2>2, <1>2, <1>4, <1>5
    <3>2. PICK q \in Abs!SpecPred(t) : Lvl[q] = Lvl[t] - 1
      BY <3>1, <1>4, <1>6
    <3>3. Abs!MaxOf({Lvl[p] : p \in Abs!SpecPred(t)}) = Lvl[t] - 1
      <4>1. {Lvl[p] : p \in Abs!SpecPred(t)} \in SUBSET Nat
        BY <1>2, <1>4, <1>5
      <4>2. \A x \in {Lvl[p] : p \in Abs!SpecPred(t)} : x <= Lvl[t] - 1
        BY <1>2, <1>4, <1>5
      <4>3. QED
        BY <3>2, <4>1, <4>2, MaxOfIs
    <3>4. QED
      BY <2>2, <3>3, <1>2
  <2>3. QED
    BY <2>1, <2>2
<1>8. Abs!EarliestLevel = Lvl
  BY <1>7, EarliestIsLeveling, LevelingUnique
\* the deepest level is the last one pushed
<1>9. Abs!MaxOf({Abs!EarliestLevel[t] : t \in Abs!TaskIds} \cup {0}) = L
  <2>1. Abs!TaskIds = TaskIds
    BY DEF Abs!TaskIds, TaskIds
  <2>2. L \in {Lvl[t] : t \in TaskIds} \cup {0}
    <3>1. CASE L = 0
      BY <3>1
    <3>2. CASE L >= 1
      <4>1. PICK t \in levels[L] : TRUE
        BY <3>2, <1>0 DEF GreedyRest
      <4>2. QED
        BY <4>1, <1>3, <3>2
    <3>3. QED
      BY <3>1, <3>2
  <2>3. \A x \in {Lvl[t] : t \in TaskIds} \cup {0} : x <= L
    BY <1>2
  <2>4. {Lvl[t] : t \in TaskIds} \cup {0} \in SUBSET Nat
    BY <1>2
  <2>5. QED
    BY <1>8, <2>1, <2>2, <2>3, <2>4, MaxOfIs
<1>10. \A k \in 1 .. L : levels[k] = {t \in TaskIds : Lvl[t] = k}
  BY <1>2, <1>3
<1>11. levels = [k \in 1 .. L |-> levels[k]]
  BY <1>0 DEF TypeOK
<1>12. QED
  <2>1. Abs!TaskIds = TaskIds
    BY DEF Abs!TaskIds, TaskIds
  <2>2. Abs!GreedyLevels = [k \in 1 .. L |-> {t \in TaskIds : Lvl[t] = k}]
    BY <1>8, <1>9, <2>1 DEF Abs!GreedyLevels
  <2>3. QED
    BY <1>10, <1>11, <2>2

-----------------------------------------------------------------------------
(***************************************************************************)
(* The refinement, step by step.  RefInv adds to GreedyInv what            *)
(* DoneIsGreedy derives from it, so that it can be used in the state after *)
(* a step.                                                                 *)
(***************************************************************************)
RefInv == GreedyInv /\ (pc = "done" => levels = Abs!GreedyLevels)

LEMMA RefInvHolds == WellFormedInput => (Spec => []RefInv)
<1> SUFFICES ASSUME WellFormedInput PROVE Spec => []RefInv
  OBVIOUS
<1>1. GreedyInv => RefInv
  BY DoneIsGreedy DEF RefInv
<1>2. QED
  BY GreedyInit, GreedyInvStep, <1>1, PTL DEF Spec

\* The initial states map to initial states of the abstract planner.
LEMMA RefInit == WellFormedInput /\ Init => Abs!AbsInit
<1> SUFFICES ASSUME WellFormedInput, Init PROVE Abs!AbsInit
  OBVIOUS
<1>1. Abs!TaskIds = TaskIds
  BY DEF Abs!TaskIds, TaskIds
<1>2. tasks \in [TaskIds -> TaskRecord(TaskIds)] /\ \A k \in TaskIds : tasks[k].id = k
  BY IdRangeIsTaskIds DEF Init, WellFormedInput
<1>3. QED
  BY <1>1, <1>2 DEF Abs!AbsInit, Abs!TaskRecord, TaskRecord, Init

(***************************************************************************)
(* Every step is a stutter of the planner, except the one that makes       *)
(* execution_levels return: that step is Plan, since the levels it         *)
(* returns are the greedy leveling of the (unchanged) task list.           *)
(***************************************************************************)
LEMMA RefStep ==
    WellFormedInput /\ RefInv /\ RefInv' /\ [Next]_vars
        => [Abs!Plan]_(Abs!absVars)
<1> SUFFICES ASSUME WellFormedInput, RefInv, RefInv', [Next]_vars
             PROVE  [Abs!Plan]_(Abs!absVars)
  OBVIOUS
<1>1. UNCHANGED tasks
  BY DEF Next, BuildCompare, BuildInsert, FromTasksReturn, InjectDependency,
         StartLevels, ScanMissingKey, ScanReady, ScanBlocked, DetectCycle,
         CompleteLevel, vars
<1>2. pc = "done" => UNCHANGED <<levels, pc>>
  BY DEF Next, BuildCompare, BuildInsert, FromTasksReturn, InjectDependency,
         StartLevels, ScanMissingKey, ScanReady, ScanBlocked, DetectCycle,
         CompleteLevel, vars
<1>3. CASE pc # "done" /\ pc' = "done"
  <2>1. levels' = Abs!GreedyLevels'
    BY <1>3 DEF RefInv
  <2>2. Abs!GreedyLevels' = Abs!GreedyLevels
    BY <1>1 DEF Abs!GreedyLevels, Abs!EarliestLevel, Abs!SpecPred, Abs!MaxOf,
                Abs!TaskIds
  <2>3. QED
    BY <1>1, <1>3, <2>1, <2>2 DEF Abs!Plan
<1>4. CASE ~(pc # "done" /\ pc' = "done")
  BY <1>1, <1>2, <1>4 DEF Abs!absVars
<1>5. QED
  BY <1>3, <1>4

(***************************************************************************)
(* from_tasks followed by execution_levels implements the planner of       *)
(* DepGraphAbstract, for every number of tasks and every resource set,     *)
(* when ids are positions and the caller leaves the map alone: nothing is  *)
(* returned before the end, and what is returned is exactly the greedy     *)
(* earliest-placement leveling, whatever order the HashSet scan takes.     *)
(* (The fairness half of ImplementsAbstract, that the calls return, stays  *)
(* with TLC.)                                                              *)
(***************************************************************************)
THEOREM RefinesAbstractSafety ==
    WellFormedInput => (Spec => Abs!AbsInit /\ [][Abs!Plan]_(Abs!absVars))
<1> SUFFICES ASSUME WellFormedInput
             PROVE  Spec => Abs!AbsInit /\ [][Abs!Plan]_(Abs!absVars)
  OBVIOUS
<1>1. Init => Abs!AbsInit
  BY RefInit
<1>2. RefInv /\ RefInv' /\ [Next]_vars => [Abs!Plan]_(Abs!absVars)
  BY RefStep
<1>3. QED
  BY <1>1, <1>2, RefInvHolds, PTL DEF Spec
=============================================================================
