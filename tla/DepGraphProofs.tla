--------------------------- MODULE DepGraphProofs ---------------------------
(***************************************************************************)
(* Proofs about DepGraph for every N, every resource set and every id      *)
(* assignment and map injection the caller may make.                       *)
(***************************************************************************)
EXTENDS DepGraph, FiniteSetTheorems, TLAPS

(***************************************************************************)
(* Task::conflicts_with is the specification's conflict relation, for any  *)
(* two tasks and any resource sets; in particular it is symmetric although *)
(* each call only runs its own two loops (spec section 4.1).               *)
(***************************************************************************)
THEOREM ConflictsIsSpecConflict ==
    \A a, b \in TaskRecord(Nat) :
        /\ Conflicts(a, b) <=> SpecConflict(a, b)
        /\ Conflicts(a, b) <=> Conflicts(b, a)
<1> SUFFICES ASSUME NEW a \in TaskRecord(Nat), NEW b \in TaskRecord(Nat)
             PROVE  /\ Conflicts(a, b) <=> SpecConflict(a, b)
                    /\ Conflicts(a, b) <=> Conflicts(b, a)
  OBVIOUS
<1>1. Conflicts(a, b) <=> SpecConflict(a, b)
  BY DEF Conflicts, SpecConflict
<1>2. Conflicts(b, a) <=> SpecConflict(b, a)
  BY DEF Conflicts, SpecConflict
<1>3. SpecConflict(a, b) <=> SpecConflict(b, a)
  BY DEF SpecConflict
<1>4. QED
  BY <1>1, <1>2, <1>3

(***************************************************************************)
(* Type correctness of from_tasks and execution_levels: TypeOK is          *)
(* inductive on its own.                                                   *)
(***************************************************************************)
LEMMA TypeInit == Init => TypeOK
BY NAssumption DEF Init, TypeOK, PcValues

LEMMA TypeStep == TypeOK /\ [Next]_vars => TypeOK'
<1> SUFFICES ASSUME TypeOK, [Next]_vars PROVE TypeOK'
  OBVIOUS
<1>1. CASE BuildCompare
  BY <1>1, NAssumption DEF BuildCompare, TypeOK, TaskIds, levelVars
<1>2. CASE BuildInsert
  BY <1>2, NAssumption DEF BuildInsert, TypeOK, levelVars
<1>3. CASE FromTasksReturn
  BY <1>3 DEF FromTasksReturn, TypeOK, PcValues, buildVars, levelVars
<1>4. ASSUME NEW t \in TaskIds, NEW d \in TaskIds, InjectDependency(t, d)
      PROVE TypeOK'
  BY <1>4 DEF InjectDependency, TypeOK, levelVars
<1>5. CASE StartLevels
  BY <1>5 DEF StartLevels, TypeOK, PcValues, Terminal, buildVars, TaskRecord
<1>6. ASSUME NEW t \in IdRange, ScanMissingKey(t) PROVE TypeOK'
  BY <1>6 DEF ScanMissingKey, TypeOK, PcValues, Terminal, buildVars
<1>7. ASSUME NEW t \in IdRange, ScanReady(t) PROVE TypeOK'
  BY <1>7 DEF ScanReady, TypeOK, buildVars
<1>8. ASSUME NEW t \in IdRange, ScanBlocked(t) PROVE TypeOK'
  BY <1>8 DEF ScanBlocked, TypeOK, buildVars
<1>9. CASE DetectCycle
  BY <1>9 DEF DetectCycle, TypeOK, PcValues, Terminal, buildVars, levelVars
<1>10. CASE CompleteLevel
  BY <1>10 DEF CompleteLevel, TypeOK, PcValues, Terminal, buildVars
<1>11. CASE UNCHANGED vars
  BY <1>11 DEF vars, TypeOK
<1>12. QED
  BY <1>1, <1>2, <1>3, <1>4, <1>5, <1>6, <1>7, <1>8, <1>9, <1>10, <1>11
     DEF Next

THEOREM TypeCorrect == Spec => []TypeOK
BY TypeInit, TypeStep, PTL DEF Spec

-----------------------------------------------------------------------------
(***************************************************************************)
(* LevelsSound is not inductive by itself: a step of CompleteLevel pushes  *)
(* currentLevel, so the invariant must say that every task collected in   *)
(* currentLevel had its dependencies in `completed`, and that `completed`  *)
(* is exactly the union of the pushed levels.  Before execution_levels     *)
(* starts, while the map may still change, no level exists.                *)
(***************************************************************************)
SoundInv ==
    /\ TypeOK
    /\ pc \in {"build", "built"} => levels = <<>> /\ currentLevel = {}
    /\ completed = Placed(Len(levels))
    /\ \A t \in currentLevel :
          t \in DOMAIN dependencies /\ dependencies[t] \subseteq completed
    /\ LevelsSound

\* SoundInv holds initially: nothing has been placed yet.
LEMMA SoundInit == Init => SoundInv
BY TypeInit DEF Init, SoundInv, Placed, LevelsSound

\* A step of the leveling loop that leaves the levels and `completed` alone
\* and collects nothing new keeps SoundInv.
LEMMA SoundStep == SoundInv /\ [Next]_vars => SoundInv'
<1> SUFFICES ASSUME SoundInv, [Next]_vars PROVE SoundInv'
  OBVIOUS
<1>0. TypeOK'
  BY TypeStep DEF SoundInv
<1>1. CASE BuildCompare \/ BuildInsert \/ FromTasksReturn
  BY <1>0, <1>1 DEF BuildCompare, BuildInsert, FromTasksReturn, levelVars,
                   SoundInv, Placed, LevelsSound
<1>2. ASSUME NEW t \in TaskIds, NEW d \in TaskIds, InjectDependency(t, d)
      PROVE SoundInv'
  BY <1>0, <1>2 DEF InjectDependency, levelVars, SoundInv, Placed, LevelsSound
<1>3. CASE StartLevels
  BY <1>0, <1>3 DEF StartLevels, buildVars, SoundInv, Placed, LevelsSound
<1>4. ASSUME NEW t \in IdRange, ScanMissingKey(t) PROVE SoundInv'
  BY <1>0, <1>4 DEF ScanMissingKey, buildVars, SoundInv, Placed, LevelsSound
<1>5. ASSUME NEW t \in IdRange, ScanReady(t) PROVE SoundInv'
  BY <1>0, <1>5 DEF ScanReady, buildVars, SoundInv, Placed, LevelsSound
<1>6. ASSUME NEW t \in IdRange, ScanBlocked(t) PROVE SoundInv'
  BY <1>0, <1>6 DEF ScanBlocked, buildVars, SoundInv, Placed, LevelsSound
<1>7. CASE DetectCycle
  BY <1>0, <1>7 DEF DetectCycle, buildVars, levelVars, SoundInv, Placed,
                   LevelsSound
<1>8. CASE CompleteLevel
  <2> USE <1>8
  <2>0. PICK L \in Nat : L = Len(levels)
    BY DEF SoundInv, TypeOK
  <2>1. levels \in Seq(SUBSET IdRange) /\ Len(levels') = L + 1
        /\ levels'[L + 1] = currentLevel
        /\ \A m \in 1 .. L : levels'[m] = levels[m]
    BY <2>0 DEF SoundInv, TypeOK, CompleteLevel
  <2>2. \A k \in 0 .. L : Placed(k)' = Placed(k)
    BY <2>1 DEF Placed
  <2>3. Placed(L + 1)' = Placed(L) \cup currentLevel
    <3>1. L \in Nat /\ 1 .. (L + 1) = (1 .. L) \cup {L + 1}
      BY <2>1
    <3>2. ASSUME NEW x PROVE x \in Placed(L + 1)' <=> x \in Placed(L) \cup currentLevel
      BY <2>1, <3>1 DEF Placed
    <3>3. QED
      BY <3>2
  <2>4. (completed = Placed(Len(levels)))'
    BY <2>0, <2>1, <2>3 DEF SoundInv, CompleteLevel
  <2>5. UNCHANGED dependencies
    BY DEF CompleteLevel, buildVars
  <2>6. LevelsSound'
    <3> SUFFICES ASSUME NEW k \in 1 .. L + 1, NEW t \in levels'[k]
                 PROVE t \in DOMAIN dependencies
                       /\ dependencies[t] \subseteq Placed(k - 1)'
      BY <2>1, <2>5 DEF LevelsSound
    <3>1. CASE k = L + 1
      BY <3>1, <2>0, <2>1, <2>2 DEF SoundInv
    <3>2. CASE k \in 1 .. L
      BY <3>2, <2>0, <2>1, <2>2 DEF SoundInv, LevelsSound
    <3>3. QED
      BY <3>1, <3>2
  <2>7. pc' \notin {"build", "built"} /\ currentLevel' = {}
    BY DEF CompleteLevel
  <2>8. QED
    BY <1>0, <2>4, <2>6, <2>7 DEF SoundInv
<1>9. CASE UNCHANGED vars
  BY <1>0, <1>9 DEF vars, SoundInv, Placed, LevelsSound
<1>10. QED
  BY <1>1, <1>2, <1>3, <1>4, <1>5, <1>6, <1>7, <1>8, <1>9 DEF Next

(***************************************************************************)
(* Leveling soundness for every input, every id assignment and every map   *)
(* the caller injects: no task of a level returned by execution_levels     *)
(* has a dependency outside the levels before it.                          *)
(***************************************************************************)
THEOREM LevelsSoundness == Spec => []LevelsSound
<1>1. SoundInv => LevelsSound
  BY DEF SoundInv
<1>2. QED
  BY SoundInit, SoundStep, <1>1, PTL DEF Spec

-----------------------------------------------------------------------------
(***************************************************************************)
(* Serial equivalence needs the input the spec assumes: ids that are the   *)
(* tasks' positions and a map the caller leaves as built (the two runs     *)
(* depgraph_caller_ids and depgraph_cycle_panics show what happens         *)
(* otherwise).                                                             *)
(***************************************************************************)
WellFormedInput ==
    /\ IdChoices = {[k \in TaskIds |-> k]}
    /\ AllowInject = FALSE

\* What from_tasks puts in the map for position k: the earlier positions
\* whose task task k conflicts with.
BuiltDeps(k) == {p \in 0 .. (k - 1) : Conflicts(tasks[k], tasks[p])}

(***************************************************************************)
(* The strengthening of SoundInv for well-formed input.  The builder's     *)
(* loop invariant gives the map its meaning; execution_levels keeps        *)
(* `remaining` and `completed` a partition of the ids, takes the current   *)
(* level out of `remaining` (so no task is pushed twice and the levels are *)
(* disjoint), and returns only when `remaining` is empty.                  *)
(***************************************************************************)
OrdRest ==
    /\ \A k \in TaskIds : tasks[k].id = k
    /\ \A k \in 0 .. (i - 1) : dependencies[k] = BuiltDeps(k)
    /\ i < N => deps = {p \in 0 .. (j - 1) : Conflicts(tasks[i], tasks[p])}
    /\ pc # "build" => i = N
    /\ remaining \cap completed = {}
    /\ pc \notin {"build", "built"} => remaining \cup completed = TaskIds
    /\ currentLevel \subseteq remaining /\ scanned \subseteq remaining
    /\ \A m, n \in 1 .. Len(levels) : m # n => levels[m] \cap levels[n] = {}
    /\ pc = "done" => remaining = {}

OrdInv == SoundInv /\ OrdRest

LEMMA IdRangeIsTaskIds == WellFormedInput => IdRange = TaskIds
<1> SUFFICES ASSUME WellFormedInput PROVE IdRange = TaskIds
  OBVIOUS
<1> DEFINE g == [k \in TaskIds |-> k]
<1>1. IdRange = UNION {{f[k] : k \in TaskIds} : f \in {g}}
  BY DEF WellFormedInput, IdRange
<1>2. UNION {{f[k] : k \in TaskIds} : f \in {g}} = {g[k] : k \in TaskIds}
  OBVIOUS
<1>3. {g[k] : k \in TaskIds} = TaskIds
  OBVIOUS
<1>4. QED
  BY <1>1, <1>2, <1>3

LEMMA OrdInit == WellFormedInput /\ Init => OrdInv
<1> SUFFICES ASSUME WellFormedInput, Init PROVE OrdInv
  OBVIOUS
<1>1. SoundInv
  BY SoundInit
<1>2. \A k \in TaskIds : tasks[k].id = k
  BY DEF WellFormedInput, Init
<1>3. QED
  BY <1>1, <1>2 DEF Init, OrdInv, OrdRest

(***************************************************************************)
(* One step per action.  SoundInv' comes from SoundStep; TypeOK gives the  *)
(* shapes of the sets and of the map.                                      *)
(***************************************************************************)
LEMMA OrdStep == WellFormedInput /\ OrdInv /\ [Next]_vars => OrdRest'
<1> SUFFICES ASSUME WellFormedInput, OrdInv, [Next]_vars PROVE OrdRest'
  OBVIOUS
<1>0. TypeOK /\ TypeOK' /\ OrdRest
  <2>1. SoundInv /\ [Next]_vars
    BY DEF OrdInv
  <2>2. SoundInv'
    BY <2>1, SoundStep
  <2>3. QED
    BY <2>1, <2>2 DEF OrdInv, SoundInv
<1> USE NAssumption
<1>1. CASE BuildCompare
  <2>1. /\ j < i /\ i < N /\ j' = j + 1
        /\ deps' = IF Conflicts(tasks[i], tasks[j]) THEN deps \cup {j} ELSE deps
        /\ UNCHANGED <<tasks, dependencies, i, levelVars, pc>>
    BY <1>1 DEF BuildCompare
  <2>2. (i < N => deps = {p \in 0 .. (j - 1) : Conflicts(tasks[i], tasks[p])})'
    BY <2>1, <1>0 DEF OrdRest, TypeOK
  <2>3. QED
    BY <1>0, <2>1, <2>2 DEF OrdRest, BuiltDeps, levelVars
<1>2. CASE BuildInsert
  <2>1. /\ j = i /\ i < N /\ i' = i + 1 /\ j' = 0 /\ deps' = {}
        /\ dependencies' = [k \in 0 .. i |-> IF k = i THEN deps ELSE dependencies[k]]
        /\ UNCHANGED <<tasks, levelVars, pc>>
    BY <1>2 DEF BuildInsert
  <2>2. \A k \in 0 .. (i' - 1) : dependencies'[k] = BuiltDeps(k)'
    BY <2>1, <1>0 DEF OrdRest, BuiltDeps, TypeOK
  <2>3. (i < N => deps = {p \in 0 .. (j - 1) : Conflicts(tasks[i], tasks[p])})'
    BY <2>1, <1>0 DEF TypeOK
  <2>4. QED
    BY <1>0, <2>1, <2>2, <2>3 DEF OrdRest, levelVars
<1>3. CASE FromTasksReturn
  BY <1>0, <1>3 DEF FromTasksReturn, OrdRest, BuiltDeps, buildVars, levelVars
<1>4. ASSUME NEW t \in TaskIds, NEW d \in TaskIds, InjectDependency(t, d)
      PROVE OrdRest'
  BY <1>4 DEF InjectDependency, WellFormedInput
<1>5. CASE StartLevels
  <2>1. remaining' = TaskIds
    <3>1. \A k \in TaskIds : tasks[k].id = k
      BY <1>0 DEF OrdRest
    <3>2. QED
      BY <3>1, <1>5 DEF StartLevels
  <2>2. /\ levels' = <<>> /\ completed' = {} /\ currentLevel' = {}
        /\ scanned' = {} /\ UNCHANGED <<tasks, buildVars>> /\ pc = "built"
        /\ pc' = IF remaining' = {} THEN "done" ELSE "scan"
    BY <1>5 DEF StartLevels
  <2>3. QED
    BY <1>0, <2>1, <2>2 DEF OrdRest, BuiltDeps, buildVars
<1>6. ASSUME NEW t \in IdRange, ScanMissingKey(t) PROVE OrdRest'
  BY <1>0, <1>6 DEF ScanMissingKey, OrdRest, BuiltDeps, buildVars
<1>7. ASSUME NEW t \in IdRange, ScanReady(t) PROVE OrdRest'
  BY <1>0, <1>7 DEF ScanReady, OrdRest, BuiltDeps, buildVars
<1>8. ASSUME NEW t \in IdRange, ScanBlocked(t) PROVE OrdRest'
  BY <1>0, <1>8 DEF ScanBlocked, OrdRest, BuiltDeps, buildVars
<1>9. CASE DetectCycle
  BY <1>0, <1>9 DEF DetectCycle, OrdRest, BuiltDeps, buildVars, levelVars
<1>10. CASE CompleteLevel
  <2> USE <1>10
  <2>0. PICK L \in Nat : L = Len(levels)
    BY <1>0 DEF TypeOK
  <2>1. /\ levels \in Seq(SUBSET IdRange) /\ Len(levels') = L + 1
        /\ levels'[L + 1] = currentLevel
        /\ \A m \in 1 .. L : levels'[m] = levels[m]
    BY <2>0, <1>0 DEF TypeOK, CompleteLevel
  <2>2. /\ completed' = completed \cup currentLevel
        /\ remaining' = remaining \ currentLevel
        /\ currentLevel' = {} /\ scanned' = {} /\ pc = "scan"
        /\ pc' = IF remaining' = {} THEN "done" ELSE "scan"
        /\ UNCHANGED <<tasks, buildVars>>
    BY DEF CompleteLevel
  \* the new level is disjoint from every level before it
  <2>3. \A m \in 1 .. L : levels[m] \cap currentLevel = {}
    <3>1. completed = Placed(L)
      BY <2>0 DEF OrdInv, SoundInv
    <3>2. \A m \in 1 .. L : levels[m] \subseteq completed
      BY <3>1 DEF Placed
    <3>3. QED
      BY <1>0, <3>2 DEF OrdRest
  <2>4. \A m, n \in 1 .. Len(levels') :
            m # n => levels'[m] \cap levels'[n] = {}
    <3> SUFFICES ASSUME NEW m \in 1 .. L + 1, NEW n \in 1 .. L + 1, m # n
                 PROVE levels'[m] \cap levels'[n] = {}
      BY <2>1
    <3>1. CASE m \in 1 .. L /\ n \in 1 .. L
      BY <1>0, <3>1, <2>0, <2>1 DEF OrdRest
    <3>2. CASE m = L + 1 \/ n = L + 1
      BY <3>2, <2>0, <2>1, <2>3
    <3>3. QED
      BY <3>1, <3>2, <2>0
  <2>5. QED
    BY <1>0, <2>2, <2>4 DEF OrdRest, BuiltDeps, buildVars
<1>11. CASE UNCHANGED vars
  BY <1>0, <1>11 DEF vars, OrdRest, BuiltDeps
<1>12. QED
  BY <1>1, <1>2, <1>3, <1>4, <1>5, <1>6, <1>7, <1>8, <1>9, <1>10, <1>11
     DEF Next


LEMMA OrdInvStep == WellFormedInput /\ OrdInv /\ [Next]_vars => OrdInv'
BY SoundStep, OrdStep DEF OrdInv

\* A task placed in a level has that level as its LevelOf.
LEMMA LevelOfPlaced ==
    ASSUME OrdInv, NEW t, NEW k \in 1 .. Len(levels), t \in levels[k]
    PROVE  LevelOf(t) = k
<1>1. LevelOf(t) \in 1 .. Len(levels) /\ t \in levels[LevelOf(t)]
  BY DEF LevelOf
<1>2. QED
  BY <1>1 DEF OrdInv, OrdRest

(***************************************************************************)
(* The levels returned order every pair of conflicting tasks as the input  *)
(* does: b's map entry lists a (the builder compared them), LevelsSound    *)
(* puts a in a level before b's, and disjoint levels make that a's level.  *)
(***************************************************************************)
LEMMA OrdInvOrdered == OrdInv => ConflictingTasksOrdered
<1> SUFFICES ASSUME OrdInv, pc = "done"
             PROVE  /\ \A t \in TaskIds : \E k \in 1 .. Len(levels) : t \in levels[k]
                    /\ \A a, b \in TaskIds :
                          a < b /\ SpecConflict(tasks[a], tasks[b])
                              => LevelOf(a) < LevelOf(b)
  BY DEF ConflictingTasksOrdered
<1>0. TypeOK /\ LevelsSound /\ completed = Placed(Len(levels)) /\ OrdRest
  BY DEF OrdInv, SoundInv
<1>1. \A t \in TaskIds : \E k \in 1 .. Len(levels) : t \in levels[k]
  <2>1. completed = TaskIds
    BY <1>0 DEF OrdRest
  <2>2. QED
    BY <1>0, <2>1 DEF Placed
<1>2. ASSUME NEW a \in TaskIds, NEW b \in TaskIds, a < b,
             SpecConflict(tasks[a], tasks[b])
      PROVE  LevelOf(a) < LevelOf(b)
  <2>1. tasks[a] \in TaskRecord(Nat) /\ tasks[b] \in TaskRecord(Nat)
    <3>1. IdRange \subseteq Nat
      BY IdChoicesAssumption DEF IdRange
    <3>2. QED
      BY <1>0, <3>1 DEF TypeOK, TaskRecord
  <2>2. Conflicts(tasks[b], tasks[a])
    BY <1>2, <2>1, ConflictsIsSpecConflict
  <2>3. a \in dependencies[b]
    <3>1. i = N /\ b \in 0 .. (i - 1)
      BY <1>0, NAssumption DEF OrdRest, TaskIds
    <3>2. QED
      BY <1>0, <1>2, <2>2, <3>1 DEF OrdRest, BuiltDeps, TaskIds
  <2>4. PICK kb \in 1 .. Len(levels) : b \in levels[kb]
    BY <1>1
  <2>5. \E m \in 1 .. (kb - 1) : a \in levels[m]
    BY <1>0, <2>3, <2>4 DEF LevelsSound, Placed
  <2>6. PICK m \in 1 .. (kb - 1) : a \in levels[m]
    BY <2>5
  <2>7. LevelOf(a) = m /\ LevelOf(b) = kb
    <3>1. m \in 1 .. Len(levels)
      BY <2>4, <2>6, <1>0 DEF TypeOK
    <3>2. QED
      BY <2>4, <2>6, <3>1, LevelOfPlaced
  <2>8. QED
    BY <2>6, <2>7
<1>3. QED
  BY <1>1, <1>2

(***************************************************************************)
(* Serial equivalence of the returned plan, for every number of tasks and  *)
(* every resource set, when ids are positions and the caller leaves the    *)
(* map alone: when execution_levels returns, every task is in a level and  *)
(* of two conflicting tasks the earlier one is in a strictly earlier       *)
(* level, whatever order the HashSet scan took.                            *)
(***************************************************************************)
THEOREM SerialEquivalence ==
    WellFormedInput => (Spec => []ConflictingTasksOrdered)
<1> SUFFICES ASSUME WellFormedInput PROVE Spec => []ConflictingTasksOrdered
  OBVIOUS
<1>1. Init => OrdInv
  BY OrdInit
<1>2. OrdInv /\ [Next]_vars => OrdInv'
  BY OrdInvStep
<1>3. QED
  BY <1>1, <1>2, OrdInvOrdered, PTL DEF Spec


\* At the return, the partition of the ids and the disjoint levels put each
\* task in exactly one level.
LEMMA OrdInvOnce == OrdInv => EveryTaskScheduledOnce
<1> SUFFICES ASSUME OrdInv, pc = "done", NEW t \in TaskIds
             PROVE  Cardinality({k \in 1 .. Len(levels) : t \in levels[k]}) = 1
  BY DEF EveryTaskScheduledOnce
<1>0. TypeOK /\ completed = Placed(Len(levels)) /\ OrdRest
  BY DEF OrdInv, SoundInv
<1>1. PICK k \in 1 .. Len(levels) : t \in levels[k]
  <2>1. completed = TaskIds
    BY <1>0 DEF OrdRest
  <2>2. QED
    BY <1>0, <2>1 DEF Placed
<1>2. {m \in 1 .. Len(levels) : t \in levels[m]} = {k}
  <2>1. \A m \in 1 .. Len(levels) : m # k => levels[m] \cap levels[k] = {}
    BY <1>0 DEF OrdRest
  <2>2. QED
    BY <1>1, <2>1
<1>3. QED
  BY <1>2, FS_Singleton

(***************************************************************************)
(* Every task is scheduled exactly once, for every number of tasks and     *)
(* every resource set, when ids are positions and the caller leaves the    *)
(* map alone: execution_levels removes each pushed level from `remaining`  *)
(* and returns only when `remaining` is empty.  depgraph_caller_ids shows  *)
(* that duplicate id fields break this.                                    *)
(***************************************************************************)
THEOREM EveryTaskOnce ==
    WellFormedInput => (Spec => []EveryTaskScheduledOnce)
<1> SUFFICES ASSUME WellFormedInput PROVE Spec => []EveryTaskScheduledOnce
  OBVIOUS
<1>1. Init => OrdInv
  BY OrdInit
<1>2. OrdInv /\ [Next]_vars => OrdInv'
  BY OrdInvStep
<1>3. QED
  BY <1>1, <1>2, OrdInvOnce, PTL DEF Spec

-----------------------------------------------------------------------------
(***************************************************************************)
(* The missing-key panic.  MissingKeyNeedsForeignId is not inductive by    *)
(* itself: ScanMissingKey(t) needs to know that t came from some task's id *)
(* field and that the map's keys are then every position.  from_tasks     *)
(* inserts a key for each position (TypeOK: the map's domain is 0..i-1),   *)
(* it returns only with i = N, and an injection only writes to an existing *)
(* key; `remaining` starts as the set of id fields and only shrinks.       *)
(***************************************************************************)
KeyInv ==
    /\ TypeOK
    /\ pc # "build" => i = N
    /\ remaining \subseteq {tasks[k].id : k \in TaskIds}
    /\ MissingKeyNeedsForeignId

LEMMA KeyInit == Init => KeyInv
BY TypeInit DEF Init, KeyInv, MissingKeyNeedsForeignId

LEMMA KeyStep == KeyInv /\ [Next]_vars => KeyInv'
<1> SUFFICES ASSUME KeyInv, [Next]_vars PROVE KeyInv'
  OBVIOUS
<1>0. TypeOK'
  BY TypeStep DEF KeyInv
<1> USE DEF KeyInv, MissingKeyNeedsForeignId
<1>1. CASE BuildCompare \/ BuildInsert
  BY <1>0, <1>1 DEF BuildCompare, BuildInsert, levelVars
<1>2. CASE FromTasksReturn
  BY <1>0, <1>2 DEF FromTasksReturn, buildVars, levelVars
<1>3. ASSUME NEW t \in TaskIds, NEW d \in TaskIds, InjectDependency(t, d)
      PROVE KeyInv'
  BY <1>0, <1>3 DEF InjectDependency, levelVars
<1>4. CASE StartLevels
  BY <1>0, <1>4 DEF StartLevels, buildVars
<1>5. ASSUME NEW t \in IdRange, ScanMissingKey(t) PROVE KeyInv'
  \* the map's keys are the positions, so the id t is not a position
  <2>1. t \notin TaskIds
    <3>1. i = N /\ DOMAIN dependencies = 0 .. (i - 1)
      BY <1>5 DEF ScanMissingKey, TypeOK
    <3>2. QED
      BY <1>5, <3>1 DEF ScanMissingKey, TaskIds
  <2>2. \E k \in TaskIds : tasks[k].id = t
    BY <1>5 DEF ScanMissingKey
  <2>3. QED
    BY <1>0, <1>5, <2>1, <2>2 DEF ScanMissingKey, buildVars
<1>6. ASSUME NEW t \in IdRange, ScanReady(t) \/ ScanBlocked(t) PROVE KeyInv'
  BY <1>0, <1>6 DEF ScanReady, ScanBlocked, buildVars
<1>7. CASE DetectCycle
  BY <1>0, <1>7 DEF DetectCycle, buildVars, levelVars
<1>8. CASE CompleteLevel
  BY <1>0, <1>8 DEF CompleteLevel, buildVars
<1>9. CASE UNCHANGED vars
  BY <1>0, <1>9 DEF vars
<1>10. QED
  BY <1>1, <1>2, <1>3, <1>4, <1>5, <1>6, <1>7, <1>8, <1>9 DEF Next

(***************************************************************************)
(* For every N, every id assignment and every edge the caller adds: the    *)
(* panic at the map index of execution_levels (dep_graph.rs line 42) only  *)
(* happens when some task's id field is not a position, because from_tasks *)
(* gives every position a key, even a task with no dependency.             *)
(***************************************************************************)
THEOREM MissingKeyOnlyForeignIds == Spec => []MissingKeyNeedsForeignId
<1>1. KeyInv => MissingKeyNeedsForeignId
  BY DEF KeyInv
<1>2. QED
  BY KeyInit, KeyStep, <1>1, PTL DEF Spec
=============================================================================
