------------------------------ MODULE DepGraph ------------------------------
(***************************************************************************)
(* DependencyGraph (src/runtime/src/parallel_determinism/dep_graph.rs): a  *)
(* caller builds the graph with from_tasks and then asks for its           *)
(* execution_levels.  Both loops are modelled step by step: one step per   *)
(* pairwise comparison of the builder, one step per task visited by the    *)
(* leveling scan, so that the HashSet iteration order of `remaining` (a    *)
(* per-instance random order in Rust) is a nondeterministic choice.        *)
(*                                                                         *)
(* The caller is the environment: it supplies the task list, including     *)
(* each task's `id` field (which execution_levels trusts), and, because    *)
(* `dependencies` is a pub field, it may add entries to the map between    *)
(* the two calls.  IdChoices and AllowInject say how much it may do.       *)
(***************************************************************************)
EXTENDS TaskModel, Naturals, Sequences, FiniteSets

CONSTANTS
    N,            \* number of tasks handed to from_tasks
    IdChoices,    \* the id assignments (position -> id field) a caller may pass
    AllowInject   \* may the caller add to the pub `dependencies` map?

TaskIds == 0 .. (N - 1)          \* positions in the Vec<Task>

ASSUME NAssumption == N \in Nat
ASSUME IdChoicesAssumption == IdChoices \subseteq [TaskIds -> Nat]
ASSUME AllowInjectAssumption == AllowInject \in BOOLEAN

\* Every id a caller may put in a task's id field.
IdRange == UNION {{f[k] : k \in TaskIds} : f \in IdChoices}

\* The states of the caller's thread: building, between the two calls,
\* scanning the remaining set, returned, or panicked.
Terminal == {"done", "panic_cycle", "panic_missing_key"}
PcValues == {"build", "built", "scan"} \cup Terminal

VARIABLES
    tasks,         \* DependencyGraph.tasks: position -> task record
    dependencies,  \* DependencyGraph.dependencies: HashMap<TaskId, HashSet<TaskId>>
    i, j,          \* from_tasks: outer and inner loop positions
    deps,          \* from_tasks: the dependency set of task i being built
    levels,        \* execution_levels: the Vec of levels pushed so far
    completed,     \* execution_levels: ids of tasks in pushed levels
    remaining,     \* execution_levels: ids not yet placed
    currentLevel,  \* execution_levels: current_level being collected
    scanned,       \* execution_levels: ids of `remaining` visited in this pass
    pc             \* where the caller's thread is

vars == <<tasks, dependencies, i, j, deps, levels, completed, remaining,
          currentLevel, scanned, pc>>

buildVars == <<dependencies, i, j, deps>>
levelVars == <<levels, completed, remaining, currentLevel, scanned>>

\* The tasks in pushed levels 1..k.
Placed(k) == UNION {levels[m] : m \in 1 .. k}

-----------------------------------------------------------------------------
(***************************************************************************)
(* Initial state: the caller has a Vec<Task> of length N whose id fields   *)
(* follow one of IdChoices, and calls from_tasks, which starts with an     *)
(* empty HashMap.                                                          *)
(***************************************************************************)
Init ==
    /\ tasks \in {t \in [TaskIds -> TaskRecord(IdRange)] :
                     [k \in TaskIds |-> t[k].id] \in IdChoices}
    /\ dependencies = [k \in {} |-> {}]
    /\ i = 0
    /\ j = 0
    /\ deps = {}
    /\ levels = <<>>
    /\ completed = {}
    /\ remaining = {}
    /\ currentLevel = {}
    /\ scanned = {}
    /\ pc = "build"

(***************************************************************************)
(* from_tasks, inner loop body: compare task i with the earlier task j and *)
(* record j when task i conflicts with it (task.conflicts_with(other)).    *)
(***************************************************************************)
BuildCompare ==
    /\ pc = "build"
    /\ i < N
    /\ j < i
    /\ deps' = IF Conflicts(tasks[i], tasks[j]) THEN deps \cup {j} ELSE deps
    /\ j' = j + 1
    /\ UNCHANGED <<tasks, dependencies, i, levelVars, pc>>

\* Mutant of BuildInsert: a task with no dependency gets no map entry
\* (`if !deps.is_empty() { dependencies.insert(i, deps) }`).
BuildInsertSkipEmpty ==
    /\ pc = "build"
    /\ i < N
    /\ j = i
    /\ dependencies' = IF deps = {} THEN dependencies
                        ELSE [k \in DOMAIN dependencies \cup {i} |->
                                 IF k = i THEN deps ELSE dependencies[k]]
    /\ i' = i + 1
    /\ j' = 0
    /\ deps' = {}
    /\ UNCHANGED <<tasks, levelVars, pc>>

(***************************************************************************)
(* from_tasks, end of the inner loop: dependencies.insert(i, deps), then   *)
(* the next task starts with a fresh set.  The map's keys are the          *)
(* positions 0..i, not the tasks' id fields.                               *)
(***************************************************************************)
BuildInsert ==
    /\ pc = "build"
    /\ i < N
    /\ j = i
    /\ dependencies' = [k \in 0 .. i |-> IF k = i THEN deps ELSE dependencies[k]]
    /\ i' = i + 1
    /\ j' = 0
    /\ deps' = {}
    /\ UNCHANGED <<tasks, levelVars, pc>>

\* from_tasks returns Self { tasks, dependencies }.
FromTasksReturn ==
    /\ pc = "build"
    /\ i = N
    /\ pc' = "built"
    /\ UNCHANGED <<tasks, buildVars, levelVars>>

(***************************************************************************)
(* The caller writes to the pub `dependencies` field before asking for     *)
(* the levels (the spec's "manual dependency-map injection"): task t is    *)
(* made to depend on task d, whatever their order.                         *)
(***************************************************************************)
InjectDependency(t, d) ==
    /\ AllowInject
    /\ pc = "built"
    /\ t \in DOMAIN dependencies
    /\ d \notin dependencies[t]
    /\ dependencies' = [dependencies EXCEPT ![t] = @ \cup {d}]
    /\ UNCHANGED <<tasks, i, j, deps, levelVars, pc>>

\* Mutant of StartLevels: ids taken as 1-based positions.
StartLevelsOneBased ==
    /\ pc = "built"
    /\ levels' = <<>>
    /\ completed' = {}
    /\ remaining' = {k + 1 : k \in TaskIds}
    /\ currentLevel' = {}
    /\ scanned' = {}
    /\ pc' = IF remaining' = {} THEN "done" ELSE "scan"
    /\ UNCHANGED <<tasks, buildVars>>

(***************************************************************************)
(* execution_levels entry: levels and completed empty, remaining the set   *)
(* of the tasks' id fields, then the `while !remaining.is_empty()` test.   *)
(***************************************************************************)
StartLevels ==
    /\ pc = "built"
    /\ levels' = <<>>
    /\ completed' = {}
    /\ remaining' = {tasks[k].id : k \in TaskIds}
    /\ currentLevel' = {}
    /\ scanned' = {}
    /\ pc' = IF remaining' = {} THEN "done" ELSE "scan"
    /\ UNCHANGED <<tasks, buildVars>>

(***************************************************************************)
(* One iteration of `for &task_id in &remaining`, in the HashSet's order:  *)
(* self.dependencies[&task_id] panics when the id is not a key.            *)
(***************************************************************************)
ScanMissingKey(t) ==
    /\ pc = "scan"
    /\ t \in remaining \ scanned
    /\ t \notin DOMAIN dependencies
    /\ pc' = "panic_missing_key"
    /\ UNCHANGED <<tasks, buildVars, levels, completed, remaining,
                   currentLevel, scanned>>

\* Mutant of ScanReady: the task is marked completed as soon as it is found.
ScanReadyEager(t) ==
    /\ pc = "scan"
    /\ t \in remaining \ scanned
    /\ t \in DOMAIN dependencies
    /\ dependencies[t] \subseteq completed
    /\ currentLevel' = currentLevel \cup {t}
    /\ completed' = completed \cup {t}
    /\ scanned' = scanned \cup {t}
    /\ UNCHANGED <<tasks, buildVars, levels, remaining, pc>>

\* ... all its dependencies are completed: current_level.push(task_id).
ScanReady(t) ==
    /\ pc = "scan"
    /\ t \in remaining \ scanned
    /\ t \in DOMAIN dependencies
    /\ dependencies[t] \subseteq completed
    /\ currentLevel' = currentLevel \cup {t}
    /\ scanned' = scanned \cup {t}
    /\ UNCHANGED <<tasks, buildVars, levels, completed, remaining, pc>>

\* ... some dependency is not completed: the task is skipped this pass.
ScanBlocked(t) ==
    /\ pc = "scan"
    /\ t \in remaining \ scanned
    /\ t \in DOMAIN dependencies
    /\ ~(dependencies[t] \subseteq completed)
    /\ scanned' = scanned \cup {t}
    /\ UNCHANGED <<tasks, buildVars, levels, completed, remaining,
                   currentLevel, pc>>

\* Mutant of DetectCycle: an empty pass is retried instead of panicking.
DetectCycleRetry ==
    /\ pc = "scan"
    /\ scanned = remaining
    /\ currentLevel = {}
    /\ scanned' = {}
    /\ UNCHANGED <<tasks, buildVars, levels, completed, remaining,
                   currentLevel, pc>>

\* After the scan, an empty level: panic!("Circular dependency detected!").
DetectCycle ==
    /\ pc = "scan"
    /\ scanned = remaining
    /\ currentLevel = {}
    /\ pc' = "panic_cycle"
    /\ UNCHANGED <<tasks, buildVars, levelVars>>

\* Mutant of CompleteLevel: only one ready task is moved per level.
CompleteLevelOne ==
    /\ pc = "scan"
    /\ scanned = remaining
    /\ currentLevel # {}
    /\ LET t == CHOOSE x \in currentLevel : TRUE IN
       /\ completed' = completed \cup {t}
       /\ remaining' = remaining \ {t}
       /\ levels' = Append(levels, {t})
    /\ currentLevel' = {}
    /\ scanned' = {}
    /\ pc' = IF remaining' = {} THEN "done" ELSE "scan"
    /\ UNCHANGED <<tasks, buildVars>>

\* Mutant of CompleteLevel: the scanned ids, not the collected ones, are
\* taken out of remaining.
CompleteLevelDropScanned ==
    /\ pc = "scan"
    /\ scanned = remaining
    /\ currentLevel # {}
    /\ completed' = completed \cup currentLevel
    /\ remaining' = remaining \ scanned
    /\ levels' = Append(levels, currentLevel)
    /\ currentLevel' = {}
    /\ scanned' = {}
    /\ pc' = IF remaining' = {} THEN "done" ELSE "scan"
    /\ UNCHANGED <<tasks, buildVars>>

(***************************************************************************)
(* After the scan, a non-empty level: its ids move from remaining to       *)
(* completed, the level is pushed, and the while condition is re-tested.   *)
(***************************************************************************)
CompleteLevel ==
    /\ pc = "scan"
    /\ scanned = remaining
    /\ currentLevel # {}
    /\ completed' = completed \cup currentLevel
    /\ remaining' = remaining \ currentLevel
    /\ levels' = Append(levels, currentLevel)
    /\ currentLevel' = {}
    /\ scanned' = {}
    /\ pc' = IF remaining' = {} THEN "done" ELSE "scan"
    /\ UNCHANGED <<tasks, buildVars>>

Next ==
    \/ BuildCompare
    \/ BuildInsert
    \/ FromTasksReturn
    \/ \E t \in TaskIds, d \in TaskIds : InjectDependency(t, d)
    \/ StartLevels
    \/ \E t \in IdRange :
          ScanMissingKey(t) \/ ScanReady(t) \/ ScanBlocked(t)
    \/ DetectCycle
    \/ CompleteLevel

(***************************************************************************)
(* The caller's thread runs the two calls to the end: both are plain       *)
(* synchronous loops with no lock or await, so a step that stays enabled   *)
(* is eventually taken.                                                    *)
(***************************************************************************)
Spec == Init /\ [][Next]_vars /\ WF_vars(Next)

-----------------------------------------------------------------------------
(***************************************************************************)
(* Properties.                                                             *)
(***************************************************************************)

\* Type invariant.
TypeOK ==
    /\ tasks \in [TaskIds -> TaskRecord(IdRange)]
    /\ i \in 0 .. N
    /\ j \in 0 .. i
    /\ deps \subseteq TaskIds
    /\ dependencies \in [0 .. (i - 1) -> SUBSET TaskIds]
    /\ levels \in Seq(SUBSET IdRange)
    /\ completed \subseteq IdRange
    /\ remaining \subseteq IdRange
    /\ currentLevel \subseteq IdRange
    /\ scanned \subseteq IdRange
    /\ pc \in PcValues

(***************************************************************************)
(* Leveling soundness (spec section 8): every task in a pushed level had   *)
(* all the dependencies the map gave it placed in strictly earlier levels, *)
(* whatever the map holds, injected entries included.  This is what makes *)
(* the barrier between levels enough; it rests on execution_levels not     *)
(* updating `completed` until the scan of a pass is over.                  *)
(***************************************************************************)
LevelsSound ==
    \A k \in 1 .. Len(levels) :
        \A t \in levels[k] :
            /\ t \in DOMAIN dependencies
            /\ dependencies[t] \subseteq Placed(k - 1)

(***************************************************************************)
(* Refinement mapping to DepGraphAbstract: the caller sees no result until *)
(* execution_levels returns, and then the levels it pushed.                *)
(***************************************************************************)
Abs == INSTANCE DepGraphAbstract WITH
           input  <- tasks,
           result <- IF pc = "done" THEN levels ELSE <<>>,
           status <- IF pc = "done" THEN "done" ELSE "planning"

(***************************************************************************)
(* from_tasks + execution_levels implement the planner the spec promises   *)
(* (section 3, invariants 1-3, and section 4.3): whatever order the        *)
(* HashSet scan takes, the two calls eventually return exactly the greedy  *)
(* earliest-placement leveling -- every task in one level, each at the     *)
(* first level after the earlier tasks it conflicts with, no empty level  *)
(* -- and show nothing before that.                                        *)
(***************************************************************************)
ImplementsAbstract == Abs!AbsSpec

\* The level a placed task ended up in.
LevelOf(t) == CHOOSE k \in 1 .. Len(levels) : t \in levels[k]

(***************************************************************************)
(* Serial equivalence (spec sections 3 and 5): when execution_levels       *)
(* returns, every task appears in a level, and of two tasks that conflict  *)
(* the one earlier in the input is in a strictly earlier level, so running *)
(* each level concurrently with a barrier between levels is equivalent to  *)
(* running the tasks one by one in input order.                            *)
(***************************************************************************)
ConflictingTasksOrdered ==
    pc = "done" =>
        /\ \A t \in TaskIds : \E k \in 1 .. Len(levels) : t \in levels[k]
        /\ \A a, b \in TaskIds :
              a < b /\ SpecConflict(tasks[a], tasks[b])
                  => LevelOf(a) < LevelOf(b)

(***************************************************************************)
(* The missing-key panic of execution_levels (the map indexed at line 42) *)
(* is a caller's fault only: it can happen mid-leveling only when some     *)
(* task's id field is not one of the positions from_tasks used as keys,    *)
(* whatever dependency edges the caller adds to the map (a caller that     *)
(* removes a key through the pub field is not modelled).                   *)
(***************************************************************************)
MissingKeyNeedsForeignId ==
    pc = "panic_missing_key" => \E k \in TaskIds : tasks[k].id \notin TaskIds

(***************************************************************************)
(* Termination (spec section 4.3): from_tasks and execution_levels always  *)
(* return or fail, even when the caller's map has a cycle or its ids do    *)
(* not match positions; a pass that places nothing must not loop forever. *)
(***************************************************************************)
Termination == <>(pc \in Terminal)

(***************************************************************************)
(* Spec section 7: a cycle is a CycleDetected error value returned to the  *)
(* caller, not a crash of the process.  The code panics.                   *)
(***************************************************************************)
CycleIsNotACrash == pc # "panic_cycle"

(***************************************************************************)
(* Spec sections 3 and 4.2: a task's TaskId is its position, so when the   *)
(* levels are returned every task of the input, by position, is in exactly *)
(* one level.  The code collects `remaining` from the id fields.           *)
(***************************************************************************)
EveryTaskScheduledOnce ==
    pc = "done" =>
        \A t \in TaskIds :
            Cardinality({k \in 1 .. Len(levels) : t \in levels[k]}) = 1
=============================================================================
