# Formal models of `systems-code-walkthrough` (runtime crate)

This directory holds TLA+ models of `src/runtime`, TLC configurations that
model-check them, and TLAPS proofs. `PROJECT.json` lists the components, the
runs, the mutants that show each property can fail, the map from every
definition to the source lines it models, the findings, the hazards and the
theorems.

## 1. Inventory

### Components

| Component | Source | State it keeps | Operations |
|---|---|---|---|
| Task model | `parallel_determinism/types.rs` | `Task { id, name, reads, writes, work }` | `conflicts_with` (pure) |
| Dependency graph builder | `parallel_determinism/dep_graph.rs` `from_tasks` | `tasks: Vec<Task>`, `dependencies: HashMap<TaskId, HashSet<TaskId>>` (both `pub`) | an outer loop over positions `i`, an inner loop over `j < i`, and `insert(i, deps)` |
| Level scheduler | `dep_graph.rs` `execution_levels` | locals `levels`, `completed`, `remaining`, `current_level` | start; scan `remaining` (HashSet order); cycle panic; push level; loop |
| Diagnostics | `dep_graph.rs` `visualize` | none | prints the map and calls `execution_levels` |
| Word workflow | `lib.rs` `tokio_executor`, `commonware_executor`; `tasks.rs` `select_random_word`, `count_word_occurrences` | `Arc<RwLock<Vec<String>>>` shared by two spawned tasks | selector: select, `write().await.push`, sleep, ×5. Counter: `read().await.last()`, count, sleep, ×5. Root: `join!` |
| Spawn demos | `lib.rs` `tokio_tasks`, `commoware_runtime_tasks` | none shared | three tasks print, sleep and are joined |
| Workload mix | `tasks.rs` `greedy_task`, `cpu_cooperative`, `io_bound`, `delayed_work`; tests `test_tasks_types_*` | none shared | four tasks on one worker; only three of them yield |
| Corpus | `tasks.rs` `read_file` | none | file read |

### How the parts interact

A caller builds a `Vec<Task>` and calls `DependencyGraph::from_tasks`. That
call compares each task with every earlier one and records the earlier
position when `task.conflicts_with(other)` holds. The caller then calls
`execution_levels` on the returned graph. The scheduler state is owned by one
thread and no `await` occurs in it. The caller can still act between the two
calls, because `tasks` and `dependencies` are `pub`, and it also supplies
each task's `id` field, which `execution_levels` uses to seed `remaining`.

The word workflow is a different part. Two async tasks share a fair
`tokio::sync::RwLock`, and the root task joins them. On Tokio they run on
several worker threads. On the Commonware deterministic runner they run on one
thread, in a seeded order.

### What is hard

* **Scan order.** `for &task_id in &remaining` walks a `HashSet` with a
  per-instance random hasher, so each run sees its own order.
* **Snapshot semantics.** Readiness is tested against `completed`, which
  changes only after the scan. Changing that order makes the result depend on
  the scan order.
* **Untrusted input.** The ids come from the caller, and the map can be
  mutated by the caller. Mismatched ids, cycles and dangling keys lead to a
  silent drop, a false cycle or a panic.
* **Failure.** A cycle is a `panic!`, not an error value.
* **Async interleaving.** In the word workflow the read guard is held across an
  `.await` (the `if let` temporary). A writer queues behind it on a fair lock.
* **Starvation.** `greedy_task` never yields. On a single worker it starves the
  other tasks.

### What makes each component correct (spec sections 3, 4 and 8)

* Task model: `conflicts_with` is the read/write and write/write overlap
  relation, and it is symmetric.
* Builder: `dependencies[i]` is exactly the set of earlier conflicting
  positions, and every position has a key.
* Scheduler:
  * soundness: every dependency lies in an earlier level;
  * completeness: each task is in exactly one level;
  * greediness: each task is in its earliest possible level;
  * conflicting tasks are ordered as in the input, which gives serial
    equivalence;
  * termination;
  * a cycle is reported as an error value.
* Word workflow: the counted word is the current last word, and both loops and
  the join finish.

## 2. Modules and how they correspond to the code

### `TaskModel.tla` (types.rs)

* `TaskRecord` is the `Task` struct without `name` and `work`. Neither field
  is read by the scheduler.
* `reads` and `writes` are sets. `conflicts_with` only uses `contains`, so
  order and duplicates cannot matter.
* `Conflicts` is `conflicts_with`.
* `SpecConflict` is the relation the spec states. Properties are written with
  it, so a bug in `Conflicts` cannot also change the property.

### `DepGraph.tla` (dep_graph.rs)

The module models both calls together, as one thread.

* `pc` records where that thread is:
  * `build` and `built`: inside `from_tasks`, or between the two calls;
  * `scan`: inside `execution_levels`;
  * `done`, `panic_cycle`, `panic_missing_key`: terminal.
* The other variables are the fields and the locals of the two functions.
* `dependencies` grows key by key, as the `HashMap` does.

| Action | Code |
|---|---|
| `BuildCompare` | one inner iteration (lines 17-21) |
| `BuildInsert` | `dependencies.insert(i, deps)` and the next outer iteration (14-24) |
| `FromTasksReturn` | `Self { .. }` (26-30) |
| `InjectDependency(t, d)` | the caller writing to the pub map (4-7); enabled by `AllowInject` |
| `StartLevels` | lines 32-38, `remaining` from the `id` fields |
| `ScanMissingKey`, `ScanReady`, `ScanBlocked` | one iteration of the scan (41-46), the task chosen from `remaining \ scanned` |
| `DetectCycle` | the panic (48-50) |
| `CompleteLevel` | lines 52-58 and the `while` test |

Constants:

* `N`: the number of tasks.
* `Resources`: the resource names.
* `IdChoices`: the id fields a caller may pass, as functions from position to
  id.
* `AllowInject`: whether the caller may write to the map between the two calls.

Fairness: `WF_vars(Next)`. Both calls are synchronous loops without locks, so
an enabled step is taken.

### `WordPipeline.tla` (lib.rs, tasks.rs)

The module models the selector, the counter, the lock and the join.

* `readers` is the lock state.
* The selector goes through `SelectWord`, then `PushWord`, or `WriteQueued`
  followed by `QueuedPush`, then `SelectorSleep`.
* The counter goes through `ReadLast` or `ReadEmpty`, then `CountWord`, then
  `CounterSleep`.
* The root task's `join!` is `Join`. `Finished` is the stuttering step after
  `block_on` returns.

Modelling choices:

* The read guard is held from `ReadLast` to `CountWord`, which is the `if let`
  temporary.
* `tokio::sync::RwLock` is fair: a reader does not get the lock while a writer
  is queued.
* A word is named by the round whose seed chose it, because
  `select_random_word(.., Some(seed))` is deterministic.
* Steps are cut at lock and sleep points. That is the interleaving the
  multi-threaded Tokio runtime allows. The single-threaded deterministic runner
  produces a subset of those behaviours, so what holds here holds for both
  functions.
* There is one weak-fairness condition per task: both runtimes eventually poll
  a ready task, and their timers fire.

### `DepGraphAbstract.tla` (what `from_tasks` and `execution_levels` promise)

* The abstract specification has three variables. `input` is the `Vec<Task>`
  (ids equal to positions). `result` is the returned levels. `status` says
  whether the calls have returned.
* Its single action `Plan` returns `GreedyLevels` in one step.
  `GreedyLevels` puts each task in `EarliestLevel[t]`, a recursive function:
  one level after the deepest earlier task the task conflicts with under the
  spec's relation `SpecConflict`.
* `DepGraph` instances it as `Abs`, with this refinement mapping:
  * `input <- tasks`;
  * `result <-` `levels` once `pc = "done"`, and `<<>>` before that;
  * `status <- "done"` exactly when `pc = "done"`.

  Every builder and scan step is a stutter of the abstract specification.
  `CompleteLevel`'s last push is the `Plan` step.
* `ImplementsAbstract == Abs!AbsSpec` is checked as a PROPERTY. The check
  covers the initial states, every step, and the fairness of `Plan`, which
  says that the calls return.

### `TaskMix.tla` (tasks.rs, the spawn demos and `test_tasks_types_*` of lib.rs)

The root task spawns a workload and joins all of it. Two workloads are
modelled:

* `TasksTypes` is the four tasks of the tests.
* `SpawnDemo` is the three tasks of `tokio_tasks` and
  `commoware_runtime_tasks`.

How the code maps to the model:

* Each body is cut at its awaits into a list of polls. For each poll the
  model keeps its CPU cost, in units of 10M additions, and the sleep awaited
  at its end.
  * `greedy_task` is one poll of cost 10.
  * `cpu_cooperative` is 11 polls. `i % 10_000_000 == 0` already holds at
    `i = 0`, so the first poll is almost free and sleeps at once.
  * `io_bound` is five 50ms sleeps.
  * `delayed_work` is one 2s sleep.
* There is one worker thread (`with_worker_threads(1)`). A poll holds that
  worker until the next await, so the CPU time of the poll passes for every
  pending timer.
* Time is kept as countdown timers, with no absolute clock.
  * `Fire` wakes a task whose timer has reached 0.
  * `Idle` lets time jump to the earliest timer, and only when no task is
    ready. Both runtimes are work-conserving.
* `cpu` is the CPU time of 10M additions, chosen in Init. The code does not
  fix it. The value 0 stands for the deterministic runner, whose virtual
  clock does not move while a task runs.
* `Join` is `join!`. `Finished` is the stutter after `start` returns.
* Fairness is `WF_vars(Next)`. Both executors keep polling while a task is
  ready, and their timer drivers fire.

### MC modules

* `MCDepGraph.tla` defines the id assignments: positional, any in range, or
  one past the end. It also defines the symmetry over resource names.
* `MCWordPipeline.tla` instantiates `WordPipeline` for the cfg.
* `MCTaskMix.tla` offers both workloads and these CPU costs per 10M
  additions:
  * 0, the virtual clock;
  * 20 ms, a fast machine;
  * 100 ms, a slow one.

## 3. Runs and what they show

| Run | Bounds | Properties | Result |
|---|---|---|---|
| `depgraph_wellformed` | N=4, 2 resources (symmetric), ids = positions; 1.3M states | `TypeOK`, `LevelsSound`, `ConflictingTasksOrdered`, `EveryTaskScheduledOnce` | pass |
| `depgraph_refines` | N=3, 2 resources, ids = positions, no symmetry; 88k states | `ImplementsAbstract` | pass |
| `depgraph_untrusted` | N=2, 2 resources, ids in 0..2, any injection | `LevelsSound`, `MissingKeyNeedsForeignId`, `Termination` | pass |
| `depgraph_cycle_panics` | N=2, injection | `CycleIsNotACrash` | violation (finding) |
| `depgraph_caller_ids` | N=3, ids in 0..2 | `EveryTaskScheduledOnce` | violation (finding) |
| `word_pipeline` | 5 rounds, as in the code | `TypeOK`, `CountedWordIsLast`, `WorkflowCompletes` | pass |
| `task_mix` | both workloads, 3 CPU speeds; 1276 states | `GreedyDelaysCooperative`, `DelayedWorkFinishesLast`, `EveryTaskCompletes` | pass |

### Well-formed input and the refinement

`ConflictingTasksOrdered` is the serial-equivalence license: of two
conflicting tasks, the earlier one is in an earlier level.

`EveryTaskScheduledOnce` holds for well-formed input and fails for duplicate
ids (`depgraph_caller_ids`). The two runs together show that the caller's ids
are what it rests on.

`ImplementsAbstract` compares the returned levels with the greedy leveling of
the abstract specification. It checks four things in one property:

* the builder;
* the scan, in every HashSet order;
* completeness;
* greediness.

It runs without symmetry, because it is a temporal property. That is why it
runs at N=3. N=4 takes about 24 minutes.

Why these bounds are enough:

* N=4 over 2 resources gives chains of length 4.
* It gives diamonds, where two tasks depend on one and are depended on by a
  fourth.
* It gives read-read pairs that must not conflict.
* It gives every scan order of up to 4 remaining tasks.
* N=3 already has chains, forks and a task placed after two others, so every
  shape of greedy placement appears in the refinement run.

### Untrusted input

The untrusted run is small (N=2) because the injected maps multiply the
states. It still reaches every untrusted case:

* self-cycles and 2-cycles;
* duplicate ids that make a false cycle;
* an id past the last key, which gives the missing-key panic.

`MissingKeyNeedsForeignId` says that this panic needs an id that is not a
position, whatever edges the caller adds. The builder inserts a key for every
position, even for tasks with no dependencies. A caller removing a key is not
modelled.

### The workload mix

Each property of `task_mix` holds on both runtimes.

* `GreedyDelaysCooperative`: `cpu_cooperative` never finishes before
  `greedy_task`. Its 10µs sleep only elapses while the worker burns CPU or
  idles, and the worker does not idle while `greedy_task` is queued.
  * A cooperative loop whose sleep is not awaited would not yield, and it
    finishes first in some run. That is the mutant.
* `DelayedWorkFinishesLast`: `delayed_work`'s 2s outlasts everything else.
  * This depends on the CPU speed. The greedy and cooperative work is 20 units
    of 10M additions, and it must take under 2s.
  * TLC confirms the property up to 100 ms per unit in the run, and up to
    105 ms in a one-off check.
  * With 110 ms per unit the property is violated: `delayed_work` wakes while
    `cpu_cooperative` still has polls left.
  * The code therefore guarantees this order only on a fast enough worker, or
    on the virtual clock. `DelayedWorkOutlastsMix` (section 4) proves it for
    every speed below 87.5 ms per unit.
* `EveryTaskCompletes`: the `join!` covers every handle, so every task
  finishes before the runtime is dropped.

### Findings

1. `dep_graph.rs:49`: a cycle is a `panic!`. Spec section 7 asks for a
   `CycleDetected` error value naming the stuck ids.
2. `dep_graph.rs:35`: `remaining` is built from the caller's `id` fields.
   * TLC's trace has three tasks whose `id` is 0. `execution_levels` returns
     `[[0]]` without error, and two tasks are never scheduled.
   * With permuted ids, a task is tested against another task's dependency
     set.
   * With an id past the end, the map index at line 42 panics.

### Mutants

Every property of a passing run has a mutant in `PROJECT.json` that TLC
finds violating it:

* a level built with `completed` updated eagerly;
* only one task pushed per level;
* the scanned ids, not the collected ones, taken out of `remaining`;
* write-write dropped from `conflicts_with`;
* an empty pass retried instead of panicking;
* ids taken as 1-based positions;
* no key inserted for a task with no dependencies;
* the read guard dropped before the count;
* off-by-one loop bounds in the workflow;
* an un-awaited yield;
* a 50s I/O wait instead of 50ms;
* a handle left out of `join!`.

## 4. What is proved (TLAPS)

### `DepGraphProofs.tla`

* `ConflictsIsSpecConflict`: for all tasks, `Conflicts` is `SpecConflict`, so
  it is symmetric.
* `TypeCorrect`: `Spec => []TypeOK`. `TypeOK` is inductive on its own
  (lemmas `TypeInit` and `TypeStep`).
* `LevelsSoundness`: `Spec => []LevelsSound`. It holds for every `N`, every
  resource set, every id assignment and every injected map.
* `SerialEquivalence`: `WellFormedInput => (Spec => []ConflictingTasksOrdered)`.
  `WellFormedInput` means ids equal to positions and an untouched map.
* `EveryTaskOnce`: `WellFormedInput => (Spec => []EveryTaskScheduledOnce)`.

`LevelsSound` is not inductive on its own. `CompleteLevel` pushes
`currentLevel`, so the invariant must also say three things:

* every task collected in `currentLevel` had its dependencies in `completed`;
* `completed` is the union of the pushed levels;
* before `execution_levels` starts, no level exists, which covers the phase
  where the map can still change.

That strengthening is `SoundInv`. TLC checked it as an invariant of the
untrusted configuration before it was proved. The proof has one step per
action. The `CompleteLevel` step shows that appending a level leaves the union
of the earlier levels unchanged.

`SerialEquivalence` needs more: `OrdInv` extends `SoundInv` with the
following.

* The builder invariant: every key already inserted maps to `BuiltDeps(k)`,
  the earlier positions that `k` conflicts with. The `deps` under construction
  is the prefix scanned so far.
* Every task is in exactly one of `remaining` and `completed` once
  `execution_levels` has started, and `currentLevel` lies in `remaining`.
* The pushed levels are pairwise disjoint, and `done` leaves nothing
  remaining.

From `OrdInv`:

* the earlier task of a conflicting pair is a dependency of the later one;
* `LevelsSound` puts the dependency in a strictly earlier level;
* disjointness makes each task's level unique (`LevelOfPlaced`).

The same invariant gives `EveryTaskOnce` (lemma `OrdInvOnce`). At `done`,
`remaining` is empty, so `completed`, the union of the levels, is every id.
Disjointness leaves one level per task, and `FS_Singleton` counts it.

The missing-key panic:

* `MissingKeyOnlyForeignIds`: `Spec => []MissingKeyNeedsForeignId`, for every
  input and every dependency edge the caller adds. The strengthening `KeyInv`
  adds two facts:
  * once the builder is done, `i = N`, so the map's domain is exactly the
    positions `0..N-1`;
  * `remaining` holds only ids of the input tasks.

  `ScanMissingKey` can only fire on an id outside that domain. Since `TaskIds`
  is that domain, the id is a foreign one.
* The caller model only adds edges to existing keys. `dependencies` is a
  `pub` field, so a caller could also `remove` a key; then line 42 panics
  with positional ids. That case is outside the model and the theorem.

### `WordPipelineProofs.tla`

* `TypeCorrect`: `Spec => []TypeOK` for every `Rounds`. It is strengthened by
  `Len(selected) = Pushed`, because nothing else bounds what the counter
  records.
* `CountedWordIsLastHolds`: `Spec => []CountedWordIsLast`. The strengthening
  `LastInv` says two things:
  * the counter holds the read guard exactly while it counts;
  * the word it read is then the last one.

  The push needs `readers = 0`, so it cannot happen in between.

### `OrderLemmas.tla`

`NatSetHasMin`: every non-empty set of naturals has a least element. It is
taken from `WFMin` and `NatLessThanWellFounded` of `WellFoundedInduction`.
Neither of these has an operator parameter, so the provers can use them. The
refinement and the idle step of `TaskMix` both cite it.

### `TaskMixProofs.tla`

* `GreedyStarvesCooperative`:
  `CodeWorkloads => (Spec => []GreedyDelaysCooperative)`, for every value of
  the CPU speed.
  * `CodeWorkloads` restricts the workload constant to the two workloads the
    code has.
  * The strengthening `StarveInv` says that while the greedy task is
    unfinished, it is always ready.
  * The cooperative task has either never been polled, or been polled once and
    is asleep on a running timer.
  * A ready task keeps the executor from idling, so no timer fires and the
    cooperative task cannot become ready again.
* `DelayedWorkOutlastsMix`:
  `CodeWorkloads /\ FastEnough => (Spec => []DelayedWorkFinishesLast)`.
  * `FastEnough` says `Budget(c) = 20c + 250000 < 2000000` for every
    speed `c` in `CpuCosts`, i.e. below 87.5 ms per 10M additions.
  * The argument is a potential. `Pot` bounds the time the other three tasks
    still need: `cpu * (GreedyLeft + CoopLeft)` for the additions still to
    run, plus the longer of the two sleep chains still ahead (cooperative:
    the running timer plus 10µs per sleep left; `io_bound`: the running
    timer plus 50ms per sleep left).
  * At the start `Pot = Budget(cpu)`, below the 2s that `delayed_work`'s
    first poll puts on its timer. That poll costs no CPU time, so it leaves
    `Pot` unchanged.
  * A poll of another task costs `PollCost(t)`. It takes at least that
    much off `Pot` and at most that much off `delayed_work`'s timer
    (`PollOther`).
  * An idle stretch of length `d` happens only while every unfinished task
    sleeps. It takes `d` off every running chain, so off `Pot`, and exactly
    `d` off `delayed_work`'s timer (`IdleBound`).
  * So `timer[delayed] > Pot` holds while another task is unfinished. The
    timer can only reach 0, and `delayed_work` be polled again, after the
    others are done.
  * The inductive invariant `DelayedInv` holds the type invariant,
    `TimersParked` (no timer without a sleep; no poll yet means ready) and
    `DelayedAhead` (the bound clauses). TLC checked it as an invariant at
    speeds 0, 20000 and 87499 µs before it was proved. At 87500 TLC
    finds it violated: a first poll of `delayed_work` sets a timer equal to
    the bound.
  * The hypothesis is sufficient, not necessary: the property still holds at
    105 ms and fails at 110 ms. The speeds in between are only model-checked
    (at 100 ms, by `task_mix`). The bound charges `io_bound`'s 250ms of
    sleep in full even when the additions run while it sleeps.
* `TypeInv` bounds every task's poll count by its body's length, with
  completion exactly at the end. The idle step's advance of time is the least
  running timer, which `NatSetHasMin` shows to exist.

### `DepGraphRefinement.tla`

* `RefinesAbstractSafety`:
  `WellFormedInput => (Spec => Abs!AbsInit /\ [][Abs!Plan]_(Abs!absVars))`.
  This is the safety half of `ImplementsAbstract`: the levels the code pushes
  are the greedy earliest levels of `DepGraphAbstract`, for every `N` and
  every resource set.

The argument has three parts.

* **The abstract answer without induction.** `EarliestLevel` is a recursive
  function. `IsLeveling(g)` states its defining equation, and two lemmas pin
  it down:
  * `EarliestIsLeveling`: if some `g` satisfies the equation, `CHOOSE` makes
    `EarliestLevel` satisfy it too;
  * `LevelingUnique`: two solutions agree, because the least position where
    they would differ (from `NatSetHasMin`) has its predecessors in
    agreement.
* **The scan is greedy.** `GreedyInv` extends `OrdInv` with four facts:
  * no pushed level is empty;
  * each task in level `k > 1` has a dependency in level `k-1`;
  * a task scanned but not collected was blocked;
  * while scanning, every remaining task still has a dependency outside the
    levels before the last one.

  TLC checked `GreedyInv` at `N = 4` (1.29M states) before it was proved.
  At `done`, these facts make `Lvl` (each task's level) a solution of the
  equation. So `levels = Abs!GreedyLevels` (`DoneIsGreedy`).
* **Step simulation.** `RefInv` is `GreedyInv` together with
  `pc = "done" => levels = Abs!GreedyLevels`. With `RefInv` on both sides of
  a step, every step of `Next` is a `Plan` step or a stutter of `absVars`.
  The temporal step is `PTL`.

The assumptions are `NAssumption` (`N \in Nat`), `IdChoicesAssumption`,
`AllowInjectAssumption` and `RoundsAssumption`. The hypotheses that restrict
inputs are `WellFormedInput` (`DepGraph`) and `CodeWorkloads` (`TaskMix`).

The modules that hold theorems reach no `RECURSIVE` operator.
`DepGraphAbstract`'s `EarliestLevel` is a recursive *function*.

One caveat on the SMT backend of tlapm 1.4.5 bears on how these proofs are
written. It translates a singleton `{CHOOSE x \in S : P}` as the filter
`{x \in S : P}`. So it proves, for example,
`{CHOOSE x \in {1, 2} : TRUE} = {1, 2}`. No proved definition puts a
`CHOOSE` inside braces; only the TLC mutants `CompleteLevelOne` and
`JoinMissingOne` do.

A second quirk: SMT fails on arithmetic over a primed *defined* operator,
such as `Pot' + 1 \in Nat` or `c * GreedyLeft' \in Nat`. Primed function
applications such as `timer'[u]` are fine. `TaskMixProofs` therefore names
such values with `PICK p \in Nat : p = Pot'`, reasons about `p`, and
substitutes back with Zenon.

To check that the refinement proof is not vacuous, it was rerun against a
copy of `DepGraph` where `ScanBlocked` lacks its guard. That copy defers a
ready task. The proof then fails at `GreedyStep`, as it should.

### Left to TLC

* Liveness:
  * `Termination`, `WorkflowCompletes` and `EveryTaskCompletes`;
  * the fairness part of `ImplementsAbstract`.

  TLAPS does not handle fairness or ENABLED.
* `DelayedWorkFinishesLast` for speeds from 87.5 ms up to the real
  threshold (between 105 and 110 ms per 10M additions). Here the order
  depends on how the CPU time overlaps `io_bound`'s sleeps, which the
  potential bound over-approximates. `task_mix` checks it at 100 ms.

## 5. Not modelled

* `visualize`: it only prints.
* `read_file`: it is I/O.
* The Tokio and Commonware runtimes: they are external. The models assume
  three things:
  * ready tasks are eventually polled;
  * the RwLock is fair;
  * one worker is work-conserving.

  Commonware's supervision rules (a task aborted when its parent's context
  completes) are not in this repository. The code avoids them by spawning
  from cloned contexts.
* The prints and the `wrapping_add` results: no property is about output. The
  sum cannot overflow a `u64` for 100M terms.

## 6. Plan

1. `TaskModel`, `DepGraph`, `MCDepGraph`, `DepGraphProofs`: done.
2. `WordPipeline` and `MCWordPipeline`, with `WordPipelineProofs`: done.
3. `DepGraphAbstract` and the refinement run: done.
4. `TaskMix`, with the spawn demos and the workload mix: done.

5. `OrderLemmas`, `TaskMixProofs`, `DepGraphRefinement`: the missing-key
   property, the starvation property and the safety part of the refinement
   are proved.
6. `DepGraphProofs`: `EveryTaskScheduledOnce` for well-formed input.
   `TaskMixProofs`: `DelayedWorkFinishesLast` is proved for every speed
   below 87.5 ms per 10M additions. Every safety invariant of a passing run
   now has a theorem.

Still open:

* A property for the counter's interleaving at `lib.rs:130`, if the code ever
  states which words must be counted.
