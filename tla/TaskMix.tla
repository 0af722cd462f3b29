------------------------------- MODULE TaskMix -------------------------------
(***************************************************************************)
(* Tasks of src/runtime/src/tasks.rs and the spawn demos of lib.rs run on  *)
(* one executor: the root task spawns a fixed set of tasks and joins them. *)
(*                                                                         *)
(* A task body is cut at its awaits.  A poll runs the code between two     *)
(* awaits without interruption (nothing in these bodies can be preempted   *)
(* by the executor) and costs the CPU time of that code; every await is a  *)
(* context.sleep / tokio::time::sleep.  With one worker thread               *)
(* (test_tasks_types_tokio) a poll holds the only worker, so the time it   *)
(* costs passes for every pending timer.  The deterministic runtime        *)
(* (test_tasks_types_commonware, commoware_runtime_tasks) keeps a virtual  *)
(* clock that only moves when no task is ready, so there a poll costs 0.   *)
(* How long the additions take is not fixed by the code: the cost of       *)
(* 10_000_000 of them is chosen once, in Init, from CpuCosts (0 standing   *)
(* for the virtual clock).  Likewise the workload the root task spawns.    *)
(*                                                                         *)
(* Time is kept as Lamport's countdown timers: for each sleeping task the  *)
(* time still to wait, never an absolute clock.  Which ready task is       *)
(* polled next is the runtime's choice and left free; the executor never   *)
(* idles while a task is ready (both runtimes are work-conserving).         *)
(***************************************************************************)
EXTENDS Naturals, Sequences

CONSTANTS
    Workloads,  \* the task sets the root task may spawn (name -> Body)
    CpuCosts    \* possible CPU times, in us, of 10_000_000 wrapping_adds

ASSUME CpuCostsAssumption == CpuCosts \subseteq Nat /\ CpuCosts # {}

(***************************************************************************)
(* A body as the executor sees it: cost[k] is the work of the k-th poll,  *)
(* in units of 10_000_000 additions, and sleep[k] the sleep (us) awaited  *)
(* at its end; the last poll returns Ready.                                *)
(***************************************************************************)
Body(costs, sleeps) == [cost |-> costs, sleep |-> sleeps]

\* greedy_task: 100_000_000 additions and no await, so a single poll.
GreedyTask == Body(<<10>>, <<>>)

\* Mutant of CpuCooperative: the sleep future created but never awaited,
\* so the loop never yields.
CpuCooperativeNoAwait == Body(<<10>>, <<>>)

(***************************************************************************)
(* cpu_cooperative: `i % 10_000_000 == 0` already holds at i = 0, so the   *)
(* first poll does one addition and sleeps 10us; each of the next nine     *)
(* polls does 10_000_000 additions and sleeps again (i = 10M .. 90M); the  *)
(* last poll does the remaining additions and prints the result.           *)
(***************************************************************************)
CpuCooperative ==
    Body(<<0>> \o [k \in 1 .. 10 |-> 1], [k \in 1 .. 10 |-> 10])

\* Mutant of IoBound: the step wait written Duration::from_secs(50).
IoBoundSecs == Body([k \in 1 .. 6 |-> 0], [k \in 1 .. 5 |-> 50000000])

\* io_bound: five steps, each a print and a 50ms sleep, then "I/O: Done".
IoBound == Body([k \in 1 .. 6 |-> 0], [k \in 1 .. 5 |-> 50000])

\* delayed_work: print, sleep 2s, print.
DelayedWork == Body(<<0, 0>>, <<2000000>>)

(***************************************************************************)
(* test_tasks_types_tokio and test_tasks_types_commonware: the root task   *)
(* spawns the four tasks from cloned contexts and joins all four handles.  *)
(***************************************************************************)
TasksTypes ==
    [t \in {"greedy", "cpu_cooperative", "io_bound", "delayed"} |->
        CASE t = "greedy"          -> GreedyTask
          [] t = "cpu_cooperative" -> CpuCooperative
          [] t = "io_bound"        -> IoBound
          [] t = "delayed"         -> DelayedWork]

(***************************************************************************)
(* tokio_tasks and commoware_runtime_tasks: tasks 1 and 2 print, sleep     *)
(* 10ms and print; task 3 has its sleep commented out and prints twice.    *)
(***************************************************************************)
SpawnDemo ==
    [t \in {"task1", "task2", "task3"} |->
        IF t = "task3" THEN Body(<<0>>, <<>>)
                       ELSE Body(<<0, 0>>, <<10000>>)]

VARIABLES
    prog,    \* the workload spawned: task name -> Body
    cpu,     \* CPU time of 10_000_000 additions on this run
    st,      \* per task: "ready" (in the run queue), "sleeping" or "done"
    polls,   \* per task: polls completed so far
    timer,   \* per sleeping task: time left before its sleep elapses
    joined   \* the root task's join! has returned

vars == <<prog, cpu, st, polls, timer, joined>>

Tasks == DOMAIN prog

\* Time d passing for a pending sleep with t left.
Elapse(t, d) == IF t > d THEN t - d ELSE 0

\* All tasks spawned and in the run queue; the root task awaits the join.
Init ==
    /\ prog \in Workloads
    /\ cpu \in CpuCosts
    /\ st = [t \in Tasks |-> "ready"]
    /\ polls = [t \in Tasks |-> 0]
    /\ timer = [t \in Tasks |-> 0]
    /\ joined = FALSE

(***************************************************************************)
(* The worker polls ready task t: it runs t's code up to the next await,   *)
(* which takes that code's CPU time for every other pending sleep, and     *)
(* then t either sleeps or has finished.                                   *)
(***************************************************************************)
Poll(t) ==
    LET k    == polls[t] + 1
        body == prog[t]
        last == k = Len(body.cost)
    IN  /\ ~joined
        /\ st[t] = "ready"
        /\ polls' = [polls EXCEPT ![t] = k]
        /\ st' = [st EXCEPT ![t] = IF last THEN "done" ELSE "sleeping"]
        /\ timer' = [u \in Tasks |->
                        IF u = t THEN (IF last THEN 0 ELSE body.sleep[k])
                        ELSE IF st[u] = "sleeping"
                             THEN Elapse(timer[u], body.cost[k] * cpu)
                             ELSE timer[u]]
        /\ UNCHANGED <<prog, cpu, joined>>

\* The timer driver wakes a task whose sleep has elapsed.
Fire(t) ==
    /\ ~joined
    /\ st[t] = "sleeping"
    /\ timer[t] = 0
    /\ st' = [st EXCEPT ![t] = "ready"]
    /\ UNCHANGED <<prog, cpu, polls, timer, joined>>

(***************************************************************************)
(* Nothing is ready and no sleep has elapsed: the worker parks until the   *)
(* earliest timer, so time jumps by the smallest wait left.                *)
(***************************************************************************)
Idle ==
    LET sleeping == {t \in Tasks : st[t] = "sleeping"}
        d == CHOOSE x \in {timer[t] : t \in sleeping} :
                 \A t \in sleeping : x <= timer[t]
    IN  /\ ~joined
        /\ \A t \in Tasks : st[t] # "ready"
        /\ sleeping # {}
        /\ \A t \in sleeping : timer[t] > 0
        /\ timer' = [t \in Tasks |->
                        IF t \in sleeping THEN timer[t] - d ELSE timer[t]]
        /\ UNCHANGED <<prog, cpu, st, polls, joined>>

\* Mutant of Join: one handle left out of the join! (the task is dropped
\* with the runtime when the root task returns).
JoinMissingOne ==
    /\ ~joined
    /\ \A t \in Tasks \ {CHOOSE u \in Tasks : TRUE} : st[t] = "done"
    /\ joined' = TRUE
    /\ UNCHANGED <<prog, cpu, st, polls, timer>>

\* join!(...) returns once every handle has completed.
Join ==
    /\ ~joined
    /\ \A t \in Tasks : st[t] = "done"
    /\ joined' = TRUE
    /\ UNCHANGED <<prog, cpu, st, polls, timer>>

\* start / block_on has returned and the runtime is dropped.
Finished ==
    /\ joined
    /\ UNCHANGED vars

Next ==
    \/ \E t \in Tasks : Poll(t) \/ Fire(t)
    \/ Idle
    \/ Join
    \/ Finished

(***************************************************************************)
(* Both runtimes keep polling while there is work and their timers fire;   *)
(* every body is finite, so fairness of the executor as a whole suffices.  *)
(***************************************************************************)
Spec == Init /\ [][Next]_vars /\ WF_vars(Next)

-----------------------------------------------------------------------------
(***************************************************************************)
(* Every spawned task runs to completion before the runtime returns: the   *)
(* join! in the root task covers every handle, so no task is dropped       *)
(* half-way when start / block_on returns.                                 *)
(***************************************************************************)
EveryTaskCompletes ==
    <>(joined /\ \A t \in Tasks : st[t] = "done")

(***************************************************************************)
(* greedy_task starves even the cooperative task on one worker:            *)
(* cpu_cooperative never finishes before greedy_task.  Its first sleep is  *)
(* at i = 0, and its 10us can only elapse while some task burns CPU or the *)
(* worker idles, which it does not while greedy_task is queued.            *)
(***************************************************************************)
GreedyDelaysCooperative ==
    {"greedy", "cpu_cooperative"} \subseteq Tasks =>
        (st["cpu_cooperative"] = "done" => st["greedy"] = "done")

(***************************************************************************)
(* delayed_work's 2s sleep outlasts all the other work of the mix, even    *)
(* with greedy_task and cpu_cooperative holding the only worker: when it   *)
(* prints "Now executing!" every other task has finished.                  *)
(***************************************************************************)
DelayedWorkFinishesLast ==
    "delayed" \in Tasks =>
        (st["delayed"] = "done" => \A t \in Tasks : st[t] = "done")
=============================================================================
