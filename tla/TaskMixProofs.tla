--------------------------- MODULE TaskMixProofs ---------------------------
(***************************************************************************)
(* Proofs about TaskMix for every CPU speed: the workloads are the two the *)
(* code spawns (TasksTypes and SpawnDemo), the time 10_000_000 additions   *)
(* take is any natural number of microseconds.                             *)
(***************************************************************************)
EXTENDS TaskMix, OrderLemmas

\* The workloads lib.rs spawns.
CodeWorkloads == Workloads \subseteq {TasksTypes, SpawnDemo}

States == {"ready", "sleeping", "done"}

\* A body cut at its awaits: at least one poll, one sleep between polls.
WellCut(b) ==
    /\ b.cost \in Seq(Nat) /\ b.sleep \in Seq(Nat)
    /\ Len(b.cost) >= 1
    /\ Len(b.sleep) = Len(b.cost) - 1

\* Every task body of both workloads is cut that way.
LEMMA BodiesWellCut ==
    \A W \in {TasksTypes, SpawnDemo} : \A t \in DOMAIN W : WellCut(W[t])
<1>1. WellCut(GreedyTask) /\ WellCut(IoBound) /\ WellCut(DelayedWork)
  BY DEF WellCut, GreedyTask, IoBound, DelayedWork, Body
<1>2. WellCut(CpuCooperative)
  <2>1. [k \in 1 .. 10 |-> 1] \in Seq(Nat) /\ Len([k \in 1 .. 10 |-> 1]) = 10
    OBVIOUS
  <2>2. QED
    BY <2>1 DEF WellCut, CpuCooperative, Body
<1>3. WellCut(Body(<<0>>, <<>>)) /\ WellCut(Body(<<0, 0>>, <<10000>>))
  BY DEF WellCut, Body
<1>4. QED
  BY <1>1, <1>2, <1>3 DEF TasksTypes, SpawnDemo

(***************************************************************************)
(* Type invariant of the executor, with the bookkeeping of a task's polls: *)
(* a task has finished exactly when it has been polled once per piece of   *)
(* its body, so the next poll always has a piece to run.                   *)
(***************************************************************************)
TypeInv ==
    /\ prog \in {TasksTypes, SpawnDemo}
    /\ cpu \in Nat
    /\ st \in [Tasks -> States]
    /\ polls \in [Tasks -> Nat]
    /\ timer \in [Tasks -> Nat]
    /\ joined \in BOOLEAN
    /\ \A t \in Tasks :
          /\ polls[t] <= Len(prog[t].cost)
          /\ st[t] = "done" <=> polls[t] = Len(prog[t].cost)

LEMMA TypeInit == CodeWorkloads /\ Init => TypeInv
<1> SUFFICES ASSUME CodeWorkloads, Init PROVE TypeInv
  OBVIOUS
<1>1. prog \in {TasksTypes, SpawnDemo} /\ cpu \in Nat
  BY CpuCostsAssumption DEF CodeWorkloads, Init
<1>2. \A t \in Tasks : WellCut(prog[t])
  BY <1>1, BodiesWellCut DEF Tasks
<1>3. joined \in BOOLEAN
  BY DEF Init
<1>4. st \in [Tasks -> States] /\ polls \in [Tasks -> Nat]
      /\ timer \in [Tasks -> Nat]
  BY DEF Init, States
<1>5. \A t \in Tasks :
          /\ polls[t] <= Len(prog[t].cost)
          /\ st[t] = "done" <=> polls[t] = Len(prog[t].cost)
  BY <1>2 DEF Init, WellCut
<1>6. QED
  BY <1>1, <1>3, <1>4, <1>5 DEF TypeInv

\* Time passing for a pending sleep leaves a natural number of microseconds.
LEMMA ElapseNat ==
    ASSUME NEW x \in Nat, NEW d \in Nat
    PROVE  Elapse(x, d) \in Nat /\ (x > d => Elapse(x, d) > 0)
BY DEF Elapse

LEMMA TypeStep == TypeInv /\ [Next]_vars => TypeInv'
<1> SUFFICES ASSUME TypeInv, [Next]_vars PROVE TypeInv'
  OBVIOUS
<1>0. \A t \in Tasks : WellCut(prog[t])
  BY BodiesWellCut DEF TypeInv, Tasks
<1>1. ASSUME NEW t \in Tasks, Poll(t) PROVE TypeInv'
  <2> DEFINE k == polls[t] + 1
             body == prog[t]
  <2>1. st[t] = "ready" /\ k \in 1 .. Len(body.cost)
    BY <1>1, <1>0 DEF Poll, TypeInv, WellCut
  <2>2. st' = [st EXCEPT ![t] = IF k = Len(body.cost) THEN "done" ELSE "sleeping"]
        /\ polls' = [polls EXCEPT ![t] = k]
        /\ UNCHANGED <<prog, cpu, joined>>
    BY <1>1 DEF Poll
  <2>3. k # Len(body.cost) => body.sleep[k] \in Nat
    BY <2>1, <1>0 DEF WellCut
  <2>4. body.cost[k] * cpu \in Nat
    BY <2>1, <1>0 DEF WellCut, TypeInv
  <2>5. timer' \in [Tasks -> Nat]
    <3>1. timer' = [u \in Tasks |->
                      IF u = t THEN (IF k = Len(body.cost) THEN 0 ELSE body.sleep[k])
                      ELSE IF st[u] = "sleeping"
                           THEN Elapse(timer[u], body.cost[k] * cpu)
                           ELSE timer[u]]
      BY <1>1 DEF Poll
    <3>2. QED
      BY <3>1, <2>3, <2>4, ElapseNat DEF TypeInv
  <2>6. st' \in [Tasks -> States] /\ polls' \in [Tasks -> Nat]
    BY <2>1, <2>2 DEF TypeInv, States
  <2>7. \A u \in Tasks :
          /\ polls'[u] <= Len(prog'[u].cost)
          /\ st'[u] = "done" <=> polls'[u] = Len(prog'[u].cost)
    BY <2>1, <2>2 DEF TypeInv, Tasks
  <2>8. QED
    BY <2>2, <2>5, <2>6, <2>7 DEF TypeInv, Tasks
<1>2. ASSUME NEW t \in Tasks, Fire(t) PROVE TypeInv'
  BY <1>2 DEF Fire, TypeInv, States, Tasks
<1>3. CASE Idle
  <2> DEFINE sleeping == {t \in Tasks : st[t] = "sleeping"}
             d == CHOOSE x \in {timer[t] : t \in sleeping} :
                     \A t \in sleeping : x <= timer[t]
  <2>1. sleeping # {}
    BY <1>3 DEF Idle
  <2>2. d \in Nat /\ \A t \in sleeping : d <= timer[t]
    <3>1. {timer[t] : t \in sleeping} \in SUBSET Nat
          /\ {timer[t] : t \in sleeping} # {}
      BY <2>1 DEF TypeInv
    <3>2. \E x \in {timer[t] : t \in sleeping} :
              \A y \in {timer[t] : t \in sleeping} : x <= y
      BY <3>1, NatSetHasMin
    <3>3. \E x \in {timer[t] : t \in sleeping} : \A t \in sleeping : x <= timer[t]
      BY <3>2
    <3>4. QED
      BY <3>1, <3>3
  <2>3. timer' = [t \in Tasks |-> IF t \in sleeping THEN timer[t] - d ELSE timer[t]]
        /\ UNCHANGED <<prog, cpu, st, polls, joined>>
    BY <1>3 DEF Idle
  <2>4. timer' \in [Tasks -> Nat]
    <3>1. \A t \in Tasks : timer[t] \in Nat
      BY DEF TypeInv
    <3>2. \A t \in sleeping : timer[t] - d \in Nat
      BY <3>1, <2>2
    <3>3. QED
      BY <3>1, <3>2, <2>3
  <2>5. QED
    BY <2>3, <2>4 DEF TypeInv, Tasks
<1>4. CASE Join
  BY <1>4 DEF Join, TypeInv, Tasks
<1>5. CASE Finished \/ UNCHANGED vars
  BY <1>5 DEF Finished, vars, TypeInv, Tasks
<1>6. QED
  BY <1>1, <1>2, <1>3, <1>4, <1>5 DEF Next

-----------------------------------------------------------------------------
(***************************************************************************)
(* What the starvation argument needs of the code's bodies: greedy_task is *)
(* one poll, cpu_cooperative sleeps 10us after its first poll and has 11   *)
(* polls, io_bound and delayed_work burn no CPU time worth counting, and   *)
(* only TasksTypes spawns greedy_task.                                     *)
(***************************************************************************)
LEMMA TasksTypesFacts ==
    /\ "greedy" \notin DOMAIN SpawnDemo
    /\ DOMAIN TasksTypes = {"greedy", "cpu_cooperative", "io_bound", "delayed"}
    /\ Len(TasksTypes["greedy"].cost) = 1
    /\ Len(TasksTypes["cpu_cooperative"].cost) = 11
    /\ TasksTypes["cpu_cooperative"].sleep[1] = 10
    /\ \A t \in {"io_bound", "delayed"} :
          \A k \in 1 .. Len(TasksTypes[t].cost) : TasksTypes[t].cost[k] = 0
<1>1. "greedy" \notin DOMAIN SpawnDemo
  BY DEF SpawnDemo
<1>2. DOMAIN TasksTypes = {"greedy", "cpu_cooperative", "io_bound", "delayed"}
  BY DEF TasksTypes
<1>3. TasksTypes["greedy"] = GreedyTask
      /\ TasksTypes["cpu_cooperative"] = CpuCooperative
      /\ TasksTypes["io_bound"] = IoBound
      /\ TasksTypes["delayed"] = DelayedWork
  BY DEF TasksTypes
<1>4. Len(GreedyTask.cost) = 1
  BY DEF GreedyTask, Body
<1>5. Len(CpuCooperative.cost) = 11 /\ CpuCooperative.sleep[1] = 10
  <2>1. [k \in 1 .. 10 |-> 1] \in Seq(Nat) /\ Len([k \in 1 .. 10 |-> 1]) = 10
    OBVIOUS
  <2>2. QED
    BY <2>1 DEF CpuCooperative, Body
<1>6. \A k \in 1 .. Len(IoBound.cost) : IoBound.cost[k] = 0
  BY DEF IoBound, Body
<1>7. \A k \in 1 .. Len(DelayedWork.cost) : DelayedWork.cost[k] = 0
  BY DEF DelayedWork, Body
<1>8. QED
  BY <1>1, <1>2, <1>3, <1>4, <1>5, <1>6, <1>7

(***************************************************************************)
(* The strengthening of GreedyDelaysCooperative.  While greedy_task has    *)
(* not run it stays in the run queue, so the worker never idles; and       *)
(* cpu_cooperative has either not been polled or sleeps after its first    *)
(* poll (the i = 0 yield) with time still to wait, because only greedy's   *)
(* own poll or an idle worker would make that time pass.                   *)
(***************************************************************************)
Coop == "cpu_cooperative"

StarveInv ==
    /\ TypeInv
    /\ ({"greedy", Coop} \subseteq Tasks /\ st["greedy"] # "done") =>
          /\ st["greedy"] = "ready"
          /\ \/ polls[Coop] = 0
             \/ polls[Coop] = 1 /\ st[Coop] = "sleeping" /\ timer[Coop] > 0

LEMMA StarveInit == CodeWorkloads /\ Init => StarveInv
BY TypeInit DEF Init, StarveInv

LEMMA StarveStep == StarveInv /\ [Next]_vars => StarveInv'
<1> SUFFICES ASSUME StarveInv, [Next]_vars,
                    ({"greedy", Coop} \subseteq Tasks /\ st["greedy"] # "done")'
             PROVE  (/\ st["greedy"] = "ready"
                     /\ \/ polls[Coop] = 0
                        \/ polls[Coop] = 1 /\ st[Coop] = "sleeping"
                                           /\ timer[Coop] > 0)'
  BY TypeStep DEF StarveInv
<1>0. /\ TypeInv /\ UNCHANGED prog /\ prog = TasksTypes
      /\ {"greedy", Coop} \subseteq Tasks
  <2>1. TypeInv /\ UNCHANGED prog
    BY DEF StarveInv, Next, Poll, Fire, Idle, Join, Finished, vars
  <2>2. {"greedy", Coop} \subseteq Tasks
    BY <2>1 DEF Tasks
  <2>3. prog = TasksTypes
    BY <2>1, <2>2, TasksTypesFacts DEF TypeInv, Tasks
  <2>4. QED
    BY <2>1, <2>2, <2>3
\* the strengthening in the state before the step, once greedy is not done
<1>1. st["greedy"] # "done" =>
        /\ st["greedy"] = "ready" /\ polls["greedy"] = 0
        /\ \/ polls[Coop] = 0
           \/ polls[Coop] = 1 /\ st[Coop] = "sleeping" /\ timer[Coop] > 0
  <2>1. st["greedy"] # "done" => polls["greedy"] = 0
    <3>1. polls["greedy"] \in Nat /\ polls["greedy"] <= 1
          /\ (st["greedy"] = "done" <=> polls["greedy"] = 1)
      BY <1>0, TasksTypesFacts DEF TypeInv
    <3>2. QED
      BY <3>1
  <2>2. QED
    BY <2>1, <1>0 DEF StarveInv
<1>2. ASSUME NEW t \in Tasks, Poll(t)
      PROVE  (/\ st["greedy"] = "ready"
              /\ \/ polls[Coop] = 0
                 \/ polls[Coop] = 1 /\ st[Coop] = "sleeping"
                                    /\ timer[Coop] > 0)'
  <2> DEFINE k == polls[t] + 1
             body == prog[t]
             last == k = Len(body.cost)
  <2>1. /\ st[t] = "ready"
        /\ polls' = [polls EXCEPT ![t] = k]
        /\ st' = [st EXCEPT ![t] = IF last THEN "done" ELSE "sleeping"]
        /\ timer' = [u \in Tasks |->
                        IF u = t THEN (IF last THEN 0 ELSE body.sleep[k])
                        ELSE IF st[u] = "sleeping"
                             THEN Elapse(timer[u], body.cost[k] * cpu)
                             ELSE timer[u]]
    BY <1>2 DEF Poll
  <2>2. CASE t = "greedy"
    \* greedy_task runs to its end in this one poll
    BY <2>1, <2>2, <1>0, <1>1, TasksTypesFacts DEF TypeInv
  <2>3. CASE t = Coop
    \* the first poll of cpu_cooperative ends at the i = 0 sleep
    <3>1. st["greedy"] # "done" /\ polls[Coop] = 0
      BY <2>1, <2>3, <1>0, <1>1 DEF TypeInv, Coop
    <3>2. ~last /\ body.sleep[k] = 10
      BY <3>1, <2>3, <1>0, TasksTypesFacts DEF Coop
    <3>3. QED
      BY <2>1, <2>3, <3>1, <3>2, <1>0, <1>1 DEF TypeInv, Coop
  <2>4. CASE t \notin {"greedy", Coop}
    \* io_bound and delayed_work take no time off the cooperative sleep
    <3>1. t \in {"io_bound", "delayed"}
      BY <2>4, <1>0, TasksTypesFacts DEF Tasks, Coop
    <3>2. k \in 1 .. Len(body.cost)
      BY <2>1, <1>0 DEF TypeInv
    <3>3. body.cost[k] * cpu = 0
      BY <3>1, <3>2, <1>0, TasksTypesFacts DEF TypeInv
    <3>4. st["greedy"] # "done"
      BY <2>1, <2>4, <1>0 DEF TypeInv, Coop
    <3>5. timer[Coop] > 0 => timer'[Coop] = timer[Coop]
      BY <2>1, <2>4, <3>3, <1>0 DEF TypeInv, Elapse, Coop
    <3>6. QED
      BY <2>1, <2>4, <3>4, <3>5, <1>0, <1>1 DEF TypeInv, Coop
  <2>5. QED
    BY <2>2, <2>3, <2>4
<1>3. ASSUME NEW t \in Tasks, Fire(t)
      PROVE  (/\ st["greedy"] = "ready"
              /\ \/ polls[Coop] = 0
                 \/ polls[Coop] = 1 /\ st[Coop] = "sleeping"
                                    /\ timer[Coop] > 0)'
  \* greedy is never asleep, and the cooperative sleep has not elapsed
  <2>1. st[t] = "sleeping" /\ timer[t] = 0 /\ st' = [st EXCEPT ![t] = "ready"]
        /\ UNCHANGED <<polls, timer>>
    BY <1>3 DEF Fire
  <2>2. st["greedy"] # "done"
    BY <2>1, <1>0 DEF TypeInv
  <2>3. QED
    BY <2>1, <2>2, <1>0, <1>1 DEF TypeInv
<1>4. CASE Idle
  \* the worker does not idle while greedy_task is in the run queue
  <2>1. st["greedy"] # "done"
    BY <1>4, <1>0 DEF Idle
  <2>2. QED
    BY <2>1, <1>4, <1>0, <1>1 DEF Idle
<1>5. CASE Join \/ Finished \/ UNCHANGED vars
  BY <1>5, <1>1 DEF Join, Finished, vars
<1>6. QED
  BY <1>2, <1>3, <1>4, <1>5 DEF Next

(***************************************************************************)
(* For every CPU speed and both workloads of the code: cpu_cooperative     *)
(* never finishes before greedy_task.  On the single worker of             *)
(* test_tasks_types_tokio the 100_000_000 additions without an await hold  *)
(* the thread, and the cooperative task's i = 0 yield is enough to put it  *)
(* behind them however fast the machine is.                                *)
(***************************************************************************)
THEOREM GreedyStarvesCooperative ==
    CodeWorkloads => (Spec => []GreedyDelaysCooperative)
<1> SUFFICES ASSUME CodeWorkloads PROVE Spec => []GreedyDelaysCooperative
  OBVIOUS
<1>1. StarveInv => GreedyDelaysCooperative
  <2> SUFFICES ASSUME StarveInv, {"greedy", Coop} \subseteq Tasks,
                      st[Coop] = "done", st["greedy"] # "done"
               PROVE  FALSE
    BY DEF GreedyDelaysCooperative, Coop
  <2>1. prog = TasksTypes
    BY TasksTypesFacts DEF StarveInv, TypeInv, Tasks
  <2>2. polls[Coop] = 11
    BY <2>1, TasksTypesFacts DEF StarveInv, TypeInv, Coop
  <2>3. QED
    BY <2>2 DEF StarveInv
<1>2. QED
  BY StarveInit, StarveStep, <1>1, PTL DEF Spec

-----------------------------------------------------------------------------
(***************************************************************************)
(* delayed_work outlasts the rest of the mix on a fast enough machine.     *)
(* Potential: an upper bound on the time the other three tasks still need, *)
(* their CPU time left plus the longest chain of sleeps one of them still  *)
(* has to wait.  A poll costs exactly its CPU time and takes at least that *)
(* off the bound; an idle stretch only happens while every unfinished task *)
(* sleeps, so it takes its length off every chain.  delayed_work's timer   *)
(* shrinks by the same elapsed time, so once its 2s is above the bound it  *)
(* stays above until the others are done.                                  *)
(***************************************************************************)
Dly == "delayed"
Io  == "io_bound"

Others == Tasks \ {Dly}

OthersDone == \A t \in Others : st[t] = "done"

Larger(a, b) == IF a >= b THEN a ELSE b

\* Sleeps still to be started by a task with n sleeps of w us after p polls.
SleepsAfter(n, w, p) == IF p < n THEN w * (n - p) ELSE 0

\* Units of 10_000_000 additions greedy_task and cpu_cooperative still run.
GreedyLeft == IF polls["greedy"] = 0 THEN 10 ELSE 0
CoopLeft   == IF polls[Coop] = 0 THEN 10 ELSE 11 - polls[Coop]

\* Time the current and future sleeps of a task still take.
CoopChain == timer[Coop] + SleepsAfter(10, 10, polls[Coop])
IoChain   == timer[Io] + SleepsAfter(5, 50000, polls[Io])

Pot == cpu * (GreedyLeft + CoopLeft) + Larger(CoopChain, IoChain)

\* The bound at the start: 20 units of CPU and io_bound's 5 x 50ms.
Budget(c) == 20 * c + 250000

\* The machines on which the bound stays below delayed_work's 2s.
FastEnough == \A c \in CpuCosts : Budget(c) < 2000000

\* A task holds no timer unless it sleeps, and is queued until first polled.
TimersParked ==
    \A t \in Tasks : /\ st[t] # "sleeping" => timer[t] = 0
                     /\ polls[t] = 0 => st[t] = "ready"

\* delayed_work's sleep stays above the bound until the others are done.
DelayedAhead ==
    /\ prog = TasksTypes
    /\ Pot <= Budget(cpu)
    /\ st[Dly] = "sleeping" => timer[Dly] > Pot \/ OthersDone
    /\ (st[Dly] = "ready" /\ polls[Dly] = 1) \/ st[Dly] = "done" => OthersDone

DelayedInv ==
    /\ TypeInv
    /\ cpu \in CpuCosts
    /\ TimersParked
    /\ Dly \in Tasks => DelayedAhead

\* The pieces of the four bodies of test_tasks_types_*, as the bound needs
\* them, and delayed_work spawned only there.
LEMMA MixBodies ==
    /\ Dly \notin DOMAIN SpawnDemo
    /\ TasksTypes["greedy"].cost = <<10>>
    /\ Len(TasksTypes[Coop].cost) = 11
    /\ \A k \in 1 .. 11 : TasksTypes[Coop].cost[k] = IF k = 1 THEN 0 ELSE 1
    /\ \A k \in 1 .. 10 : TasksTypes[Coop].sleep[k] = 10
    /\ Len(TasksTypes[Io].cost) = 6
    /\ \A k \in 1 .. 6 : TasksTypes[Io].cost[k] = 0
    /\ \A k \in 1 .. 5 : TasksTypes[Io].sleep[k] = 50000
    /\ Len(TasksTypes[Dly].cost) = 2
    /\ \A k \in 1 .. 2 : TasksTypes[Dly].cost[k] = 0
    /\ TasksTypes[Dly].sleep[1] = 2000000
<1>1. Dly \notin DOMAIN SpawnDemo
  BY DEF SpawnDemo, Dly
<1>2. TasksTypes["greedy"] = GreedyTask /\ TasksTypes[Coop] = CpuCooperative
      /\ TasksTypes[Io] = IoBound /\ TasksTypes[Dly] = DelayedWork
  BY DEF TasksTypes, Coop, Io, Dly
<1>3. /\ Len(CpuCooperative.cost) = 11
      /\ \A k \in 1 .. 11 : CpuCooperative.cost[k] = IF k = 1 THEN 0 ELSE 1
      /\ \A k \in 1 .. 10 : CpuCooperative.sleep[k] = 10
  <2>1. [k \in 1 .. 10 |-> 1] \in Seq(Nat) /\ Len([k \in 1 .. 10 |-> 1]) = 10
    OBVIOUS
  <2>2. QED
    BY <2>1 DEF CpuCooperative, Body
<1>4. QED
  BY <1>1, <1>2, <1>3 DEF GreedyTask, IoBound, DelayedWork, Body

\* A pending sleep loses at most the time that passes, and nothing when none.
LEMMA ElapseBounds ==
    ASSUME NEW x \in Nat, NEW d \in Nat
    PROVE  /\ Elapse(x, d) \in Nat
           /\ Elapse(x, d) <= x
           /\ Elapse(x, d) + d >= x
           /\ Elapse(x, 0) = x
BY DEF Elapse

LEMMA DelayedInit == CodeWorkloads /\ Init => DelayedInv
<1> SUFFICES ASSUME CodeWorkloads, Init PROVE DelayedInv
  OBVIOUS
<1>1. TypeInv /\ cpu \in CpuCosts /\ TimersParked
  BY TypeInit DEF Init, TimersParked
<1>2. ASSUME Dly \in Tasks PROVE DelayedAhead
  <2>1. prog = TasksTypes
    BY <1>2, MixBodies DEF CodeWorkloads, Init, Tasks
  <2>2. cpu \in Nat
    BY <1>1 DEF TypeInv
  <2>3. /\ GreedyLeft = 10 /\ CoopLeft = 10
        /\ CoopChain = 100 /\ IoChain = 250000
    BY <2>1, MixBodies DEF Init, Tasks, TasksTypes, Coop, Io,
       GreedyLeft, CoopLeft, CoopChain, IoChain, SleepsAfter
  <2>4. Pot = Budget(cpu) /\ Budget(cpu) \in Nat
    BY <2>2, <2>3 DEF Pot, Budget, Larger
  <2>5. st[Dly] = "ready" /\ polls[Dly] = 0
    BY <1>2 DEF Init
  <2>6. Pot <= Budget(cpu)
    BY <2>4
  <2>7. ~(st[Dly] = "sleeping")
        /\ ~((st[Dly] = "ready" /\ polls[Dly] = 1) \/ st[Dly] = "done")
    BY <2>5
  <2>8. QED
    BY <2>1, <2>6, <2>7 DEF DelayedAhead
<1>3. QED
  BY <1>1, <1>2 DEF DelayedInv

\* No step leaves a timer with a task that does not sleep, or polls a task
\* without counting the poll.
LEMMA ParkedStep ==
    TypeInv /\ TimersParked /\ [Next]_vars => TimersParked'
<1> SUFFICES ASSUME TypeInv, TimersParked, [Next]_vars PROVE TimersParked'
  OBVIOUS
<1>1. ASSUME NEW t \in Tasks, Poll(t) PROVE TimersParked'
  BY <1>1 DEF Poll, TimersParked, TypeInv, Tasks
<1>2. ASSUME NEW t \in Tasks, Fire(t) PROVE TimersParked'
  BY <1>2 DEF Fire, TimersParked, TypeInv, Tasks
<1>3. CASE Idle
  BY <1>3 DEF Idle, TimersParked, TypeInv, Tasks
<1>4. CASE Join \/ Finished \/ UNCHANGED vars
  BY <1>4 DEF Join, Finished, vars, TimersParked, Tasks
<1>5. QED
  BY <1>1, <1>2, <1>3, <1>4 DEF Next

\* The larger of two naturals is monotone in both.
LEMMA LargerMono ==
    ASSUME NEW a \in Nat, NEW b \in Nat, NEW a2 \in Nat, NEW b2 \in Nat,
           a2 <= a, b2 <= b
    PROVE  Larger(a2, b2) \in Nat /\ Larger(a2, b2) <= Larger(a, b)
BY DEF Larger

\* The time the next poll of task t holds the worker.
PollCost(t) == prog[t].cost[polls[t] + 1] * cpu

\* The facts of the state the bound argument reads, in one place.
LEMMA AheadFacts ==
    ASSUME DelayedInv, Dly \in Tasks
    PROVE  /\ prog = TasksTypes /\ cpu \in Nat
           /\ Tasks = {"greedy", Coop, Io, Dly}
           /\ Others = {"greedy", Coop, Io}
           /\ st \in [Tasks -> States] /\ polls \in [Tasks -> Nat]
           /\ timer \in [Tasks -> Nat]
           /\ \A t \in Tasks : polls[t] \in 0 .. Len(prog[t].cost)
                               /\ timer[t] \in Nat
                               /\ (st[t] = "done" <=> polls[t] = Len(prog[t].cost))
                               /\ (st[t] # "sleeping" => timer[t] = 0)
                               /\ (polls[t] = 0 => st[t] = "ready")
                               /\ st[t] \in States
           /\ GreedyLeft \in Nat /\ CoopLeft \in Nat
           /\ CoopChain \in Nat /\ IoChain \in Nat /\ Pot \in Nat
<1>1. prog = TasksTypes /\ cpu \in Nat /\ TypeInv /\ TimersParked
  BY DEF DelayedInv, DelayedAhead, TypeInv
<1>2. Tasks = {"greedy", Coop, Io, Dly} /\ Others = {"greedy", Coop, Io}
  BY <1>1, TasksTypesFacts DEF Tasks, Others, Coop, Io, Dly
<1>3. \A t \in Tasks : polls[t] \in 0 .. Len(prog[t].cost)
                       /\ timer[t] \in Nat
                       /\ (st[t] = "done" <=> polls[t] = Len(prog[t].cost))
                       /\ (st[t] # "sleeping" => timer[t] = 0)
                       /\ (polls[t] = 0 => st[t] = "ready")
                       /\ st[t] \in States
  BY <1>1 DEF TypeInv, TimersParked
<1>4. polls[Coop] \in 0 .. 11 /\ polls[Io] \in 0 .. 6
  <2>1. Coop \in Tasks /\ Io \in Tasks /\ "greedy" \in Tasks
    BY <1>2
  <2>2. polls[Coop] \in 0 .. Len(TasksTypes[Coop].cost)
        /\ polls[Io] \in 0 .. Len(TasksTypes[Io].cost)
    BY <2>1, <1>1, <1>3
  <2>3. QED
    BY <2>2, MixBodies
<1>5. GreedyLeft \in Nat /\ CoopLeft \in Nat /\ CoopChain \in Nat /\ IoChain \in Nat
  <2>1. timer[Coop] \in Nat /\ timer[Io] \in Nat
    BY <1>2, <1>3
  <2>2. QED
    BY <1>4, <2>1 DEF GreedyLeft, CoopLeft, CoopChain, IoChain, SleepsAfter
<1>6. Pot \in Nat
  <2>1. Larger(CoopChain, IoChain) \in Nat
    BY <1>5, LargerMono
  <2>2. QED
    BY <1>1, <1>5, <2>1 DEF Pot
<1>7. QED
  BY <1>1, <1>2, <1>3, <1>5, <1>6 DEF TypeInv

(***************************************************************************)
(* A poll of one of the other three tasks holds the worker for its CPU     *)
(* time, takes at least that time off the bound, and at most that time off *)
(* delayed_work's sleep.                                                   *)
(***************************************************************************)
LEMMA PollOther ==
    ASSUME DelayedInv, Dly \in Tasks, NEW t \in Others, Poll(t)
    PROVE  /\ PollCost(t) \in Nat /\ Pot' \in Nat
           /\ Pot' + PollCost(t) <= Pot
           /\ st'[Dly] = st[Dly] /\ polls'[Dly] = polls[Dly]
           /\ st[Dly] = "sleeping" => timer'[Dly] + PollCost(t) >= timer[Dly]
<1> DEFINE k == polls[t] + 1
           body == prog[t]
           last == k = Len(body.cost)
           e == PollCost(t)
<1>1. prog = TasksTypes /\ cpu \in Nat
  BY AheadFacts
<1>0. /\ Tasks = {"greedy", Coop, Io, Dly} /\ Others = {"greedy", Coop, Io}
      /\ st \in [Tasks -> States] /\ polls \in [Tasks -> Nat]
      /\ timer \in [Tasks -> Nat]
  BY AheadFacts
<1>9. \A u \in Tasks : /\ polls[u] \in 0 .. Len(prog[u].cost)
                       /\ timer[u] \in Nat
                       /\ (st[u] = "done" <=> polls[u] = Len(prog[u].cost))
                       /\ (st[u] # "sleeping" => timer[u] = 0)
  BY AheadFacts
<1>10. GreedyLeft \in Nat /\ CoopLeft \in Nat
       /\ CoopChain \in Nat /\ IoChain \in Nat /\ Pot \in Nat
  BY AheadFacts
<1>2. /\ st[t] = "ready"
      /\ polls' = [polls EXCEPT ![t] = k]
      /\ st' = [st EXCEPT ![t] = IF last THEN "done" ELSE "sleeping"]
      /\ timer' = [u \in Tasks |->
                      IF u = t THEN (IF last THEN 0 ELSE body.sleep[k])
                      ELSE IF st[u] = "sleeping"
                           THEN Elapse(timer[u], body.cost[k] * cpu)
                           ELSE timer[u]]
      /\ UNCHANGED <<prog, cpu>>
  BY DEF Poll
<1>3. t \in Tasks /\ t # Dly /\ timer[t] = 0
      /\ polls[t] \in Nat /\ polls[t] < Len(body.cost)
  <2>1. t \in Tasks /\ t # Dly
    BY <1>0 DEF Others
  <2>2. polls[t] \in 0 .. Len(body.cost) /\ timer[t] \in Nat
        /\ (st[t] = "done" <=> polls[t] = Len(body.cost))
        /\ (st[t] # "sleeping" => timer[t] = 0)
    BY <2>1, <1>9
  <2>3. QED
    BY <2>1, <2>2, <1>2
<1>4. e \in Nat /\ e = body.cost[k] * cpu
  <2>1. WellCut(body)
    BY <1>1, <1>3, BodiesWellCut DEF Tasks
  <2>2. body.cost[k] \in Nat
    BY <2>1, <1>3 DEF WellCut
  <2>3. QED
    BY <2>2, <1>1 DEF PollCost
<1>5. ASSUME NEW u \in Tasks \ {t}
      PROVE  /\ polls'[u] = polls[u] /\ st'[u] = st[u]
             /\ timer'[u] \in Nat /\ timer'[u] <= timer[u]
             /\ st[u] = "sleeping" => timer'[u] + e >= timer[u]
  <2>1. timer[u] \in Nat
    BY <1>9
  <2>2. timer'[u] = IF st[u] = "sleeping" THEN Elapse(timer[u], e) ELSE timer[u]
    BY <1>2, <1>4
  <2>3. polls'[u] = polls[u] /\ st'[u] = st[u]
    BY <1>0, <1>2
  <2>4. CASE st[u] = "sleeping"
    BY <2>1, <2>2, <2>3, <2>4, <1>4, ElapseBounds
  <2>5. CASE st[u] # "sleeping"
    BY <2>1, <2>2, <2>3, <2>5
  <2>6. QED
    BY <2>3, <2>4, <2>5
<1>11. Coop # t => CoopChain' \in Nat /\ CoopChain' <= CoopChain
                     /\ CoopLeft' = CoopLeft
  <2> SUFFICES ASSUME Coop # t
               PROVE  CoopChain' \in Nat /\ CoopChain' <= CoopChain
                      /\ CoopLeft' = CoopLeft
    OBVIOUS
  <2>1. Coop \in Tasks \ {t}
    BY <1>0
  <2>2. polls'[Coop] = polls[Coop] /\ timer'[Coop] \in Nat
        /\ timer'[Coop] <= timer[Coop]
    BY <2>1, <1>5
  <2>3. polls[Coop] \in Nat /\ timer[Coop] \in Nat
    BY <2>1, <1>9
  <2>4. QED
    BY <2>2, <2>3 DEF CoopChain, CoopLeft, SleepsAfter
<1>12. Io # t => IoChain' \in Nat /\ IoChain' <= IoChain
  <2> SUFFICES ASSUME Io # t PROVE IoChain' \in Nat /\ IoChain' <= IoChain
    OBVIOUS
  <2>1. Io \in Tasks \ {t}
    BY <1>0
  <2>2. polls'[Io] = polls[Io] /\ timer'[Io] \in Nat /\ timer'[Io] <= timer[Io]
    BY <2>1, <1>5
  <2>3. polls[Io] \in Nat /\ timer[Io] \in Nat
    BY <2>1, <1>9
  <2>4. QED
    BY <2>2, <2>3 DEF IoChain, SleepsAfter
<1>13. "greedy" # t => GreedyLeft' = GreedyLeft
  <2> SUFFICES ASSUME "greedy" # t PROVE GreedyLeft' = GreedyLeft
    OBVIOUS
  <2>1. "greedy" \in Tasks \ {t}
    BY <1>0
  <2>2. QED
    BY <2>1, <1>5 DEF GreedyLeft
<1>14. /\ Pot' = cpu * (GreedyLeft' + CoopLeft') + Larger(CoopChain', IoChain')
       /\ Pot = cpu * (GreedyLeft + CoopLeft) + Larger(CoopChain, IoChain)
  BY <1>2 DEF Pot
<1>7. GreedyLeft' \in Nat /\ CoopLeft' \in Nat
      /\ CoopChain' \in Nat /\ IoChain' \in Nat
  <2>1. (TypeInv /\ prog = TasksTypes)'
    <3>1. TypeInv /\ [Next]_vars
      BY <1>3 DEF DelayedInv, Next
    <3>2. QED
      BY <3>1, <1>1, <1>2, TypeStep
  <2>2. Coop \in Tasks' /\ Io \in Tasks'
    BY <1>0, <1>2 DEF Tasks
  <2>3. polls'[Coop] <= Len(prog'[Coop].cost) /\ polls'[Coop] \in Nat
        /\ polls'[Io] \in Nat /\ timer'[Coop] \in Nat /\ timer'[Io] \in Nat
    BY <2>1, <2>2 DEF TypeInv
  <2>4. polls'[Coop] \in 0 .. 11
    BY <2>1, <2>3, MixBodies
  <2>5. GreedyLeft' \in Nat
    BY DEF GreedyLeft
  <2>6. CoopLeft' \in Nat
    BY <2>4 DEF CoopLeft
  <2>7. CoopChain' \in Nat
    BY <2>3, <2>4 DEF CoopChain, SleepsAfter
  <2>8. IoChain' \in Nat
    BY <2>3 DEF IoChain, SleepsAfter
  <2>9. QED
    BY <2>5, <2>6, <2>7, <2>8
\* the bound after the step, in fresh names the arithmetic can work on
<1>15. PICK gl \in Nat, cl \in Nat, cc \in Nat, ic \in Nat :
          /\ gl = GreedyLeft' /\ cl = CoopLeft'
          /\ cc = CoopChain' /\ ic = IoChain'
  BY <1>7
<1>16. Pot' = cpu * (gl + cl) + Larger(cc, ic)
  BY <1>15, <1>14, Zenon
<1>6. Pot' + e <= Pot /\ Pot' \in Nat
  <2>1. /\ cc <= CoopChain /\ ic <= IoChain
        /\ cpu * (gl + cl) + e = cpu * (GreedyLeft + CoopLeft)
    <3>1. CASE t = "greedy"
      <4>1. body.cost = <<10>>
        BY <3>1, <1>1, MixBodies
      <4>2. polls[t] = 0 /\ last
        BY <4>1, <1>3
      <4>3. e = 10 * cpu
        BY <4>1, <4>2, <1>4
      <4>4. GreedyLeft = 10 /\ gl = 0
        BY <1>0, <3>1, <4>2, <1>2, <1>15 DEF GreedyLeft
      <4>5. Coop # t /\ Io # t
        BY <3>1 DEF Coop, Io
      <4>6. cl = CoopLeft /\ cc <= CoopChain /\ ic <= IoChain
        BY <4>5, <1>11, <1>12, <1>15
      <4>7. QED
        BY <4>3, <4>4, <4>6, <1>1, <1>10
    <3>2. CASE t = Coop
      <4>1. Len(body.cost) = 11 /\ body.cost[k] = (IF k = 1 THEN 0 ELSE 1)
            /\ (k <= 10 => body.sleep[k] = 10)
        BY <3>2, <1>1, <1>3, MixBodies
      <4>2. e = (IF k = 1 THEN 0 ELSE 1) * cpu
        BY <4>1, <1>4
      <4>3. polls'[Coop] = k
        BY <1>0, <3>2, <1>2, <1>3
      <4>4. cl + (IF k = 1 THEN 0 ELSE 1) = CoopLeft
        BY <4>1, <4>3, <1>3, <3>2, <1>15 DEF CoopLeft
      <4>5. "greedy" # t /\ Io # t
        BY <3>2 DEF Coop, Io
      <4>6. gl = GreedyLeft /\ ic <= IoChain
        BY <4>5, <1>12, <1>13, <1>15
      <4>7. timer'[Coop] = IF last THEN 0 ELSE 10
        BY <3>2, <4>1, <1>2, <1>3
      <4>8. cc = CoopChain
        BY <4>1, <4>3, <4>7, <3>2, <1>3, <1>15 DEF CoopChain, SleepsAfter
      <4>9. cpu * (gl + cl) + e = cpu * (GreedyLeft + CoopLeft)
        <5>1. CASE k = 1
          BY <5>1, <4>2, <4>4, <4>6, <1>1, <1>10
        <5>2. CASE k # 1
          <6>1. CoopLeft = cl + 1 /\ e = cpu
            BY <5>2, <4>2, <4>4, <1>1
          <6>2. QED
            BY <6>1, <4>6, <1>1, <1>10
        <5>3. QED
          BY <5>1, <5>2
      <4>10. QED
        BY <4>6, <4>8, <4>9, <1>10
    <3>3. CASE t = Io
      <4>1. Len(body.cost) = 6 /\ body.cost[k] = 0
            /\ (k <= 5 => body.sleep[k] = 50000)
        BY <3>3, <1>1, <1>3, MixBodies
      <4>2. e = 0
        BY <4>1, <1>4, <1>1
      <4>3. polls'[Io] = k
        BY <1>0, <3>3, <1>2, <1>3
      <4>4. "greedy" # t /\ Coop # t
        BY <3>3 DEF Coop, Io
      <4>5. gl = GreedyLeft /\ cl = CoopLeft /\ cc <= CoopChain
        BY <4>4, <1>11, <1>13, <1>15
      <4>6. timer'[Io] = IF last THEN 0 ELSE 50000
        BY <3>3, <4>1, <1>2, <1>3
      <4>7. ic = IoChain
        BY <4>1, <4>3, <4>6, <3>3, <1>3, <1>15 DEF IoChain, SleepsAfter
      <4>8. QED
        BY <4>2, <4>5, <4>7, <1>1, <1>10
    <3>4. QED
      BY <3>1, <3>2, <3>3, <1>0
  <2>2. Larger(cc, ic) <= Larger(CoopChain, IoChain) /\ Larger(cc, ic) \in Nat
    BY <2>1, <1>10, LargerMono
  <2>3. cpu * (gl + cl) \in Nat /\ cpu * (GreedyLeft + CoopLeft) \in Nat
    BY <1>10, <1>1
  <2>4. Pot = cpu * (GreedyLeft + CoopLeft) + Larger(CoopChain, IoChain)
        /\ Larger(CoopChain, IoChain) \in Nat
    BY <1>14, <1>10, LargerMono
  <2>5. cpu * (gl + cl) + Larger(cc, ic) + e <= Pot
        /\ cpu * (gl + cl) + Larger(cc, ic) \in Nat
    BY <2>1, <2>2, <2>3, <2>4, <1>4
  <2>6. QED
    BY <2>5, <1>16, Zenon
<1>8. QED
  BY <1>4, <1>5, <1>6, <1>3, <1>1

\* The per-task facts of AheadFacts with each body's number of polls filled in.
LEMMA TaskCounts ==
    ASSUME DelayedInv, Dly \in Tasks
    PROVE  \A u \in Tasks :
             LET n == IF u = "greedy" THEN 1 ELSE IF u = Coop THEN 11
                      ELSE IF u = Io THEN 6 ELSE 2
             IN  /\ polls[u] \in 0 .. n /\ timer[u] \in Nat
                 /\ st[u] \in {"ready", "sleeping", "done"}
                 /\ (st[u] = "done" <=> polls[u] = n)
                 /\ (st[u] # "sleeping" => timer[u] = 0)
                 /\ (polls[u] = 0 => st[u] = "ready")
<1>1. prog = TasksTypes /\ Tasks = {"greedy", Coop, Io, Dly}
  BY AheadFacts
<1>2. /\ Len(prog["greedy"].cost) = 1 /\ Len(prog[Coop].cost) = 11
      /\ Len(prog[Io].cost) = 6 /\ Len(prog[Dly].cost) = 2
  <2>1. TasksTypes["greedy"].cost = <<10>>
    BY MixBodies
  <2>2. QED
    BY <1>1, <2>1, MixBodies
<1>3. \A u \in Tasks : /\ polls[u] \in 0 .. Len(prog[u].cost)
                       /\ timer[u] \in Nat
                       /\ (st[u] = "done" <=> polls[u] = Len(prog[u].cost))
                       /\ (st[u] # "sleeping" => timer[u] = 0)
                       /\ (polls[u] = 0 => st[u] = "ready")
                       /\ st[u] \in States
  BY AheadFacts
<1>4. "greedy" # Coop /\ "greedy" # Io /\ "greedy" # Dly /\ Coop # Io
      /\ Coop # Dly /\ Io # Dly
  BY DEF Coop, Io, Dly
<1>5. QED
  BY <1>1, <1>2, <1>3, <1>4 DEF States

(***************************************************************************)
(* The worker idles only while every unfinished task sleeps: the stretch   *)
(* it parks for is taken off every sleep chain still running, so off the   *)
(* bound, and off delayed_work's sleep.                                    *)
(***************************************************************************)
LEMMA IdleBound ==
    ASSUME DelayedInv, Dly \in Tasks, Idle
    PROVE  /\ Pot' \in Nat /\ Pot' <= Pot
           /\ ~OthersDone => /\ st[Dly] = "sleeping" /\ timer'[Dly] \in Nat
                             /\ timer'[Dly] + Pot >= timer[Dly] + Pot'
<1> DEFINE sleeping == {u \in Tasks : st[u] = "sleeping"}
<1>1. prog = TasksTypes /\ cpu \in Nat
  BY AheadFacts
<1>0. /\ Tasks = {"greedy", Coop, Io, Dly} /\ Others = {"greedy", Coop, Io}
      /\ timer \in [Tasks -> Nat]
  BY AheadFacts
<1>10. GreedyLeft \in Nat /\ CoopLeft \in Nat
       /\ CoopChain \in Nat /\ IoChain \in Nat /\ Pot \in Nat
  BY AheadFacts
<1>2. /\ \A u \in Tasks : st[u] # "ready"
      /\ UNCHANGED <<prog, cpu, st, polls>>
  BY DEF Idle
\* the stretch the worker parks for, named once
<1>3. PICK d \in Nat :
        /\ \A u \in sleeping : d <= timer[u]
        /\ timer' = [u \in Tasks |-> IF u \in sleeping THEN timer[u] - d ELSE timer[u]]
  <2> DEFINE m == CHOOSE x \in {timer[u] : u \in sleeping} :
                     \A u \in sleeping : x <= timer[u]
  <2>1. sleeping # {}
    BY DEF Idle
  <2>2. {timer[u] : u \in sleeping} \in SUBSET Nat
        /\ {timer[u] : u \in sleeping} # {}
    <3>1. \A u \in sleeping : timer[u] \in Nat
      BY <1>0
    <3>2. QED
      BY <2>1, <3>1
  <2>3. \E x \in {timer[u] : u \in sleeping} :
            \A y \in {timer[u] : u \in sleeping} : x <= y
    BY <2>2, NatSetHasMin
  <2>4. \E x \in {timer[u] : u \in sleeping} : \A u \in sleeping : x <= timer[u]
    BY <2>3
  <2>5. m \in Nat /\ \A u \in sleeping : m <= timer[u]
    BY <2>2, <2>4
  <2>6. timer' = [u \in Tasks |-> IF u \in sleeping THEN timer[u] - m ELSE timer[u]]
    BY DEF Idle
  <2>7. QED
    BY <2>5, <2>6
\* a task that sleeps loses d; any other task is done and keeps no timer
<1>4. ASSUME NEW u \in Tasks
      PROVE  /\ timer'[u] \in Nat
             /\ st[u] = "sleeping" => timer'[u] + d = timer[u]
             /\ st[u] # "sleeping" => st[u] = "done" /\ timer'[u] = 0
                                      /\ timer[u] = 0
  <2>1. st[u] \in {"ready", "sleeping", "done"} /\ st[u] # "ready"
        /\ timer[u] \in Nat /\ (st[u] # "sleeping" => timer[u] = 0)
    BY <1>2, TaskCounts
  <2>2. st[u] = "sleeping" => timer'[u] = timer[u] - d /\ d <= timer[u]
    BY <1>3
  <2>5. d \in Nat
    BY <1>3
  <2>3. st[u] # "sleeping" => timer'[u] = timer[u]
    BY <1>3
  <2>4. QED
    BY <2>1, <2>2, <2>3, <2>5
<1>5. /\ GreedyLeft' = GreedyLeft /\ CoopLeft' = CoopLeft /\ GreedyLeft = 0
      /\ st["greedy"] = "done"
  <2>1. "greedy" \in Tasks
    BY <1>0
  <2>2. /\ polls["greedy"] \in 0 .. 1 /\ (polls["greedy"] = 0 => st["greedy"] = "ready")
        /\ (st["greedy"] = "done" <=> polls["greedy"] = 1)
    BY <2>1, TaskCounts
  <2>3. polls["greedy"] = 1
    BY <2>1, <2>2, <1>2
  <2>4. QED
    BY <2>2, <2>3, <1>2 DEF GreedyLeft, CoopLeft
<1>6. /\ CoopChain' = timer'[Coop] + SleepsAfter(10, 10, polls[Coop])
      /\ IoChain' = timer'[Io] + SleepsAfter(5, 50000, polls[Io])
  BY <1>2 DEF CoopChain, IoChain
<1>7. /\ polls[Coop] \in 0 .. 11 /\ (st[Coop] = "done" <=> polls[Coop] = 11)
      /\ polls[Io] \in 0 .. 6 /\ (st[Io] = "done" <=> polls[Io] = 6)
      /\ Coop \in Tasks /\ Io \in Tasks
  <2>1. Coop \in Tasks /\ Io \in Tasks /\ Coop # "greedy" /\ Io # "greedy" /\ Io # Coop
    BY <1>0 DEF Coop, Io
  <2>2. QED
    BY <2>1, TaskCounts
<1>8. PICK cc \in Nat, ic \in Nat :
        /\ cc = timer'[Coop] + SleepsAfter(10, 10, polls[Coop])
        /\ ic = timer'[Io] + SleepsAfter(5, 50000, polls[Io])
  BY <1>4, <1>7 DEF SleepsAfter
<1>9. /\ st[Coop] = "sleeping" => cc + d = CoopChain
      /\ st[Coop] # "sleeping" => cc = CoopChain /\ CoopChain = 0
      /\ st[Io] = "sleeping" => ic + d = IoChain
      /\ st[Io] # "sleeping" => ic = IoChain /\ IoChain = 0
  <2>1. timer'[Coop] \in Nat /\ timer'[Io] \in Nat
    BY <1>4, <1>7
  <2>2. st[Coop] = "sleeping" => timer'[Coop] + d = timer[Coop]
    BY <1>4, <1>7
  <2>3. st[Coop] # "sleeping" => timer'[Coop] = 0 /\ timer[Coop] = 0 /\ polls[Coop] = 11
    BY <1>4, <1>7
  <2>4. st[Io] = "sleeping" => timer'[Io] + d = timer[Io]
    BY <1>4, <1>7
  <2>5. st[Io] # "sleeping" => timer'[Io] = 0 /\ timer[Io] = 0 /\ polls[Io] = 6
    BY <1>4, <1>7
  <2>6. QED
    BY <2>1, <2>2, <2>3, <2>4, <2>5, <1>7, <1>8 DEF CoopChain, IoChain, SleepsAfter
<1>11. Pot' = cpu * (GreedyLeft + CoopLeft) + Larger(cc, ic)
  <2>1. Pot' = cpu * (GreedyLeft' + CoopLeft') + Larger(CoopChain', IoChain')
    BY <1>2 DEF Pot
  <2>2. cc = CoopChain' /\ ic = IoChain'
    BY <1>6, <1>8
  <2>3. QED
    BY <2>1, <2>2, <1>5, Zenon
<1>12. Pot = cpu * (GreedyLeft + CoopLeft) + Larger(CoopChain, IoChain)
       /\ cpu * (GreedyLeft + CoopLeft) \in Nat
  BY <1>1, <1>10 DEF Pot
<1>13. ~OthersDone => st[Coop] = "sleeping" \/ st[Io] = "sleeping"
  BY <1>5, <1>7, <1>0, <1>4 DEF OthersDone
<1>14. ~OthersDone => Larger(cc, ic) + d = Larger(CoopChain, IoChain)
  BY <1>13, <1>9, <1>10 DEF Larger
<1>15. /\ Larger(cc, ic) <= Larger(CoopChain, IoChain) /\ Larger(cc, ic) \in Nat
       /\ Larger(CoopChain, IoChain) \in Nat
  <2>1. cc <= CoopChain /\ ic <= IoChain
    BY <1>9, <1>10
  <2>2. QED
    BY <2>1, <1>8, <1>10 DEF Larger
<1>16. ~OthersDone => st[Dly] = "sleeping"
  <2>1. st[Dly] # "done" \/ OthersDone
    BY DEF DelayedInv, DelayedAhead
  <2>2. st[Dly] \in {"ready", "sleeping", "done"}
    BY TaskCounts
  <2>3. QED
    BY <2>1, <2>2, <1>2
<1>17. QED
  <2> DEFINE q == cpu * (GreedyLeft + CoopLeft) + Larger(cc, ic)
  <2>1. q \in Nat /\ q <= Pot
    BY <1>12, <1>15, <1>10
  <2>2. ~OthersDone =>
          /\ st[Dly] = "sleeping" /\ timer'[Dly] \in Nat
          /\ timer'[Dly] + Pot >= timer[Dly] + q
    BY <1>4, <1>10, <1>12, <1>14, <1>15, <1>16
  <2>3. QED
    BY <2>1, <2>2, <1>11, Zenon

(***************************************************************************)
(* delayed_work's own polls burn no CPU time: they leave every other       *)
(* timer and the bound alone; the first starts its 2s sleep, the second    *)
(* finishes it.                                                            *)
(***************************************************************************)
LEMMA PollDelayed ==
    ASSUME DelayedInv, Dly \in Tasks, Poll(Dly)
    PROVE  /\ Pot' = Pot
           /\ \A u \in Others : st'[u] = st[u]
           /\ polls[Dly] = 0 => st'[Dly] = "sleeping" /\ timer'[Dly] = 2000000
                                /\ polls'[Dly] = 1
           /\ polls[Dly] # 0 => st'[Dly] = "done" /\ OthersDone
<1> DEFINE k == polls[Dly] + 1
<1>1. prog = TasksTypes /\ cpu \in Nat
      /\ Tasks = {"greedy", Coop, Io, Dly} /\ Others = {"greedy", Coop, Io}
      /\ st \in [Tasks -> States] /\ polls \in [Tasks -> Nat]
  BY AheadFacts
<1>2. /\ polls[Dly] \in 0 .. 2 /\ st[Dly] = "ready"
      /\ (st[Dly] = "done" <=> polls[Dly] = 2)
  <2>1. Dly # "greedy" /\ Dly # Coop /\ Dly # Io
    BY DEF Dly, Coop, Io
  <2>2. QED
    BY <2>1, TaskCounts DEF Poll
<1>3. /\ polls' = [polls EXCEPT ![Dly] = k]
      /\ st' = [st EXCEPT ![Dly] = IF k = 2 THEN "done" ELSE "sleeping"]
      /\ timer' = [u \in Tasks |->
                      IF u = Dly THEN (IF k = 2 THEN 0 ELSE prog[Dly].sleep[k])
                      ELSE IF st[u] = "sleeping"
                           THEN Elapse(timer[u], prog[Dly].cost[k] * cpu)
                           ELSE timer[u]]
      /\ UNCHANGED <<prog, cpu>>
  BY <1>1, MixBodies DEF Poll
<1>4. k \in 1 .. 2 /\ prog[Dly].cost[k] * cpu = 0
  BY <1>1, <1>2, MixBodies
<1>5. ASSUME NEW u \in Others
      PROVE  polls'[u] = polls[u] /\ st'[u] = st[u] /\ timer'[u] = timer[u]
  <2>1. u \in Tasks /\ u # Dly /\ timer[u] \in Nat
    BY <1>1, TaskCounts DEF Others
  <2>2. timer'[u] = IF st[u] = "sleeping" THEN Elapse(timer[u], 0) ELSE timer[u]
    BY <2>1, <1>3, <1>4
  <2>3. QED
    BY <2>1, <2>2, <1>1, <1>3, ElapseBounds
<1>6. Pot' = Pot
  <2>1. "greedy" \in Others /\ Coop \in Others /\ Io \in Others
    BY <1>1
  <2>2. /\ polls'["greedy"] = polls["greedy"] /\ polls'[Coop] = polls[Coop]
        /\ polls'[Io] = polls[Io] /\ timer'[Coop] = timer[Coop]
        /\ timer'[Io] = timer[Io]
    BY <2>1, <1>5
  <2>3. QED
    BY <2>2, <1>3 DEF Pot, GreedyLeft, CoopLeft, CoopChain, IoChain
<1>7. polls[Dly] # 0 => OthersDone
  BY <1>2 DEF DelayedInv, DelayedAhead
<1>8. QED
  <2>1. polls[Dly] = 0 => timer'[Dly] = 2000000
    BY <1>1, <1>3, MixBodies
  <2>2. QED
    BY <2>1, <1>1, <1>2, <1>3, <1>5, <1>6, <1>7


(***************************************************************************)
(* No step of the worker, the timer driver or the join breaks the bound:   *)
(* it stays under the budget, delayed_work's sleep stays ahead of it while *)
(* another task is unfinished, and delayed_work's second poll or its end   *)
(* only comes with the other three done.                                   *)
(***************************************************************************)
LEMMA AheadStep ==
    ASSUME DelayedInv, FastEnough, [Next]_vars, Dly \in Tasks
    PROVE  DelayedAhead'
<1>1. /\ prog = TasksTypes /\ cpu \in Nat /\ cpu \in CpuCosts
      /\ Tasks = {"greedy", Coop, Io, Dly} /\ Others = {"greedy", Coop, Io}
      /\ st \in [Tasks -> States] /\ Pot \in Nat
  BY AheadFacts DEF DelayedInv
<1>2. /\ Pot <= Budget(cpu)
      /\ st[Dly] = "sleeping" => timer[Dly] > Pot \/ OthersDone
      /\ (st[Dly] = "ready" /\ polls[Dly] = 1) \/ st[Dly] = "done" => OthersDone
  BY DEF DelayedInv, DelayedAhead
<1>3. prog' = prog /\ cpu' = cpu
  BY DEF Next, Poll, Fire, Idle, Join, Finished, vars
<1>15. Others' = Others
  BY <1>3 DEF Others, Tasks
<1>4. timer' \in [Tasks -> Nat] /\ Budget(cpu) \in Nat
  <2>1. TypeInv'
    BY TypeStep DEF DelayedInv
  <2>2. QED
    BY <2>1, <1>1, <1>3 DEF TypeInv, Tasks, Budget
\* every case below shows the bound's three clauses for a fresh p = Pot'
<1>5. Pot' \in Nat
  <2>1. ASSUME NEW t \in Tasks, Poll(t) PROVE Pot' \in Nat
    <3>1. CASE t = Dly
      BY <2>1, <3>1, <1>1, PollDelayed
    <3>2. CASE t # Dly
      BY <2>1, <3>2, <1>1, PollOther DEF Others
    <3>3. QED
      BY <3>1, <3>2
  <2>2. ASSUME NEW t \in Tasks, Fire(t) PROVE Pot' \in Nat
    BY <2>2, <1>1 DEF Fire, Pot, GreedyLeft, CoopLeft, CoopChain, IoChain
  <2>3. CASE Idle
    BY <2>3, IdleBound
  <2>4. CASE Join \/ Finished \/ UNCHANGED vars
    BY <2>4, <1>1 DEF Join, Finished, vars, Pot, GreedyLeft, CoopLeft,
       CoopChain, IoChain
  <2>5. QED
    BY <2>1, <2>2, <2>3, <2>4 DEF Next
<1>6. PICK p \in Nat : p = Pot'
  BY <1>5
<1> DEFINE Clauses ==
      /\ p <= Budget(cpu)
      /\ st'[Dly] = "sleeping" => timer'[Dly] > p \/ OthersDone'
      /\ (st'[Dly] = "ready" /\ polls'[Dly] = 1) \/ st'[Dly] = "done" => OthersDone'
<1> SUFFICES Clauses
  <2>1. Budget(cpu') = Budget(cpu) /\ prog' = TasksTypes
    BY <1>1, <1>3
  <2>2. QED
    BY <2>1, <1>6, Zenon DEF DelayedAhead
<1>7. timer'[Dly] \in Nat /\ timer[Dly] \in Nat
  BY <1>1, <1>4 DEF DelayedInv, TypeInv
<1>8. ASSUME NEW t \in Others, Poll(t) PROVE Clauses
  <2>1. p + PollCost(t) <= Pot /\ PollCost(t) \in Nat
    BY <1>8, <1>6, <1>1, PollOther, Zenon
  <2>2. /\ st'[Dly] = st[Dly] /\ polls'[Dly] = polls[Dly]
        /\ st[Dly] = "sleeping" => timer'[Dly] + PollCost(t) >= timer[Dly]
    BY <1>8, <1>1, PollOther
  <2>3. ~OthersDone
    BY <1>8 DEF Poll, OthersDone
  <2>4. QED
    BY <2>1, <2>2, <2>3, <1>1, <1>2, <1>4, <1>7
<1>9. ASSUME Poll(Dly) PROVE Clauses
  <2>0. Pot' = Pot
    BY <1>9, <1>1, PollDelayed
  <2>1. p = Pot
    BY <2>0, <1>6
  <2>2. OthersDone' = OthersDone
    BY <1>9, <1>1, <1>15, PollDelayed DEF OthersDone
  <2>3. Budget(cpu) < 2000000
    BY <1>1 DEF FastEnough
  <2>4. /\ polls[Dly] = 0 => st'[Dly] = "sleeping" /\ timer'[Dly] = 2000000
                             /\ polls'[Dly] = 1
        /\ polls[Dly] # 0 => st'[Dly] = "done" /\ OthersDone
    BY <1>9, <1>1, PollDelayed
  <2>5. QED
    BY <2>1, <2>2, <2>3, <2>4, <1>2, <1>4
<1>10. ASSUME NEW t \in Tasks, Fire(t) PROVE Clauses
  <2>1. p = Pot
    BY <1>10, <1>6, <1>1 DEF Fire, Pot, GreedyLeft, CoopLeft, CoopChain, IoChain
  <2>2. OthersDone' = OthersDone
    BY <1>10, <1>1, <1>15 DEF Fire, OthersDone
  <2>3. st'[Dly] = (IF t = Dly THEN "ready" ELSE st[Dly])
        /\ polls' = polls /\ timer' = timer
    BY <1>10, <1>1 DEF Fire
  <2>4. t = Dly => st[Dly] = "sleeping" /\ timer[Dly] = 0
    BY <1>10 DEF Fire
  <2>5. t = Dly => polls[Dly] = 1
    <3>1. /\ polls[Dly] \in 0 .. 2 /\ (st[Dly] = "done" <=> polls[Dly] = 2)
          /\ (polls[Dly] = 0 => st[Dly] = "ready")
      <4>1. Dly # "greedy" /\ Dly # Coop /\ Dly # Io
        BY DEF Dly, Coop, Io
      <4>2. QED
        BY <4>1, TaskCounts
    <3>2. QED
      BY <3>1, <2>4
  <2>6. QED
    BY <2>1, <2>2, <2>3, <2>4, <2>5, <1>1, <1>2
<1>11. CASE Idle
  <2>1. p <= Pot /\ (~OthersDone => /\ st[Dly] = "sleeping"
                                    /\ timer'[Dly] + Pot >= timer[Dly] + p)
    BY <1>11, <1>6, IdleBound, Zenon
  <2>2. st' = st /\ polls' = polls
    BY <1>11 DEF Idle
  <2>3. OthersDone' = OthersDone
    BY <2>2, <1>15 DEF OthersDone
  <2>4. QED
    BY <2>1, <2>2, <2>3, <1>1, <1>2, <1>4, <1>7
<1>12. CASE Join \/ Finished \/ UNCHANGED vars
  <2>1. UNCHANGED <<st, polls, timer>>
    BY <1>12 DEF Join, Finished, vars
  <2>2. p = Pot /\ OthersDone' = OthersDone
    BY <2>1, <1>3, <1>6, <1>15 DEF Pot, GreedyLeft, CoopLeft, CoopChain, IoChain, OthersDone
  <2>3. QED
    BY <2>1, <2>2, <1>1, <1>2
<1>13. QED
  <2>1. ASSUME NEW t \in Tasks, Poll(t) PROVE Clauses
    <3>1. t = Dly \/ t \in Others
      BY <1>1
    <3>2. QED
      BY <3>1, <2>1, <1>8, <1>9
  <2>2. QED
    BY <2>1, <1>10, <1>11, <1>12 DEF Next


\* The bound is inductive on a fast enough machine.
LEMMA DelayedStep ==
    DelayedInv /\ FastEnough /\ [Next]_vars => DelayedInv'
<1> SUFFICES ASSUME DelayedInv, FastEnough, [Next]_vars PROVE DelayedInv'
  OBVIOUS
<1>1. prog' = prog /\ cpu' = cpu
  BY DEF Next, Poll, Fire, Idle, Join, Finished, vars
<1>2. TypeInv' /\ TimersParked' /\ cpu' \in CpuCosts
  BY <1>1, TypeStep, ParkedStep DEF DelayedInv
<1>3. Dly \in Tasks' => DelayedAhead'
  <2>1. Tasks' = Tasks
    BY <1>1 DEF Tasks
  <2>2. QED
    BY <2>1, AheadStep
<1>4. QED
  BY <1>2, <1>3 DEF DelayedInv

(***************************************************************************)
(* For both workloads of the code, on any machine that does 10_000_000     *)
(* additions in less than 87.5ms: in test_tasks_types_tokio delayed_work   *)
(* is the last of the four tasks to finish, its 2s sleep outlasting the    *)
(* 100_000_000 additions of greedy_task, the ten 10us sleeps and the CPU   *)
(* time of cpu_cooperative and the five 50ms sleeps of io_bound.           *)
(***************************************************************************)
THEOREM DelayedWorkOutlastsMix ==
    CodeWorkloads /\ FastEnough => (Spec => []DelayedWorkFinishesLast)
<1> SUFFICES ASSUME CodeWorkloads, FastEnough
             PROVE  Spec => []DelayedWorkFinishesLast
  OBVIOUS
<1>1. DelayedInv => DelayedWorkFinishesLast
  <2> SUFFICES ASSUME DelayedInv, Dly \in Tasks, st[Dly] = "done",
                      NEW u \in Tasks
               PROVE  st[u] = "done"
    BY DEF DelayedWorkFinishesLast, Dly
  <2>1. OthersDone
    BY DEF DelayedInv, DelayedAhead
  <2>2. QED
    BY <2>1 DEF OthersDone, Others
<1>2. QED
  BY DelayedInit, DelayedStep, <1>1, PTL DEF Spec

=============================================================================
