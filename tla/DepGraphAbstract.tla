--------------------------- MODULE DepGraphAbstract ---------------------------
(***************************************************************************)
(* What DependencyGraph promises its caller (spec sections 3 and 5), with  *)
(* no loop and no map: given the task list, one step returns the greedy    *)
(* earliest-placement leveling of it, and that step is eventually taken.   *)
(* The detailed module DepGraph implements this for inputs whose ids are   *)
(* their positions and a map the caller leaves alone.                      *)
(***************************************************************************)
EXTENDS TaskModel, Naturals, Sequences

CONSTANT N                 \* number of tasks

TaskIds == 0 .. (N - 1)

VARIABLES
    input,    \* the Vec<Task> handed to from_tasks
    result,   \* the levels returned, <<>> until then
    status    \* "planning" until execution_levels returns, then "done"

absVars == <<input, result, status>>

\* The tasks a task must wait for: the earlier tasks it conflicts with.
SpecPred(t) == {p \in 0 .. (t - 1) : SpecConflict(input[p], input[t])}

MaxOf(S) == CHOOSE m \in S : \A x \in S : x <= m

\* The greedy level of a task (1-based): first level after all its
\* predecessors' levels.
EarliestLevel[t \in TaskIds] ==
    IF SpecPred(t) = {} THEN 1
    ELSE 1 + MaxOf({EarliestLevel[p] : p \in SpecPred(t)})

\* The leveling as a sequence of sets, with no empty level.
GreedyLevels ==
    [k \in 1 .. MaxOf({EarliestLevel[t] : t \in TaskIds} \cup {0}) |->
        {t \in TaskIds : EarliestLevel[t] = k}]

AbsInit ==
    /\ input \in {f \in [TaskIds -> TaskRecord(TaskIds)] :
                     \A k \in TaskIds : f[k].id = k}
    /\ result = <<>>
    /\ status = "planning"

\* from_tasks followed by execution_levels, as one step.
Plan ==
    /\ status = "planning"
    /\ result' = GreedyLevels
    /\ status' = "done"
    /\ UNCHANGED input

AbsSpec == AbsInit /\ [][Plan]_absVars /\ WF_absVars(Plan)
=============================================================================
