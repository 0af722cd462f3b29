------------------------------ MODULE MCTaskMix ------------------------------
(***************************************************************************)
(* TaskMix with the workloads the crate spawns and a range of CPU speeds.  *)
(***************************************************************************)
EXTENDS TaskMix, TLC

\* test_tasks_types_* and tokio_tasks / commoware_runtime_tasks.
MCWorkloads == {TasksTypes, SpawnDemo}

\* 10M additions: free on the virtual clock, 20ms, or 100ms (a slow debug
\* build, where greedy_task alone holds the worker for 1s).
MCCpuCosts == {0, 20000, 100000}
=============================================================================
