CONSTANTS
    Workloads <- MCWorkloads
    CpuCosts <- MCCpuCosts
SPECIFICATION Spec
INVARIANTS GreedyDelaysCooperative DelayedWorkFinishesLast
PROPERTIES EveryTaskCompletes
