----------------------------- MODULE TaskModel -----------------------------
(***************************************************************************)
(* The task model of the parallel-determinism scheduler                    *)
(* (src/runtime/src/parallel_determinism/types.rs).  A task is abstracted  *)
(* to its caller-supplied id and the sets of resources it reads and        *)
(* writes; its name and its work closure are never looked at by the        *)
(* scheduler and are left out.  The Rust Vec<ResourceId> read and write     *)
(* lists become sets: conflicts_with only asks `contains`, so order and     *)
(* duplicates cannot change its answer.                                     *)
(***************************************************************************)
EXTENDS Naturals

CONSTANT Resources   \* the resource identifiers (ResourceId = String)

\* struct Task { id, reads, writes, .. } with ids drawn from IdSet.
TaskRecord(IdSet) ==
    [id : IdSet, reads : SUBSET Resources, writes : SUBSET Resources]

\* Mutant of Conflicts: the write-write check of the second loop dropped.
ConflictsNoWW(a, b) ==
    \/ \E r \in a.reads  : r \in b.writes
    \/ \E w \in a.writes : w \in b.reads

(***************************************************************************)
(* Task::conflicts_with: the first loop returns true when one of a's reads *)
(* is written by b, the second when one of a's writes is read or written   *)
(* by b; otherwise false.  The early returns do not change the Boolean.    *)
(***************************************************************************)
Conflicts(a, b) ==
    \/ \E r \in a.reads  : r \in b.writes
    \/ \E w \in a.writes : w \in b.reads \/ w \in b.writes

(***************************************************************************)
(* The conflict relation as the specification states it (spec section 3): *)
(* two tasks conflict when one reads what the other writes or both write   *)
(* the same resource; read-read overlap never conflicts.  The properties   *)
(* are stated with this relation, independent of the code's predicate.     *)
(***************************************************************************)
SpecConflict(a, b) ==
    \/ a.reads  \cap b.writes # {}
    \/ b.reads  \cap a.writes # {}
    \/ a.writes \cap b.writes # {}
=============================================================================
