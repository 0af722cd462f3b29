----------------------------- MODULE MCDepGraph -----------------------------
(***************************************************************************)
(* Model-checking instance of DepGraph: the id assignments the caller may  *)
(* use and the symmetry of resource names.                                 *)
(***************************************************************************)
EXTENDS DepGraph, TLC

\* Ids assigned by position, as the spec requires of a well-formed input.
MCIdsPositional == {[k \in TaskIds |-> k]}

\* Id fields in range but not necessarily matching positions.
MCIdsCallerIds == [TaskIds -> TaskIds]

\* Any id field a caller may write, one past the last position included.
MCIdsUntrusted == [TaskIds -> 0 .. N]

\* Resource names are only compared for equality.
MCSymmetry == Permutations(Resources)
=============================================================================
