\* Well-formed input, no symmetry (the abstract spec has a fairness
\* condition): three tasks, so that chains, forks and joins of conflicts
\* all occur.
CONSTANTS
    Resources = {r1, r2}
    N = 3
    IdChoices <- MCIdsPositional
    AllowInject = FALSE
SPECIFICATION Spec
PROPERTIES
    ImplementsAbstract
\* execution_levels returns: the terminal states are real stops.
CHECK_DEADLOCK FALSE
