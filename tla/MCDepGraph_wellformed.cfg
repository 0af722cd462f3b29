\* Well-formed input: ids are positions, the map is left as built.
CONSTANTS
    Resources = {r1, r2}
    N = 4
    IdChoices <- MCIdsPositional
    AllowInject = FALSE
SPECIFICATION Spec
SYMMETRY MCSymmetry
INVARIANTS
    TypeOK
    LevelsSound
    ConflictingTasksOrdered
    EveryTaskScheduledOnce
\* execution_levels returns: the terminal states are real stops.
CHECK_DEADLOCK FALSE
