\* Ids are positions; the caller adds entries to the dependency map.
CONSTANTS
    Resources = {r1, r2}
    N = 2
    IdChoices <- MCIdsPositional
    AllowInject = TRUE
SPECIFICATION Spec
INVARIANTS
    CycleIsNotACrash
CHECK_DEADLOCK FALSE
