\* The caller's id fields need not match positions; the map is left as built.
CONSTANTS
    Resources = {r1, r2}
    N = 3
    IdChoices <- MCIdsCallerIds
    AllowInject = FALSE
SPECIFICATION Spec
SYMMETRY MCSymmetry
INVARIANTS
    EveryTaskScheduledOnce
CHECK_DEADLOCK FALSE
