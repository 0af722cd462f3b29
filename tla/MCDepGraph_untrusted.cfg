\* Untrusted caller: any id fields (one past the last position included)
\* and entries added to the pub dependency map between the two calls.
CONSTANTS
    Resources = {r1, r2}
    N = 2
    IdChoices <- MCIdsUntrusted
    AllowInject = TRUE
SPECIFICATION Spec
INVARIANTS
    LevelsSound
    MissingKeyNeedsForeignId
PROPERTIES
    Termination
\* execution_levels returns or panics: the terminal states are real stops.
CHECK_DEADLOCK FALSE
