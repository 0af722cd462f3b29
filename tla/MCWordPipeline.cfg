\* The lib.rs workflow as written: five rounds, words named by the seed round.
CONSTANTS
    Rounds = 5
SPECIFICATION Spec
INVARIANTS
    TypeOK
    CountedWordIsLast
PROPERTIES
    WorkflowCompletes
