SPECIFICATION Spec
CONSTANTS
    Kinds = {"Sync", "Background", "Node"}
    MaxFaults = 1
    MaxCopies = 2
INVARIANTS
    AnswersTrue
    OneWord
PROPERTIES
    ChildNotLeft
    CallEnds
CHECK_DEADLOCK FALSE
