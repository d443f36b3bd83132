\* One connection; the process may die of a panic, and a connection ends.
SPECIFICATION FairSpec
CONSTANT
    Capacity = 2
INVARIANTS
    TypeOK
    NoOutputLost
    NobodyIsHeld
    PanicOnlyWhenEnding
PROPERTIES
    SessionEndClosesTerminal
    ReturnReleasesAll
    ExecEndClosesConnection
CHECK_DEADLOCK FALSE
