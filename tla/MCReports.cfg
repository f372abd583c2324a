CONSTANTS
    Entry = {1, 2}
    Author = {1, 2}
    LogCap = 1
    MaxProgress = 2
SPECIFICATION FairSpec
INVARIANTS
    TypeOK
    ShownErrorsAreLogged
PROPERTIES
    StatusLineEmpties
    ProgramEnds
\* A goroutine that waits for ever is what ProgramEnds is about.
CHECK_DEADLOCK FALSE
