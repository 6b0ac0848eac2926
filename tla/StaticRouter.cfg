SPECIFICATION Spec
CONSTANTS
    Files <- MCFiles
    MaxSize = 4
    MaxBytes = 3
    MaxChanges = 3
    Urls <- MCUrls
INVARIANTS
    TypeOK
    ServedWithinLimits
    ExactWhenQuiet
    NothingHeld
    ErrorsHaveACause
    OpensUnderRoot
PROPERTY HandlingEnds
CHECK_DEADLOCK FALSE
