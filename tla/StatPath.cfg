SPECIFICATION Spec
CONSTANTS
    Files <- MCFiles
    MaxSize = 4
    MaxBytes = 3
    MaxChanges = 0
    Urls <- MCUrls
INVARIANT StatFreesItsPath
CHECK_DEADLOCK FALSE
