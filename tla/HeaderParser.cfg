SPECIFICATION Spec
CONSTANTS
    Fields <- MCFields
    Beyond = 9
    MaxFields = 4
    MaxRest = 2
    MaxHeaders = 3
INVARIANTS
    TypeOK
    HeadersComeFromTheHead
    LengthIsAnnounced
    NoStringLost
CHECK_DEADLOCK FALSE
