SPECIFICATION Spec
CONSTANTS
    Fields <- MCBareRequest
    Beyond = 9
    MaxFields = 1
    MaxRest = 1
    MaxHeaders = 2
INVARIANT HeadersAreTheFields
CHECK_DEADLOCK FALSE
