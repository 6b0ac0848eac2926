SPECIFICATION Spec
CONSTANTS
    Chars <- MCChars
    Slash = "/"
    Froms <- MCFroms
    Paths <- MCPaths
    Targets <- MCTargets
    Capacity = 3
INVARIANTS
    TypeOK
    RulesAreSane
PROPERTIES
    ImplementsTable
CHECK_DEADLOCK FALSE
