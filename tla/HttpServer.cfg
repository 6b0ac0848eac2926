SPECIFICATION Spec
CONSTANTS
    c1 = c1
    c2 = c2
    Clients <- MCClients
    NoClient = NoClient
    Requests <- MCRequests
    BodyMax = 3
    SocketRoom = 2
INVARIANTS
    TypeOK
    HeapSafe
    OnlyForgottenBlocksStay
    WholeResponseOrNone
PROPERTIES ImplementsService
SYMMETRY ClientSymmetry
CHECK_DEADLOCK FALSE
