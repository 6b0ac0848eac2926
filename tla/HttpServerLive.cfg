SPECIFICATION Spec
CONSTANTS
    c1 = c1
    c2 = c2
    Clients <- MCClients
    NoClient = NoClient
    Requests <- MCLiveRequests
    BodyMax = 1
    SocketRoom = 1
PROPERTIES
    EveryoneServed
CHECK_DEADLOCK FALSE
