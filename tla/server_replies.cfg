CONSTANTS
    HeaderSize = 2
    MaxMessageSize = 3
    Clients = {"c1", "c2"}
    Raw = {}
    Lines <- Shared
    Listener = "accept"
    Nobody = "nobody"
    MaxFds = 2
    MaxEvents = 3
    SendBuffer = 2
    Window = 2
    Faults <- NoFaults
    MaxRequests <- TwoAndOne
    MaxFaults = 0
SPECIFICATION FairSpec
INVARIANTS RequestsArriveInOrder RepliesComeInOrder WritesAreArmed
PROPERTIES RequestsAreAnswered
CHECK_DEADLOCK FALSE
