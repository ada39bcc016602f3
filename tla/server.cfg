CONSTANTS
    HeaderSize = 2
    MaxMessageSize = 3
    Clients = {"c1", "c2"}
    Raw = {"c2"}
    Lines <- WithGarbage
    Listener = "accept"
    Nobody = "nobody"
    MaxFds = 1
    MaxEvents = 3
    SendBuffer = 2
    Window = 2
    Faults <- AllFaults
    MaxRequests <- TwoEach
    MaxFaults = 1
SPECIFICATION Spec
INVARIANTS TypeOK RequestsArriveInOrder RepliesComeInOrder CallbacksAreLive HandlerIsLive
CHECK_DEADLOCK FALSE
