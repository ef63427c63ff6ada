SPECIFICATION FairSpec
CONSTANTS
    Client = {c1, c2}
    Creator = c1
    Supervisor = parent
    Kernel = kernel
    Msg = {m1}
    Strategies = {"Stop", "Restart"}
    msg_process_limit = 1
    MaxPanics = 1
    MaxStartPanics = 0
    MaxStops = 1
    MaxEvents = 0
PROPERTIES MessagesHandled StopCompletes FailureAnswered
CHECK_DEADLOCK FALSE
