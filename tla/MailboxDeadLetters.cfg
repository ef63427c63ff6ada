SPECIFICATION Spec
CONSTANTS
    Client = {c1}
    Creator = c1
    Supervisor = parent
    Kernel = kernel
    Msg = {m1}
    Strategies = {"Stop", "Restart"}
    msg_process_limit = 1
    MaxPanics = 1
    MaxStartPanics = 0
    MaxStops = 1
    MaxEvents = 1
INVARIANT DeadLettersComplete
CHECK_DEADLOCK FALSE
