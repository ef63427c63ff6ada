SPECIFICATION Spec
CONSTANTS
    Client = {c1, c2}
    Creator = c1
    Supervisor = parent
    Kernel = kernel
    Msg = {m1, m2}
    Strategies = {"Stop", "Restart"}
    msg_process_limit = 1
    MaxPanics = 1
    MaxStartPanics = 1
    MaxStops = 1
    MaxEvents = 1
INVARIANTS TypeOK NoLostWakeup ScheduledMeansRun InitBeforeRecv
CHECK_DEADLOCK FALSE
SYMMETRY MsgSymmetry
