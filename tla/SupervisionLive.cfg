SPECIFICATION FairSpec
CONSTANTS
    user = user
    p = p
    q = q
    r = r
    c = c
    d = d
    Actor = {user, p, c, d}
    Guardian = user
    Parent <- MCParent
    Name <- DistinctNames
    Props <- MCProps
    Alive = {user, p, c}
    Watchers = {}
    Strategies = {"Stop", "Restart", "Escalate"}
    Fallible = {p, c, d}
    PanicsIn = {"pre_start", "post_stop", "recv", "sys_recv"}
    MaxPanics = 1
    MaxStartPanics = 1
    MaxStops = 1
PROPERTIES StopCompletes FailureResolved
CHECK_DEADLOCK FALSE
