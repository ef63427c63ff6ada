SPECIFICATION Spec
CONSTANTS
    user = user
    p = p
    q = q
    r = r
    c = c
    d = d
    Actor = {user, p, q, r, c, d}
    Guardian = user
    Parent <- MCParent
    Name <- SharedNames
    Props <- MCProps
    Alive = {user, p, c}
    Watchers = {p}
    Strategies = {"Stop", "Restart", "Escalate"}
    Fallible = {p, c}
    PanicsIn = {"pre_start", "post_stop", "recv", "sys_recv"}
    MaxPanics = 1
    MaxStartPanics = 1
    MaxStops = 1
INVARIANTS TypeOK UniquePath PathsHaveBearers ChildrenGoFirst
PROPERTY RestartAfterChildren
CHECK_DEADLOCK FALSE
