SPECIFICATION Spec
CONSTANTS
    user = user
    p = p
    q = q
    r = r
    c = c
    d = d
    Actor = {user, p, c, d}
    Guardian = user
    Parent <- MCParent
    Name <- SharedNames
    Props <- MCProps
    Alive = {user, p, c}
    Watchers = {}
    Strategies = {"Restart"}
    Fallible = {}
    PanicsIn = {"pre_start"}
    MaxPanics = 1
    MaxStartPanics = 1
    MaxStops = 2
PROPERTY ChildrenStoppedBeforePostStop
CHECK_DEADLOCK FALSE
