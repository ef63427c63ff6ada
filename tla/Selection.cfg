SPECIFICATION Spec
CONSTANTS
    bigbang = bigbang
    root = root
    user = user
    sysm = sysm
    temp = temp
    x = x
    x2 = x2
    u = u
    y = y
    xy = xy
    Actor = {bigbang, root, user, sysm, temp, x, x2, u, y, xy}
    BigBang = bigbang
    Root = root
    User = user
    Sysm = sysm
    Temp = temp
    Parent <- MCParent
    Name <- MCName
    MsgType <- MCMsgType
    Alive = {bigbang, root, user, sysm, temp, x, u, y, xy}
    Selectors = {"system", x}
    Paths <- MCPaths
    Types = {"Probe", "Other", "SystemMsg"}
INVARIANTS TypeOK OnlySelected StableReached PanicsExplained PathMeans
PROPERTY WalkEnds
CHECK_DEADLOCK FALSE
