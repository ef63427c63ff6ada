SPECIFICATION FairSpec
CONSTANTS
    s1 = s1
    s2 = s2
    s3 = s3
    p = p
    q = q
    Subscriber = {s1, s2, s3}
    Path <- ReusedPath
    Topic = {all, t}
    All = all
    DeadTopic = t
    Msg = {m1, m2}
    DeadLetter = dl
    Kinds = {"user", "events", "dead_letters"}
    MaxTells = 3
    MaxDeaths = 1
    MailboxBound = 2
    InboxBound = 1
CHECK_DEADLOCK FALSE
INVARIANT TypeOK
PROPERTIES ActsWhenTaken ImplementsPubSub ComesToRest
