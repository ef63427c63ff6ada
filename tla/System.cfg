SPECIFICATION Spec
CONSTANTS
    Kid = {k1, k2}
    Name <- OneName
    Call = {s1, s2}
    Droppers = {s2}
    Letter = {l1}
    Names = {"valid", "invalid"}
    Limits = {1, 4}
    Word = 4
    MaxCommands = 3
INVARIANTS TypeOK CompletedMeansStopped SubscribedBeforeEnd
PROPERTIES ShutdownCompletes LettersLogged
CHECK_DEADLOCK FALSE
