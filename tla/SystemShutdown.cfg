SPECIFICATION Spec
CONSTANTS
    Kid = {}
    Name <- OneName
    Call = {s1}
    Droppers = {}
    Letter = {}
    Names = {"valid"}
    Limits = {1}
    Word = 4
    MaxCommands = 1
PROPERTY ShutdownReturns
CHECK_DEADLOCK FALSE
