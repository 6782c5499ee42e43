SPECIFICATION FairSpec
CONSTANTS
    Node = {a, b}
    Conn = {c1, c2}
    None = None
    Commands = {"pair"}
    MaxCommands = 1
    MaxBreaks = 1
    HalfOpen = TRUE
PROPERTY AutoRecovers
CHECK_DEADLOCK FALSE
