SPECIFICATION FairSpec
CONSTANTS
    Node = {a, b}
    Conn = {c1, c2}
    None = None
    Commands = {"pair"}
    MaxCommands = 1
    MaxBreaks = 3
    HalfOpen = FALSE
PROPERTY AutoRecovers
CHECK_DEADLOCK FALSE
