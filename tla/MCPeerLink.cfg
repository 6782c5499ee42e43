SPECIFICATION Spec
CONSTANTS
    Node = {a, b}
    Conn = {c1, c2, c3}
    None = None
    Commands = {"pair", "repair", "reconnect", "enable", "disable", "forget"}
    MaxCommands = 3
    MaxBreaks = 1
    HalfOpen = TRUE
SYMMETRY MCSymmetry
INVARIANTS LinkInv OneReconnector
CHECK_DEADLOCK FALSE
