SPECIFICATION Spec
CONSTANTS
    Inst = {d1, d2, d3}
    None = None
    Delays = {}
    MaxResets = 1
    MaxCrashes = 2
SYMMETRY MCSymmetry
INVARIANT OneDaemon
INVARIANT FilesKept
INVARIANT LiveShown
INVARIANT UnreachableHonest
CHECK_DEADLOCK FALSE
