SPECIFICATION FairSpec
CONSTANTS
    Inst = {d1, d2}
    None = None
    Delays = {"exit", "cleanup", "kill", "flag"}
    MaxResets = 1
    MaxCrashes = 2
PROPERTIES GhostsGo TrackedSacred
CHECK_DEADLOCK FALSE
