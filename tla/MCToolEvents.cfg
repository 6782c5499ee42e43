SPECIFICATION TrackerSpec
CONSTANTS
    Tools <- MCTools
    Native <- MCNative
    Reaped <- MCNative
    Crews <- MCCrews
    MaxHooks = 1
    MaxWrites = 2
    MaxRestarts = 1
    MaxOutputs = 1
INVARIANT TrackerInv
PROPERTIES AlertsGo TurnsClose
CHECK_DEADLOCK FALSE
