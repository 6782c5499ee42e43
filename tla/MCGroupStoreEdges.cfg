SPECIFICATION Spec
CONSTANTS
    GroupId = {1, 2}
    k1 = k1
    k2 = k2
    k3 = k3
    k4 = k4
    Key = {k1, k2, k3, k4}
    Name = {""}
    NoName = ""
    Rank = {""}
    NoRank = ""
    NoWinner = NoWinner
    RemoteGroup <- MCRemoteOverlap
    MaxTime = 4
    SaveOutcomes = {"ok"}
    AttrsCanFail = TRUE
INVARIANTS SnapshotStrandsNothing
PROPERTIES RenameFollowsSession NextWriteHeals
CHECK_DEADLOCK FALSE
