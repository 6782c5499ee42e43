SPECIFICATION Spec
CONSTANTS
    GroupId = {1, 2}
    k1 = k1
    k2 = k2
    k3 = k3
    k4 = k4
    Key = {k1, k2, k3}
    Name = {"", "n"}
    NoName = ""
    Rank = {"", "r"}
    NoRank = ""
    NoWinner = NoWinner
    RemoteGroup <- MCRemoteGroup
    MaxTime = 3
    SaveOutcomes = {"ok", "failed"}
    AttrsCanFail = FALSE
INVARIANTS TypeOK Exclusive NoDegenerateGroup
PROPERTIES TombstonesDurable LocalEditWins
CHECK_DEADLOCK FALSE
