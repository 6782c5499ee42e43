SPECIFICATION Spec
CONSTANTS
    GroupId = {1, 2}
    k1 = k1
    k2 = k2
    k3 = k3
    k4 = k4
    A = A
    B = B
    Key = {k1, k2, k3, k4}
    Name = {""}
    NoName = ""
    Rank = {""}
    NoRank = ""
    NoWinner = NoWinner
    Node = {A, B}
    Link <- Pair
    StartGroups <- MCStart
    LaneDepth = 3
    MaxEdits = 2
    MaxDrops = 1
INVARIANTS MeshInv SnapshotsRepair
PROPERTIES NoResurrection
CHECK_DEADLOCK FALSE
SYMMETRY Symmetry
