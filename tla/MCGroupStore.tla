--------------------------- MODULE MCGroupStore ---------------------------
EXTENDS GroupStore, TLC
CONSTANTS k1, k2, k3, k4

\* Records a peer sends: a group edited there, a group dissolved there, a bare
\* tombstone of an id it never had, and a group whose last change is its name
\* or its rank.  A stamp of RemoteFuture is ahead of the local clock.
RemoteFuture == MaxTime + 1

RemoteTree(tree, at) == [ZeroGroup EXCEPT !.tree = tree, !.treeAt = at]

MCRemoteGroup ==
    {RemoteTree({k1, k2}, 2), RemoteTree({k2, k3}, RemoteFuture),
     [RemoteTree({k1}, 1) EXCEPT !.deletedAt = RemoteFuture],
     [RemoteTree({k1, k3}, 1) EXCEPT !.name = "n", !.nameAt = 2,
                                     !.nameMode = "auto", !.nameModeAt = 3],
     [RemoteTree({k1, k3}, 1) EXCEPT !.rank = "r", !.rankAt = 2]}

\* Two overlapping groups, one of them from a fast clock: with local edits, a
\* theft that leaves its victim viable, one that does not, and renames that collide.
MCRemoteOverlap ==
    {RemoteTree({k2, k3}, RemoteFuture), RemoteTree({k1, k3, k4}, 1)}
=============================================================================
