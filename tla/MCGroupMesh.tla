---------------------------- MODULE MCGroupMesh ----------------------------
EXTENDS GroupMesh, TLC
CONSTANTS k1, k2, k3, k4, A, B

Tree(tree, at) == [ZeroGroup EXCEPT !.tree = tree, !.treeAt = at]

\* One group, or two edited one after the other.
MCStart == {[NoGroups EXCEPT ![1] = Tree({k1, k2}, 1)],
            [NoGroups EXCEPT ![1] = Tree({k1, k2}, 1), ![2] = Tree({k3, k4}, 2)]}

\* The keys of each starting group are interchangeable.
Symmetry == Permutations({k1, k2}) \cup Permutations({k3, k4})

MCStartEmpty == {NoGroups}

Pair == {<<A, B>>}
=============================================================================
