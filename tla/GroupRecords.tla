--------------------------- MODULE GroupRecords ---------------------------
(***************************************************************************)
(* The records of pkg/groupsync and the pure operators on them: field-wise *)
(* last-writer-wins merge, the enforcement pass that makes membership      *)
(* exclusive, key removal and key renaming.  No variables: GroupStore (one *)
(* server) and GroupMesh (several servers) are built from these.           *)
(*                                                                         *)
(* A pane tree is abstracted to the set of session keys on its leaves,     *)
(* which is what MemberKeys extracts and all that enforce looks at; split  *)
(* directions, ratios and nesting are left out.  A time.Time is a natural  *)
(* number, 0 being the zero time.  The map s.groups is a total function:   *)
(* an absent id reads as the zero record, exactly as a Go map does.        *)
(***************************************************************************)
EXTENDS Naturals, FiniteSets

CONSTANTS
    GroupId,    \* group ids; naturals, since enforce breaks ties on id order
    Key,        \* session keys
    Name,       \* group names, NoName included
    NoName,     \* the empty string
    Rank,       \* sidebar ranks, NoRank included
    NoRank,     \* the empty string
    NoWinner    \* the empty winnerID, the id of no group

ASSUME RecordAssumption ==
    /\ GroupId \subseteq Nat
    /\ IsFiniteSet(GroupId)
    /\ NoWinner \notin GroupId
    /\ NoName \in Name
    /\ NoRank \in Rank

NameMode == {"", "auto", "manual"}

Group == [tree : SUBSET Key, treeAt : Nat,
          name : Name, nameAt : Nat,
          nameMode : NameMode, nameModeAt : Nat,
          rank : Rank, rankAt : Nat,
          deletedAt : Nat]

ZeroGroup == [tree |-> {}, treeAt |-> 0,
              name |-> NoName, nameAt |-> 0,
              nameMode |-> "", nameModeAt |-> 0,
              rank |-> NoRank, rankAt |-> 0,
              deletedAt |-> 0]

NoGroups == [id \in GroupId |-> ZeroGroup]

\* Present in the map.  Every path that creates a record stamps it.
Known(g) == g # ZeroGroup

Live(g) == Known(g) /\ g.deletedAt = 0

\* len(g.Tree) > 0: SetTree and an accepted remote tree are the only writers
\* of a tree, and both stamp it.
HasTree(g) == g.treeAt > 0

\* What every writer of a record guarantees: an unstamped tree is empty, and a
\* record in the map has a tree or is a tombstone.
WellFormed(g) ==
    /\ ~ HasTree(g) => g.tree = {}
    /\ Known(g) => HasTree(g) \/ g.deletedAt > 0

\* len(MemberKeys(tree)) >= 2
AtLeastTwo(S) == \E a, b \in S : a # b

-----------------------------------------------------------------------------
(* Membership enforcement. *)

\* Mutant: the sort ignores winnerID.
Before_NoWinner(gs, winner, i, j) ==
    \/ gs[i].treeAt > gs[j].treeAt
    \/ gs[i].treeAt = gs[j].treeAt /\ i < j

\* The sort of enforce: the winner, then the newest tree, then the lowest id.
\* i precedes j.
Before(gs, winner, i, j) ==
    \/ i = winner /\ j # winner
    \/ /\ (i = winner) = (j = winner)
       /\ \/ gs[i].treeAt > gs[j].treeAt
          \/ gs[i].treeAt = gs[j].treeAt /\ i < j

\* The groups that enforce's loop visits and does not skip.
Contenders(gs) == {id \in GroupId : Live(gs[id]) /\ HasTree(gs[id])}

\* Mutant: only the winner's keys are taken from the others.
Kept_WinnerOnly(gs, winner) ==
    [id \in GroupId |-> IF winner \in GroupId \ {id} THEN gs[id].tree \ gs[winner].tree
                       ELSE gs[id].tree]

\* What each contender keeps of its tree: the keys that no earlier survivor
\* owns.  A group left with fewer than two keys owns nothing.
Kept(gs, winner) ==
    LET kept[id \in GroupId] ==
          gs[id].tree \ UNION {kept[j] : j \in {k \in Contenders(gs) :
                                  /\ Before(gs, winner, k, id)
                                  /\ AtLeastTwo(kept[k])}}
    IN  kept

\* Mutant: only an emptied group is dissolved.
Settle_KeepsSingleton(g, kept, now) ==
    IF kept = {} THEN [g EXCEPT !.deletedAt = now]
    ELSE [g EXCEPT !.tree = kept, !.treeAt = IF kept = g.tree THEN @ ELSE now]

\* The fate of one contender given what it keeps.
Settle(g, kept, now) ==
    IF ~ AtLeastTwo(kept) THEN [g EXCEPT !.deletedAt = now]
    ELSE IF kept # g.tree THEN [g EXCEPT !.tree = kept, !.treeAt = now]
    ELSE g

Enforce(gs, now, winner) ==
    LET kept == Kept(gs, winner)
    IN  [id \in GroupId |->
            IF id \in Contenders(gs) THEN Settle(gs[id], kept[id], now) ELSE gs[id]]

\* The maps enforce and its callers return: the ids whose record changed.
Changed(before, after) == {id \in GroupId : before[id] # after[id]}

-----------------------------------------------------------------------------
(* Field-level last-writer-wins.  Every field has its own stamp, a strictly
   later stamp wins, and the tombstone is one more field. *)

\* Mutant: a newer tree reactivates a deleted group.
Merge_Reactivates(cur, in) ==
    IF in.treeAt > cur.treeAt
    THEN [cur EXCEPT !.tree = in.tree, !.treeAt = in.treeAt, !.deletedAt = in.deletedAt]
    ELSE [cur EXCEPT !.deletedAt = IF in.deletedAt > @ THEN in.deletedAt ELSE @]

Merge(cur, in) ==
    [tree      |-> IF in.treeAt > cur.treeAt THEN in.tree ELSE cur.tree,
     treeAt    |-> IF in.treeAt > cur.treeAt THEN in.treeAt ELSE cur.treeAt,
     name      |-> IF in.nameAt > cur.nameAt THEN in.name ELSE cur.name,
     nameAt    |-> IF in.nameAt > cur.nameAt THEN in.nameAt ELSE cur.nameAt,
     nameMode  |-> IF in.nameModeAt > cur.nameModeAt THEN in.nameMode ELSE cur.nameMode,
     nameModeAt |-> IF in.nameModeAt > cur.nameModeAt THEN in.nameModeAt ELSE cur.nameModeAt,
     rank      |-> IF in.rankAt > cur.rankAt THEN in.rank ELSE cur.rank,
     rankAt    |-> IF in.rankAt > cur.rankAt THEN in.rankAt ELSE cur.rankAt,
     deletedAt |-> IF in.deletedAt > cur.deletedAt THEN in.deletedAt ELSE cur.deletedAt]

\* "accepted": some field of in is newer.
Accepts(cur, in) ==
    \/ in.treeAt > cur.treeAt
    \/ in.nameAt > cur.nameAt
    \/ in.nameModeAt > cur.nameModeAt
    \/ in.rankAt > cur.rankAt
    \/ in.deletedAt > cur.deletedAt

\* ApplyRemote: merge one record, and let it win if its tree was taken.
AppliedDelta(gs, id, in, now) ==
    Enforce([gs EXCEPT ![id] = Merge(@, in)], now,
            IF in.treeAt > gs[id].treeAt THEN id ELSE NoWinner)

\* Mutant: the merged snapshot is stored without enforcement.
AppliedSnapshot_NoEnforce(gs, snap, now) ==
    [id \in GroupId |-> Merge(gs[id], snap[id])]

\* ApplySnapshot: merge every record, no winner.  An id that the snapshot does
\* not carry is the zero record, which no merge accepts.
AppliedSnapshot(gs, snap, now) ==
    Enforce([id \in GroupId |-> Merge(gs[id], snap[id])], now, NoWinner)

-----------------------------------------------------------------------------
(* Rewrites of the trees. *)

\* Prune keys from one live tree; the first pass of RemoveSessionKey and of
\* Reconcile.  An emptied tree is not written back, only tombstoned.
Pruned(g, keys, now) ==
    IF ~ Live(g) \/ ~ HasTree(g) \/ g.tree \cap keys = {} THEN g
    ELSE IF g.tree \subseteq keys THEN [g EXCEPT !.deletedAt = now]
    ELSE IF ~ AtLeastTwo(g.tree \ keys)
         THEN [g EXCEPT !.tree = @ \ keys, !.treeAt = now, !.deletedAt = now]
    ELSE [g EXCEPT !.tree = @ \ keys, !.treeAt = now]

\* Mutant: the pruned trees are stored without enforcement.
PrunedAll_NoEnforce(gs, keys, now) == [id \in GroupId |-> Pruned(gs[id], keys, now)]

PrunedAll(gs, keys, now) ==
    Enforce([id \in GroupId |-> Pruned(gs[id], keys, now)], now, NoWinner)

\* Mutant: the rewritten tree keeps its old stamp.
Renamed_KeepsStamp(g, old, new, now) ==
    IF old \notin g.tree THEN g ELSE [g EXCEPT !.tree = (@ \ {old}) \cup {new}]

\* MigrateKey on one tree, tombstoned or not.
Renamed(g, old, new, now) ==
    IF old \notin g.tree THEN g
    ELSE [g EXCEPT !.tree = (@ \ {old}) \cup {new}, !.treeAt = now]

Migrated(gs, old, new, now, later) ==
    Enforce([id \in GroupId |-> Renamed(gs[id], old, new, now)], later, NoWinner)

-----------------------------------------------------------------------------
(* What the maps promise. *)

\* Two live groups share no session: enforce's promise, "each session key is
\* owned by at most one live group".
ExclusiveIn(gs) ==
    \A i, j \in GroupId :
        i # j /\ Live(gs[i]) /\ Live(gs[j]) => gs[i].tree \cap gs[j].tree = {}

\* Of the keys of a live group, those that no other live group owns after.
Free(id, before, after) ==
    before[id].tree \ UNION {after[other].tree :
        other \in {j \in GroupId \ {id} : Live(after[j])}}

\* A group gives up exactly the keys that other live groups own afterwards, and
\* it is dissolved only if that leaves it fewer than two.
StrandsNothing(before, after) ==
    \A id \in GroupId : Live(before[id]) /\ AtLeastTwo(Free(id, before, after)) =>
        Live(after[id]) /\ after[id].tree = Free(id, before, after)

\* A store that enforcement has visited: well-formed records, and no live
\* group with fewer than two keys.
Sound(gs) ==
    \A id \in GroupId : WellFormed(gs[id]) /\ (Live(gs[id]) => AtLeastTwo(gs[id].tree))

SoundMap(gs) == gs \in [GroupId -> Group] /\ Sound(gs)
=============================================================================
