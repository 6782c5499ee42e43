---------------------------- MODULE GroupStore ----------------------------
(***************************************************************************)
(* The group store of one server (pkg/groupsync.Store), its file           *)
(* groups.json, and the one request that touches it in two critical        *)
(* sections: POST /session-attrs with background=true, which prunes the    *)
(* session from every group, writes the attributes, and puts the groups    *)
(* back if that write fails.                                               *)
(*                                                                         *)
(* Store.mu makes each method atomic, so each method is one action; save() *)
(* is part of it.  save() is os.WriteFile: it can fail before it touches   *)
(* the file, or after truncating it, and NewStore reads a file it cannot   *)
(* parse as an empty map.                                                  *)
(***************************************************************************)
EXTENDS GroupRecords

CONSTANTS
    RemoteGroup,    \* records a peer may send
    MaxTime,        \* bound on the local clock
    SaveOutcomes,   \* what save() may do: some of SaveOutcome
    AttrsCanFail    \* may AttrsStore.Set return an error

SaveOutcome == {"ok", "failed", "torn"}

ASSUME StoreAssumption ==
    /\ RemoteGroup \subseteq Group
    /\ \A g \in RemoteGroup : Known(g) /\ WellFormed(g)
    /\ MaxTime \in Nat
    /\ SaveOutcomes \subseteq SaveOutcome
    /\ AttrsCanFail \in BOOLEAN

VARIABLES
    groups,     \* s.groups
    disk,       \* the contents of groups.json: a map, or Torn
    now,        \* the last value read from the clock
    prior       \* the groupsPrior of the background request in flight: the
                \* records to put back, by id; NoGroups when there is none

vars == <<groups, disk, now, prior>>

\* A truncated groups.json loads as the empty map.
Torn == NoGroups

TypeOK ==
    /\ groups \in [GroupId -> Group]
    /\ disk \in [GroupId -> Group]
    /\ now \in Nat
    /\ prior \in [GroupId -> Group]

Init ==
    /\ groups = NoGroups
    /\ disk = NoGroups
    /\ now = 0
    /\ prior = NoGroups

-----------------------------------------------------------------------------
(* save() and the clock. *)

Save(outcome, gs) ==
    disk' = CASE outcome = "ok"     -> gs
              [] outcome = "failed" -> disk
              [] outcome = "torn"   -> Torn

\* time.Now() read n times.
Tick(n) == now + n <= MaxTime /\ now' = now + n

\* The common tail of a mutating method: install the map, save it, keep the
\* in-memory change even when save() returns an error.
Install(gs, outcome) ==
    /\ groups' = gs
    /\ Save(outcome, gs)

-----------------------------------------------------------------------------
(* The methods of Store. *)

\* Mutant: a tree written to a dead id revives it.
SetTree_Revives(id, tree, outcome) ==
    /\ Tick(1)
    /\ Install(Enforce([groups EXCEPT ![id].tree = tree, ![id].treeAt = now',
                                      ![id].deletedAt = 0], now', id), outcome)
    /\ UNCHANGED prior

\* A tombstoned id is refused: ErrTombstoned.
SetTree(id, tree, outcome) ==
    /\ groups[id].deletedAt = 0
    /\ Tick(1)
    /\ Install(Enforce([groups EXCEPT ![id].tree = tree, ![id].treeAt = now'],
                       now', id), outcome)
    /\ UNCHANGED prior

\* An unknown id is refused: ErrUnknownGroup.  The clock is read once for the
\* name and once for the mode.
SetName(id, name, mode, outcome) ==
    /\ Known(groups[id])
    /\ Tick(2)
    /\ Install([groups EXCEPT ![id].name = name, ![id].nameAt = now + 1,
                              ![id].nameMode = mode, ![id].nameModeAt = now + 2],
               outcome)
    /\ UNCHANGED prior

SetRank(id, rank, outcome) ==
    /\ Known(groups[id])
    /\ Tick(1)
    /\ Install([groups EXCEPT ![id].rank = rank, ![id].rankAt = now'], outcome)
    /\ UNCHANGED prior

\* Mutant: the record is dropped instead of tombstoned.
Delete_Drops(id, outcome) ==
    /\ Tick(1)
    /\ Install([other \in GroupId \ {id} |-> groups[other]], outcome)
    /\ UNCHANGED prior

\* Delete does not look the id up: an unknown id becomes a bare tombstone.
Delete(id, outcome) ==
    /\ Tick(1)
    /\ Install([groups EXCEPT ![id].deletedAt = now'], outcome)
    /\ UNCHANGED prior

ApplyRemote(id, in, outcome) ==
    /\ Accepts(groups[id], in)
    /\ Tick(1)
    /\ Install(AppliedDelta(groups, id, in, now'), outcome)
    /\ UNCHANGED prior

ApplySnapshot(snap, outcome) ==
    /\ \E id \in GroupId : Accepts(groups[id], snap[id])
    /\ Tick(1)
    /\ Install(AppliedSnapshot(groups, snap, now'), outcome)
    /\ UNCHANGED prior

\* The session rename hook.  The clock is read for the rewritten trees and
\* again for the enforcement.
MigrateKey(old, new, outcome) ==
    /\ old # new
    /\ \E id \in GroupId : old \in groups[id].tree
    /\ Tick(2)
    /\ Install(Migrated(groups, old, new, now + 1, now + 2), outcome)
    /\ UNCHANGED prior

\* GET /groups.  gone is the set of keys that pruneGroupSessions proves dead.
Reconcile(gone, outcome) ==
    /\ Tick(1)
    /\ LET healed == PrunedAll(groups, gone, now')
       IN  healed # groups /\ Install(healed, outcome)
    /\ UNCHANGED prior

-----------------------------------------------------------------------------
(* POST /session-attrs with background=true, in two critical sections. *)

NoRequest == prior = NoGroups

\* RemoveSessionKey succeeded: the request goes on holding the old records.
BackgroundPrune(key) ==
    /\ NoRequest
    /\ Tick(1)
    /\ LET pruned == PrunedAll(groups, {key}, now')
       IN  /\ pruned # groups
           /\ Install(pruned, "ok")
           /\ prior' = [id \in GroupId |-> IF id \in Changed(groups, pruned)
                                           THEN groups[id] ELSE ZeroGroup]

\* RemoveSessionKey could not save: it restores the map and the request fails.
BackgroundPruneFails(key, outcome) ==
    /\ NoRequest
    /\ outcome # "ok"
    /\ Tick(1)
    /\ PrunedAll(groups, {key}, now') # groups
    /\ Save(outcome, groups)
    /\ UNCHANGED <<groups, prior>>

\* AttrsStore.Set succeeded: the request is done with the group store.
BackgroundDone ==
    /\ ~ NoRequest
    /\ prior' = NoGroups
    /\ UNCHANGED <<groups, disk, now>>

\* AttrsStore.Set failed: Restore writes every prior record back, whatever
\* has happened to it since.
BackgroundRollback(outcome) ==
    /\ AttrsCanFail
    /\ ~ NoRequest
    /\ Install([id \in GroupId |-> IF Known(prior[id]) THEN prior[id] ELSE groups[id]],
               outcome)
    /\ prior' = NoGroups
    /\ UNCHANGED now

\* The server stops, at any point, and NewStore reads the file again.
Restart ==
    /\ groups' = disk
    /\ prior' = NoGroups
    /\ UNCHANGED <<disk, now>>

-----------------------------------------------------------------------------
\* A snapshot a peer may send: some of the ids, each with a record.
Snapshots == [GroupId -> RemoteGroup \cup {ZeroGroup}]

StoreStep(outcome) ==
    \/ \E id \in GroupId :
         \/ \E tree \in SUBSET Key : SetTree(id, tree, outcome)
         \/ \E name \in Name, mode \in NameMode \ {""} : SetName(id, name, mode, outcome)
         \/ \E rank \in Rank : SetRank(id, rank, outcome)
         \/ Delete(id, outcome)
         \/ \E in \in RemoteGroup : ApplyRemote(id, in, outcome)
    \/ \E snap \in Snapshots : ApplySnapshot(snap, outcome)
    \/ \E old, new \in Key : MigrateKey(old, new, outcome)
    \/ \E gone \in SUBSET Key : Reconcile(gone, outcome)

BackgroundStep(outcome) ==
    \/ \E key \in Key : BackgroundPruneFails(key, outcome)
    \/ BackgroundRollback(outcome)

Next ==
    \/ \E outcome \in SaveOutcomes : StoreStep(outcome) \/ BackgroundStep(outcome)
    \/ "ok" \in SaveOutcomes /\ \E key \in Key : BackgroundPrune(key)
    \/ BackgroundDone
    \/ Restart

Spec == Init /\ [][Next]_vars
-----------------------------------------------------------------------------
(* Properties. *)

\* Membership is exclusive in memory and in the file, so a restart cannot
\* bring a duplicate back.
Exclusive == ExclusiveIn(groups) /\ ExclusiveIn(disk)

\* No live group has fewer than two sessions: whatever path shrank it also
\* dissolved it.  In memory and in the file.
NoDegenerateGroup ==
    \A id \in GroupId :
        /\ Live(groups[id]) => AtLeastTwo(groups[id].tree)
        /\ Live(disk[id]) => AtLeastTwo(disk[id].tree)

\* A tombstone that reached the file stays: no sequence of edits, remote
\* records, failed saves and restarts revives the group in the file or in
\* memory.
TombstonesDurable ==
    [][\A id \in GroupId : disk[id].deletedAt > 0 =>
          disk'[id].deletedAt > 0 /\ groups'[id].deletedAt > 0]_vars

\* The edit a user just made is not undone by the enforcement it triggers: a
\* tree of two sessions or more is stored as sent and the group lives, and a
\* group that is not the target loses only sessions that the edit took.
LocalEditWins ==
    [][\A id \in GroupId : groups'[id].treeAt = now' /\ now' # now =>
        \A tree \in SUBSET Key, outcome \in SaveOutcomes :
          SetTree(id, tree, outcome) =>
            /\ AtLeastTwo(tree) => Live(groups'[id]) /\ groups'[id].tree = tree
            /\ \A other \in GroupId \ {id} : Live(groups'[other]) =>
                 groups[other].tree \ groups'[other].tree \subseteq tree]_vars

\* A renamed session stays in its group: the group that held the old key is
\* live and holds the new one, unless renaming merged two of its last leaves.
\* Another group may keep the new key only if its tree is stamped in this
\* server's future (a peer with a fast clock), or if a rollback had put the
\* session in both.
RenameFollowsSession ==
    [][\A id \in GroupId : \A old \in groups[id].tree, new \in Key, outcome \in SaveOutcomes :
          /\ Live(groups[id])
          /\ \A other \in GroupId \ {id} : Live(groups[other]) => old \notin groups[other].tree
          /\ AtLeastTwo((groups[id].tree \ {old}) \cup {new})
          /\ \A other \in GroupId : groups[other].treeAt <= now
          /\ MigrateKey(old, new, outcome)
          => Live(groups'[id]) /\ new \in groups'[id].tree /\ old \notin groups'[id].tree]_vars

\* However a duplicate came about (a rollback is the one way), the next write
\* of any tree removes it: a method that reads the clock and advances the
\* stamp of a tree leaves membership exclusive.
NextWriteHeals ==
    [][now' > now /\ (\E id \in GroupId : groups'[id].treeAt > groups[id].treeAt)
          => ExclusiveIn(groups')]_vars

\* Whatever snapshot arrives, merging it strands no session: enforce releases
\* the keys of a group that it dissolves on the way.
SnapshotStrandsNothing ==
    \A snap \in Snapshots :
        StrandsNothing([id \in GroupId |-> Merge(groups[id], snap[id])],
                       AppliedSnapshot(groups, snap, now + 1))
=============================================================================
