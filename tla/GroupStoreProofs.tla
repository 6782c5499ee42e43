------------------------ MODULE GroupStoreProofs ------------------------
(***************************************************************************)
(* Proofs about GroupStore, for every finite set of group ids, every set   *)
(* of keys and every set of remote records.                                *)
(***************************************************************************)
EXTENDS GroupStore, GroupRecordsProofs

-----------------------------------------------------------------------------
(* The invariants. *)

\* The inductive invariant: typed maps that enforcement has made sound, in
\* memory, in the file and in the request that may put records back.
StoreInv == TypeOK /\ Sound(groups) /\ Sound(disk) /\ Sound(prior)

\* One step of any method but Restore installs a map that keeps order.
LEMMA StoreStepFacts ==
  ASSUME StoreInv, NEW outcome \in SaveOutcomes, StoreStep(outcome)
  PROVE  /\ KeepsOrder(groups, groups')
         /\ Save(outcome, groups')
         /\ now' \in Nat
         /\ UNCHANGED prior
<1>0. SoundMap(groups) /\ now \in Nat
  BY DEF StoreInv, TypeOK, SoundMap
<1>1. \A n \in {1, 2} : Tick(n) => now' \in Nat \ {0} /\ now' = now + n
  BY <1>0 DEF Tick
<1>2. now + 1 \in Nat \ {0} /\ now + 2 \in Nat \ {0}
  BY <1>0
<1>3. ASSUME NEW id \in GroupId, NEW tree \in SUBSET Key, SetTree(id, tree, outcome)
      PROVE  KeepsOrder(groups, groups') /\ Save(outcome, groups') /\ now' \in Nat /\ UNCHANGED prior
  BY <1>0, <1>1, <1>3, SetTreeOrders DEF Orders, SetTree, Install
<1>4. ASSUME NEW id \in GroupId, NEW n \in Name, NEW md \in NameMode \ {""},
             SetName(id, n, md, outcome)
      PROVE  KeepsOrder(groups, groups') /\ Save(outcome, groups') /\ now' \in Nat /\ UNCHANGED prior
  BY <1>0, <1>1, <1>2, <1>4, SetNameKeepsOrder DEF SetName, Install
<1>5. ASSUME NEW id \in GroupId, NEW rk \in Rank, SetRank(id, rk, outcome)
      PROVE  KeepsOrder(groups, groups') /\ Save(outcome, groups') /\ now' \in Nat /\ UNCHANGED prior
  BY <1>0, <1>1, <1>5, SetRankKeepsOrder DEF SetRank, Install
<1>6. ASSUME NEW id \in GroupId, Delete(id, outcome)
      PROVE  KeepsOrder(groups, groups') /\ Save(outcome, groups') /\ now' \in Nat /\ UNCHANGED prior
  BY <1>0, <1>1, <1>6, DeleteKeepsOrder DEF Delete, Install
<1>7. ASSUME NEW id \in GroupId, NEW in \in RemoteGroup, ApplyRemote(id, in, outcome)
      PROVE  KeepsOrder(groups, groups') /\ Save(outcome, groups') /\ now' \in Nat /\ UNCHANGED prior
  <2>1. in \in Group /\ WellFormed(in)
    BY StoreAssumption
  <2>. QED  BY <1>0, <1>1, <1>7, <2>1, ApplyRemoteOrders DEF Orders, ApplyRemote, Install
<1>8. ASSUME NEW snap \in Snapshots, ApplySnapshot(snap, outcome)
      PROVE  KeepsOrder(groups, groups') /\ Save(outcome, groups') /\ now' \in Nat /\ UNCHANGED prior
  <2>1. ZeroGroup \in Group /\ WellFormed(ZeroGroup)
    BY RecordAssumption DEF ZeroGroup, Group, WellFormed, HasTree, Known, NameMode
  <2>2. Enforceable(snap)
    BY <2>1, StoreAssumption DEF Snapshots, Enforceable
  <2>. QED  BY <1>0, <1>1, <1>8, <2>2, ApplySnapshotOrders DEF Orders, ApplySnapshot, Install
<1>9. ASSUME NEW old \in Key, NEW new \in Key, MigrateKey(old, new, outcome)
      PROVE  KeepsOrder(groups, groups') /\ Save(outcome, groups') /\ now' \in Nat /\ UNCHANGED prior
  BY <1>0, <1>1, <1>2, <1>9, MigrateOrders DEF Orders, MigrateKey, Install
<1>10. ASSUME NEW gone \in SUBSET Key, Reconcile(gone, outcome)
       PROVE  KeepsOrder(groups, groups') /\ Save(outcome, groups') /\ now' \in Nat /\ UNCHANGED prior
  BY <1>0, <1>1, <1>10, PruneOrders DEF Orders, Reconcile, Install
<1>. QED  BY <1>3, <1>4, <1>5, <1>6, <1>7, <1>8, <1>9, <1>10 DEF StoreStep

\* save() leaves in the file the new map, the old contents or nothing.
LEMMA SaveFacts ==
  ASSUME NEW outcome \in SaveOutcomes, NEW gs, Save(outcome, gs)
  PROVE  /\ disk' \in {gs, disk, NoGroups}
         /\ outcome # "torn" => disk' \in {gs, disk}
         /\ outcome = "ok" => disk' = gs
<1>1. outcome \in SaveOutcome
  BY StoreAssumption
<1>. QED  BY <1>1 DEF Save, Torn, SaveOutcome

\* The pruning half of a background request: the map keeps order and what the
\* request remembers are records of the map it found.
LEMMA BackgroundPruneFacts ==
  ASSUME StoreInv, NEW key \in Key, BackgroundPrune(key)
  PROVE  /\ KeepsOrder(groups, groups')
         /\ disk' = groups'
         /\ now' \in Nat
         /\ SoundMap(prior')
<1>1. SoundMap(groups) /\ now \in Nat
  BY DEF StoreInv, TypeOK, SoundMap
<1>2. now' \in Nat \ {0}
  BY <1>1 DEF BackgroundPrune, Tick
<1>3. groups' = PrunedAll(groups, {key}, now') /\ disk' = groups'
  BY DEF BackgroundPrune, Install, Save
<1>4. KeepsOrder(groups, groups')
  BY <1>1, <1>2, <1>3, PruneOrders DEF Orders
<1>5. prior' = [id \in GroupId |-> prior'[id]] /\ \A id \in GroupId : prior'[id] \in {groups[id], ZeroGroup}
  BY DEF BackgroundPrune
<1>6. ZeroGroup \in Group /\ WellFormed(ZeroGroup) /\ ~ Live(ZeroGroup)
  BY RecordAssumption DEF ZeroGroup, Group, WellFormed, HasTree, Known, Live, NameMode
<1>7. \A id \in GroupId : /\ groups[id] \in Group /\ WellFormed(groups[id])
                          /\ Live(groups[id]) => AtLeastTwo(groups[id].tree)
  BY <1>1 DEF SoundMap, Sound
<1>8. \A id \in GroupId : /\ prior'[id] \in Group /\ WellFormed(prior'[id])
                          /\ Live(prior'[id]) => AtLeastTwo(prior'[id].tree)
  BY <1>5, <1>6, <1>7
<1>9. SoundMap(prior')
  BY <1>5, <1>8 DEF SoundMap, Sound
<1>. QED  BY <1>2, <1>3, <1>4, <1>9

\* Every step keeps the maps sound, the unguarded Restore included: it writes
\* whole records of a sound map back.
LEMMA StoreInvStep ==
  ASSUME StoreInv, [Next]_vars
  PROVE  StoreInv'
<1>. USE NoGroupsFacts
<1>0. /\ SoundMap(groups) /\ SoundMap(disk) /\ SoundMap(prior) /\ now \in Nat
  BY DEF StoreInv, TypeOK, SoundMap
<1>. SUFFICES SoundMap(groups') /\ SoundMap(disk') /\ SoundMap(prior') /\ now' \in Nat
  BY DEF StoreInv, TypeOK, SoundMap
<1>1. ASSUME NEW outcome \in SaveOutcomes, StoreStep(outcome)
      PROVE  SoundMap(groups') /\ SoundMap(disk') /\ SoundMap(prior') /\ now' \in Nat
  <2>1. KeepsOrder(groups, groups') /\ Save(outcome, groups') /\ now' \in Nat /\ prior' = prior
    BY <1>1, StoreStepFacts
  <2>2. SoundMap(groups')
    BY <2>1 DEF KeepsOrder, SoundMap
  <2>. QED  BY <1>0, <2>1, <2>2, SaveFacts
<1>2. ASSUME NEW outcome \in SaveOutcomes, NEW key \in Key, BackgroundPruneFails(key, outcome)
      PROVE  SoundMap(groups') /\ SoundMap(disk') /\ SoundMap(prior') /\ now' \in Nat
  <2>1. Save(outcome, groups) /\ groups' = groups /\ prior' = prior /\ now' \in Nat
    BY <1>0, <1>2 DEF BackgroundPruneFails, Tick
  <2>. QED  BY <1>0, <2>1, SaveFacts
<1>3. ASSUME NEW outcome \in SaveOutcomes, BackgroundRollback(outcome)
      PROVE  SoundMap(groups') /\ SoundMap(disk') /\ SoundMap(prior') /\ now' \in Nat
  <2>1. /\ groups' = [id \in GroupId |-> IF Known(prior[id]) THEN prior[id] ELSE groups[id]]
        /\ Save(outcome, groups') /\ prior' = NoGroups /\ now' = now
    BY <1>3 DEF BackgroundRollback, Install
  <2>2. SoundMap(groups')
    BY <1>0, <2>1 DEF SoundMap, Sound
  <2>. QED  BY <1>0, <2>1, <2>2, SaveFacts
<1>4. ASSUME NEW key \in Key, BackgroundPrune(key)
      PROVE  SoundMap(groups') /\ SoundMap(disk') /\ SoundMap(prior') /\ now' \in Nat
  <2>1. KeepsOrder(groups, groups') /\ disk' = groups' /\ now' \in Nat /\ SoundMap(prior')
    BY <1>4, BackgroundPruneFacts
  <2>. QED  BY <2>1 DEF KeepsOrder, SoundMap
<1>5. CASE BackgroundDone
  BY <1>0, <1>5 DEF BackgroundDone
<1>6. CASE Restart
  BY <1>0, <1>6 DEF Restart
<1>7. CASE UNCHANGED vars
  BY <1>0, <1>7 DEF vars
<1>. QED  BY <1>1, <1>2, <1>3, <1>4, <1>5, <1>6, <1>7 DEF Next, BackgroundStep

LEMMA StoreInvInit ==
  ASSUME Init
  PROVE  StoreInv
BY NoGroupsFacts DEF Init, StoreInv, TypeOK, SoundMap

\* The inductive invariant holds on every behaviour: any save() outcomes, any
\* remote records, attribute writes that fail or not.
THEOREM StoreSound == Spec => []StoreInv
<1>1. Init => StoreInv
  BY StoreInvInit
<1>2. StoreInv /\ [Next]_vars => StoreInv'
  BY StoreInvStep
<1>. QED  BY <1>1, <1>2, PTL DEF Spec

\* Every record of the map, of groups.json and of a request in flight has its
\* type.
THEOREM TypeCorrect == Spec => []TypeOK
<1>1. StoreInv => TypeOK
  BY DEF StoreInv
<1>. QED  BY <1>1, StoreSound, PTL

\* No live group, in memory or in groups.json, ever has fewer than two
\* sessions: every path that shrinks a tree dissolves what is left, and this
\* survives failed saves, torn files, restarts and the rollback of Restore.
THEOREM NoneDegenerate == Spec => []NoDegenerateGroup
<1>1. StoreInv => NoDegenerateGroup
  BY DEF StoreInv, Sound, NoDegenerateGroup
<1>. QED  BY <1>1, StoreSound, PTL

\* A snapshot from a peer strands no session, for any number of groups: a
\* group gives up exactly the keys that other live groups own after the merge,
\* and it is dissolved only if that leaves it fewer than two.  This is the
\* release of a dissolved group's keys in enforce.
THEOREM SnapshotsStrandNothing == Spec => []SnapshotStrandsNothing
<1>1. StoreInv => SnapshotStrandsNothing
  <2>. SUFFICES ASSUME StoreInv, NEW snap \in Snapshots
                PROVE  StrandsNothing([id \in GroupId |-> Merge(groups[id], snap[id])],
                                      AppliedSnapshot(groups, snap, now + 1))
    BY DEF SnapshotStrandsNothing
  <2>. DEFINE merged == [id \in GroupId |-> Merge(groups[id], snap[id])]
  <2>1. now + 1 \in Nat \ {0}
    BY DEF StoreInv, TypeOK
  <2>2. \A id \in GroupId : groups[id] \in Group /\ WellFormed(groups[id])
    BY DEF StoreInv, TypeOK, Sound
  <2>3. \A id \in GroupId : snap[id] \in Group /\ WellFormed(snap[id])
    BY StoreAssumption, NoGroupsFacts DEF Snapshots, Enforceable, SoundMap, Sound, NoGroups
  <2>4. \A id \in GroupId : merged[id] \in Group /\ WellFormed(merged[id])
    BY <2>2, <2>3, MergeFacts
  <2>5. Enforceable(merged)
    BY <2>4 DEF Enforceable
  <2>. QED  BY <2>1, <2>5, EnforceStrandsNothing DEF AppliedSnapshot
<1>. QED  BY <1>1, StoreSound, PTL

-----------------------------------------------------------------------------
(* What the rollback of Restore and a torn file can break. *)

\* Membership is exclusive in memory and in groups.json as long as no
\* attribute write fails: Restore is the only method that can duplicate a
\* session.
THEOREM Exclusivity == ~ AttrsCanFail => (Spec => []Exclusive)
<1>. SUFFICES ASSUME ~ AttrsCanFail  PROVE Spec => []Exclusive
  OBVIOUS
<1>1. Init => Exclusive
  BY NoGroupsFacts DEF Init, Exclusive
<1>2. StoreInv /\ Exclusive /\ [Next]_vars => Exclusive'
  <2>. SUFFICES ASSUME StoreInv, Exclusive, [Next]_vars
                PROVE  ExclusiveIn(groups') /\ ExclusiveIn(disk')
    BY DEF Exclusive, ExclusiveIn
  <2>. USE NoGroupsFacts
  <2>0. ExclusiveIn(groups) /\ ExclusiveIn(disk)
    BY DEF Exclusive
  <2>1. ASSUME NEW outcome \in SaveOutcomes, StoreStep(outcome)
        PROVE  ExclusiveIn(groups') /\ ExclusiveIn(disk')
    <3>1. KeepsOrder(groups, groups') /\ Save(outcome, groups')
      BY <2>1, StoreStepFacts
    <3>2. ExclusiveIn(groups')
      BY <2>0, <3>1 DEF KeepsOrder
    <3>. QED  BY <2>0, <3>1, <3>2, SaveFacts
  <2>2. ASSUME NEW outcome \in SaveOutcomes, NEW key \in Key, BackgroundPruneFails(key, outcome)
        PROVE  ExclusiveIn(groups') /\ ExclusiveIn(disk')
    <3>1. Save(outcome, groups) /\ groups' = groups
      BY <2>2 DEF BackgroundPruneFails
    <3>. QED  BY <2>0, <3>1, SaveFacts
  <2>3. ASSUME NEW key \in Key, BackgroundPrune(key)
        PROVE  ExclusiveIn(groups') /\ ExclusiveIn(disk')
    <3>1. KeepsOrder(groups, groups') /\ disk' = groups'
      BY <2>3, BackgroundPruneFacts
    <3>. QED  BY <2>0, <3>1 DEF KeepsOrder
  <2>4. CASE BackgroundDone
    BY <2>0, <2>4 DEF BackgroundDone
  <2>5. CASE Restart
    BY <2>0, <2>5 DEF Restart
  <2>6. CASE UNCHANGED vars
    BY <2>0, <2>6 DEF vars
  <2>7. \A outcome : ~ BackgroundRollback(outcome)
    BY DEF BackgroundRollback
  <2>. QED  BY <2>1, <2>2, <2>3, <2>4, <2>5, <2>6, <2>7 DEF Next, BackgroundStep
<1>. QED  BY <1>1, <1>2, StoreSound, PTL DEF Spec

\* A tombstone that reached groups.json is never lost, in the file or in
\* memory, as long as no attribute write fails and no write of the file is
\* cut short.  The invariant behind it: memory is never behind the file.
THEOREM Durability ==
  ~ AttrsCanFail /\ "torn" \notin SaveOutcomes => (Spec => TombstonesDurable)
<1>. SUFFICES ASSUME ~ AttrsCanFail, "torn" \notin SaveOutcomes
              PROVE  Spec => TombstonesDurable
  OBVIOUS
<1>. DEFINE Ahead == DeadStay(disk, groups)
            Durable == \A id \in GroupId : disk[id].deletedAt > 0 =>
                          disk'[id].deletedAt > 0 /\ groups'[id].deletedAt > 0
<1>1. Init => Ahead
  BY DEF Init, DeadStay
<1>2. StoreInv /\ Ahead /\ [Next]_vars => Ahead' /\ Durable
  <2>. SUFFICES ASSUME StoreInv, DeadStay(disk, groups), [Next]_vars
                PROVE  DeadStay(disk', groups') /\ DeadStay(disk, disk') /\ DeadStay(disk, groups')
    BY DEF DeadStay
  <2>1. \A a, b, c : DeadStay(a, b) /\ DeadStay(b, c) => DeadStay(a, c)
    BY DEF DeadStay
  <2>2. \A a : DeadStay(a, a)
    BY DEF DeadStay
  <2>3. ASSUME NEW outcome \in SaveOutcomes, StoreStep(outcome)
        PROVE  DeadStay(disk', groups') /\ DeadStay(disk, disk') /\ DeadStay(disk, groups')
    <3>1. DeadStay(groups, groups') /\ Save(outcome, groups')
      BY <2>3, StoreStepFacts DEF KeepsOrder
    <3>2. DeadStay(disk, groups')
      BY <2>1, <3>1
    <3>3. disk' \in {groups', disk}
      BY <3>1, SaveFacts
    <3>. QED  BY <2>2, <3>2, <3>3
  <2>4. ASSUME NEW outcome \in SaveOutcomes, NEW key \in Key, BackgroundPruneFails(key, outcome)
        PROVE  DeadStay(disk', groups') /\ DeadStay(disk, disk') /\ DeadStay(disk, groups')
    <3>1. Save(outcome, groups) /\ groups' = groups
      BY <2>4 DEF BackgroundPruneFails
    <3>2. disk' \in {groups, disk}
      BY <3>1, SaveFacts
    <3>. QED  BY <2>2, <3>1, <3>2
  <2>5. ASSUME NEW key \in Key, BackgroundPrune(key)
        PROVE  DeadStay(disk', groups') /\ DeadStay(disk, disk') /\ DeadStay(disk, groups')
    <3>1. DeadStay(groups, groups') /\ disk' = groups'
      BY <2>5, BackgroundPruneFacts DEF KeepsOrder
    <3>. QED  BY <2>1, <2>2, <3>1
  <2>6. CASE BackgroundDone
    BY <2>2, <2>6 DEF BackgroundDone
  <2>7. CASE Restart
    BY <2>2, <2>7 DEF Restart
  <2>8. CASE UNCHANGED vars
    BY <2>2, <2>8 DEF vars
  <2>9. \A outcome : ~ BackgroundRollback(outcome)
    BY DEF BackgroundRollback
  <2>. QED  BY <2>3, <2>4, <2>5, <2>6, <2>7, <2>8, <2>9 DEF Next, BackgroundStep
<1>. QED  BY <1>1, <1>2, StoreSound, PTL DEF Spec, TombstonesDurable

-----------------------------------------------------------------------------
(* What a single method does, from any state that can be reached. *)

\* A method that stamps a tree ends in enforce.
LEMMA TreeWritesEnforce ==
  ASSUME StoreInv, NEW outcome \in SaveOutcomes, StoreStep(outcome)
  PROVE  ExclusiveIn(groups') \/ \A id \in GroupId : groups'[id].treeAt = groups[id].treeAt
<1>0. SoundMap(groups) /\ groups \in [GroupId -> Group] /\ now \in Nat
  BY DEF StoreInv, TypeOK, SoundMap
<1>1. \A n \in {1, 2} : Tick(n) => now' \in Nat \ {0} /\ now' = now + n
  BY <1>0 DEF Tick
<1>2. now + 1 \in Nat \ {0} /\ now + 2 \in Nat \ {0}
  BY <1>0
<1>3. ASSUME NEW id \in GroupId, NEW tree \in SUBSET Key, SetTree(id, tree, outcome)
      PROVE  ExclusiveIn(groups')
  BY <1>0, <1>1, <1>3, SetTreeOrders DEF SetTree, Install, Orders
<1>4. ASSUME NEW id \in GroupId, NEW n \in Name, NEW md \in NameMode \ {""},
             SetName(id, n, md, outcome)
      PROVE  \A k \in GroupId : groups'[k].treeAt = groups[k].treeAt
  BY <1>0, <1>4 DEF SetName, Install, Group
<1>5. ASSUME NEW id \in GroupId, NEW rk \in Rank, SetRank(id, rk, outcome)
      PROVE  \A k \in GroupId : groups'[k].treeAt = groups[k].treeAt
  BY <1>0, <1>5 DEF SetRank, Install, Group
<1>6. ASSUME NEW id \in GroupId, Delete(id, outcome)
      PROVE  \A k \in GroupId : groups'[k].treeAt = groups[k].treeAt
  BY <1>0, <1>6 DEF Delete, Install, Group
<1>7. ASSUME NEW id \in GroupId, NEW in \in RemoteGroup, ApplyRemote(id, in, outcome)
      PROVE  ExclusiveIn(groups')
  <2>1. in \in Group /\ WellFormed(in)
    BY StoreAssumption
  <2>. QED  BY <1>0, <1>1, <1>7, <2>1, ApplyRemoteOrders DEF ApplyRemote, Install, Orders
<1>8. ASSUME NEW snap \in Snapshots, ApplySnapshot(snap, outcome)
      PROVE  ExclusiveIn(groups')
  <2>1. ZeroGroup \in Group /\ WellFormed(ZeroGroup)
    BY RecordAssumption DEF ZeroGroup, Group, WellFormed, HasTree, Known, NameMode
  <2>2. Enforceable(snap)
    BY <2>1, StoreAssumption DEF Snapshots, Enforceable
  <2>. QED  BY <1>0, <1>1, <1>8, <2>2, ApplySnapshotOrders DEF ApplySnapshot, Install, Orders
<1>9. ASSUME NEW old \in Key, NEW new \in Key, MigrateKey(old, new, outcome)
      PROVE  ExclusiveIn(groups')
  BY <1>0, <1>1, <1>2, <1>9, MigrateOrders DEF MigrateKey, Install, Orders
<1>10. ASSUME NEW gone \in SUBSET Key, Reconcile(gone, outcome)
       PROVE  ExclusiveIn(groups')
  BY <1>0, <1>1, <1>10, PruneOrders DEF Reconcile, Install, Orders
<1>. QED  BY <1>3, <1>4, <1>5, <1>6, <1>7, <1>8, <1>9, <1>10 DEF StoreStep

\* A session that a rollback has put in two groups is in one again after the
\* next write of any tree, also when attribute writes fail and files tear.
THEOREM WritesHeal == Spec => NextWriteHeals
<1>. DEFINE Heals == now' > now /\ (\E id \in GroupId : groups'[id].treeAt > groups[id].treeAt)
                        => ExclusiveIn(groups')
<1>1. StoreInv /\ [Next]_vars => [Heals]_vars
  <2>. SUFFICES ASSUME StoreInv, Next, now' > now,
                       NEW id \in GroupId, groups'[id].treeAt > groups[id].treeAt
                PROVE  ExclusiveIn(groups')
    OBVIOUS
  <2>0. now \in Nat /\ groups[id].treeAt \in Nat
    BY DEF StoreInv, TypeOK, Group
  <2>1. ASSUME NEW outcome \in SaveOutcomes, StoreStep(outcome)
        PROVE  ExclusiveIn(groups')
    BY <2>0, <2>1, TreeWritesEnforce
  <2>2. ASSUME NEW outcome \in SaveOutcomes, NEW key \in Key, BackgroundPruneFails(key, outcome)
        PROVE  ExclusiveIn(groups')
    BY <2>0, <2>2 DEF BackgroundPruneFails
  <2>3. ASSUME NEW outcome \in SaveOutcomes, BackgroundRollback(outcome)
        PROVE  ExclusiveIn(groups')
    BY <2>0, <2>3 DEF BackgroundRollback
  <2>4. ASSUME NEW key \in Key, BackgroundPrune(key)
        PROVE  ExclusiveIn(groups')
    <3>1. SoundMap(groups) /\ now' \in Nat \ {0} /\ groups' = PrunedAll(groups, {key}, now')
      BY <2>4 DEF StoreInv, TypeOK, SoundMap, BackgroundPrune, Install, Tick
    <3>. QED  BY <3>1, PruneOrders DEF Orders
  <2>5. ~ BackgroundDone /\ ~ Restart
    BY <2>0 DEF BackgroundDone, Restart
  <2>. QED  BY <2>1, <2>2, <2>3, <2>4, <2>5 DEF Next, BackgroundStep
<1>. QED  BY <1>1, StoreSound, PTL DEF Spec, NextWriteHeals

\* The map SetTree hands to enforce.
Written(gs, id, tree, t) == [gs EXCEPT ![id].tree = tree, ![id].treeAt = t]

LEMMA WrittenFacts ==
  ASSUME NEW gs, SoundMap(gs), NEW id \in GroupId, NEW tree \in SUBSET Key, NEW t \in Nat \ {0}
  PROVE  LET mid == Written(gs, id, tree, t)
         IN  /\ Enforceable(mid)
             /\ mid[id] \in Group /\ mid[id].tree = tree /\ mid[id].treeAt = t
             /\ mid[id].deletedAt = gs[id].deletedAt
             /\ \A k \in GroupId \ {id} : mid[k] = gs[k]
<1>. DEFINE mid == Written(gs, id, tree, t)
            r == [gs[id] EXCEPT !.tree = tree, !.treeAt = t]
<1>1. gs \in [GroupId -> Group] /\ \A k \in GroupId : gs[k] \in Group /\ WellFormed(gs[k])
  BY DEF SoundMap, Sound
<1>2. r \in Group /\ WellFormed(r) /\ r.deletedAt = gs[id].deletedAt
  BY <1>1, TreeWriteFacts
<1>3. r.tree = tree /\ r.treeAt = t
  BY <1>1 DEF Group
<1>4. mid = [gs EXCEPT ![id] = r]
  BY <1>1 DEF Written
<1>. HIDE DEF r, mid
<1>5. mid[id] = r /\ \A k \in GroupId \ {id} : mid[k] = gs[k]
  BY <1>1, <1>4
<1>6. Enforceable(mid)
  BY <1>1, <1>2, <1>4 DEF Enforceable
<1>. QED  BY <1>2, <1>3, <1>5, <1>6 DEF mid

\* The enforcement that a local edit triggers does not undo the edit, and takes
\* nothing from other groups but what the edit took, as long as no attribute
\* write fails: it needs exclusive membership before the edit.
THEOREM EditsWin == ~ AttrsCanFail => (Spec => LocalEditWins)
<1>. SUFFICES ASSUME ~ AttrsCanFail  PROVE Spec => LocalEditWins
  OBVIOUS
<1>1. ASSUME StoreInv, Exclusive, NEW id \in GroupId, NEW tree \in SUBSET Key,
             NEW outcome \in SaveOutcomes, SetTree(id, tree, outcome)
      PROVE  /\ AtLeastTwo(tree) => Live(groups'[id]) /\ groups'[id].tree = tree
             /\ \A other \in GroupId \ {id} : Live(groups'[other]) =>
                  groups[other].tree \ groups'[other].tree \subseteq tree
  <2>. DEFINE mid == Written(groups, id, tree, now')
  <2>1. SoundMap(groups) /\ now' \in Nat \ {0} /\ groups[id].deletedAt = 0
    BY <1>1 DEF StoreInv, TypeOK, SoundMap, SetTree, Tick
  <2>2. groups' = Enforce(mid, now', id)
    BY <1>1 DEF SetTree, Install, Written
  <2>3. /\ Enforceable(mid)
        /\ mid[id] \in Group /\ mid[id].tree = tree /\ mid[id].treeAt = now'
        /\ mid[id].deletedAt = 0
        /\ \A k \in GroupId \ {id} : mid[k] = groups[k]
    BY <2>1, WrittenFacts
  <2>. HIDE DEF mid
  <2>4. mid \in [GroupId -> Group] /\ id \in Contenders(mid)
    <3>1. mid[id].treeAt > 0 /\ WellFormed(mid[id])
      BY <2>1, <2>3, StampedWellFormed
    <3>. QED  BY <2>3, <3>1, LiveMeans DEF Contenders, HasTree, Enforceable
  <2>5. \A k \in GroupId : ~ Before(mid, id, k, id)
    BY <2>4, RecordAssumption DEF Before, Group
  <2>6. AtLeastTwo(tree) => Live(groups'[id]) /\ groups'[id].tree = tree
    <3>1. \A k \in Contenders(mid) : ~ Before(mid, id, k, id)
      BY <2>5 DEF Contenders
    <3>. QED  BY <2>1, <2>2, <2>3, <2>4, <3>1, FirstSurvives
  <2>7. ASSUME NEW other \in GroupId \ {id}, Live(groups'[other]),
               NEW x \in groups[other].tree \ groups'[other].tree
        PROVE  x \in tree
    <3>. DEFINE kept == Kept(mid, id)
    <3>1. other \in Contenders(mid) /\ groups'[other].tree = kept[other]
      BY <2>1, <2>2, <2>3, <2>7, EnforceRecord
    <3>2. kept[other] = KeepStep(mid, id, kept, other)
      BY <2>4, KeptUnfold
    <3>3. \A k \in GroupId : kept[k] \subseteq mid[k].tree
      BY <2>4, KeptShrinks
    <3>4. mid[other] = groups[other] /\ Live(groups[other])
      BY <2>3, <3>1 DEF Contenders
    <3>. HIDE DEF kept
    <3>5. PICK j \in Contenders(mid) : Before(mid, id, j, other) /\ x \in kept[j]
      BY <2>7, <3>1, <3>2, <3>4 DEF KeepStep
    <3>6. j \in GroupId /\ j # other /\ Live(mid[j]) /\ x \in mid[j].tree
      BY <2>4, <3>3, <3>5, BeforeOrder DEF Contenders
    <3>7. CASE j = id
      BY <2>3, <3>6, <3>7
    <3>8. CASE j # id
      <4>1. mid[j] = groups[j]
        BY <2>3, <3>6, <3>8
      <4>2. groups[j].tree \cap groups[other].tree = {}
        BY <1>1, <3>4, <3>6, <4>1 DEF Exclusive, ExclusiveIn
      <4>. QED  BY <2>7, <3>6, <4>1, <4>2
    <3>. QED  BY <3>7, <3>8
  <2>. QED  BY <2>6, <2>7
<1>2. StoreInv /\ Exclusive /\ [Next]_vars =>
      [\A id \in GroupId : groups'[id].treeAt = now' /\ now' # now =>
        \A tree \in SUBSET Key, outcome \in SaveOutcomes :
          SetTree(id, tree, outcome) =>
            /\ AtLeastTwo(tree) => Live(groups'[id]) /\ groups'[id].tree = tree
            /\ \A other \in GroupId \ {id} : Live(groups'[other]) =>
                 groups[other].tree \ groups'[other].tree \subseteq tree]_vars
  BY <1>1
<1>3. Spec => []Exclusive
  BY Exclusivity
<1>. QED  BY <1>2, <1>3, StoreSound, PTL DEF Spec, LocalEditWins

\* A renamed session stays in its group, whatever its peers have sent, failed
\* saves, torn files and rollbacks included.
THEOREM RenamesFollow == Spec => RenameFollowsSession
<1>1. ASSUME StoreInv, NEW id \in GroupId, NEW old \in groups[id].tree, NEW new \in Key,
             NEW outcome \in SaveOutcomes, Live(groups[id]),
             \A other \in GroupId \ {id} : Live(groups[other]) => old \notin groups[other].tree,
             AtLeastTwo((groups[id].tree \ {old}) \cup {new}),
             \A other \in GroupId : groups[other].treeAt <= now,
             MigrateKey(old, new, outcome)
      PROVE  Live(groups'[id]) /\ new \in groups'[id].tree /\ old \notin groups'[id].tree
  <2>. DEFINE mid == [k \in GroupId |-> Renamed(groups[k], old, new, now + 1)]
  <2>1. /\ SoundMap(groups) /\ groups \in [GroupId -> Group] /\ now \in Nat
        /\ now + 1 \in Nat \ {0} /\ now + 2 \in Nat \ {0} /\ old \in Key /\ old # new
    BY <1>1 DEF StoreInv, TypeOK, SoundMap, MigrateKey, Group
  <2>2. groups' = Enforce(mid, now + 2, NoWinner)
    BY <1>1 DEF MigrateKey, Install, Migrated
  <2>3. \A k \in GroupId : /\ mid[k] \in Group /\ WellFormed(mid[k])
                           /\ mid[k].deletedAt = groups[k].deletedAt
    BY <1>1, <2>1, RenamedFacts DEF SoundMap, Sound
  <2>4. Enforceable(mid)
    BY <2>3 DEF Enforceable
  <2>5. mid[id].tree = (groups[id].tree \ {old}) \cup {new} /\ mid[id].treeAt = now + 1
    <3>1. groups[id] \in Group
      BY <2>1
    <3>2. mid[id] = [groups[id] EXCEPT !.tree = (@ \ {old}) \cup {new}, !.treeAt = now + 1]
      BY <1>1 DEF Renamed
    <3>. QED  BY <3>1, <3>2 DEF Group
  <2>6. ASSUME NEW k \in GroupId \ {id}, Live(mid[k])  PROVE mid[k].treeAt <= now
    <3>1. CASE old \notin groups[k].tree
      BY <1>1, <3>1 DEF Renamed
    <3>2. CASE old \in groups[k].tree
      <4>1. groups[k] \in Group /\ WellFormed(groups[k]) /\ ~ Live(groups[k])
        BY <1>1, <2>1, <3>2 DEF SoundMap, Sound
      <4>2. groups[k].treeAt > 0
        BY <3>2, <4>1 DEF WellFormed, HasTree
      <4>3. groups[k].deletedAt # 0
        BY <4>1, <4>2, LiveMeans
      <4>. QED  BY <2>3, <2>6, <4>3 DEF Live
    <3>. QED  BY <3>1, <3>2
  <2>7. id \in Contenders(mid)
    <3>1. mid[id].deletedAt = 0 /\ mid[id].treeAt > 0
      BY <1>1, <2>1, <2>3, <2>5 DEF Live
    <3>. QED  BY <2>3, <3>1, LiveMeans DEF Contenders, HasTree
  <2>. HIDE DEF mid
  <2>8. \A k \in Contenders(mid) : ~ Before(mid, NoWinner, k, id)
    <3>. SUFFICES ASSUME NEW k \in Contenders(mid), Before(mid, NoWinner, k, id)  PROVE FALSE
      OBVIOUS
    <3>1. k \in GroupId /\ Live(mid[k]) /\ k # id /\ mid \in [GroupId -> Group]
      BY <2>4, <2>7, BeforeOrder DEF Contenders, Enforceable
    <3>2. mid[k].treeAt \in Nat /\ mid[k].treeAt <= now
      BY <2>3, <2>6, <3>1 DEF Group
    <3>3. id # NoWinner /\ k # NoWinner
      BY <3>1, RecordAssumption
    <3>. QED  BY <2>1, <2>5, <3>2, <3>3 DEF Before
  <2>9. Live(groups'[id]) /\ groups'[id].tree = mid[id].tree
    <3>. DEFINE t == now + 2
    <3>1. t \in Nat \ {0} /\ groups' = Enforce(mid, t, NoWinner)
      BY <2>1, <2>2
    <3>. HIDE DEF t
    <3>2. AtLeastTwo(mid[id].tree)
      BY <1>1, <2>5
    <3>. QED  BY <2>4, <2>7, <2>8, <3>1, <3>2, FirstSurvives
  <2>. QED  BY <2>1, <2>5, <2>9
<1>2. StoreInv /\ [Next]_vars =>
      [\A id \in GroupId : \A old \in groups[id].tree, new \in Key, outcome \in SaveOutcomes :
          /\ Live(groups[id])
          /\ \A other \in GroupId \ {id} : Live(groups[other]) => old \notin groups[other].tree
          /\ AtLeastTwo((groups[id].tree \ {old}) \cup {new})
          /\ \A other \in GroupId : groups[other].treeAt <= now
          /\ MigrateKey(old, new, outcome)
          => Live(groups'[id]) /\ new \in groups'[id].tree /\ old \notin groups'[id].tree]_vars
  BY <1>1
<1>. QED  BY <1>2, StoreSound, PTL DEF Spec, RenameFollowsSession
=============================================================================
