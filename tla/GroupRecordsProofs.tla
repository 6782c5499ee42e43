------------------------ MODULE GroupRecordsProofs ------------------------
(***************************************************************************)
(* Lemmas about the operators of GroupRecords, for every finite set of     *)
(* group ids and every set of keys: what enforce, the merge, the pruning   *)
(* and the renaming return.  GroupStoreProofs and GroupMeshProofs rest on  *)
(* them.                                                                   *)
(***************************************************************************)
EXTENDS GroupRecords, FiniteSetTheorems, WellFoundedInduction, TLAPS

-----------------------------------------------------------------------------
(* The order enforce sorts by. *)

\* The sort key of enforce is a strict total order on the group ids.
LEMMA BeforeOrder ==
  ASSUME NEW gs \in [GroupId -> Group], NEW w
  PROVE  /\ \A i \in GroupId : ~ Before(gs, w, i, i)
         /\ \A i, j \in GroupId : i # j => Before(gs, w, i, j) \/ Before(gs, w, j, i)
         /\ \A i, j, k \in GroupId :
               Before(gs, w, i, j) /\ Before(gs, w, j, k) => Before(gs, w, i, k)
<1>1. GroupId \subseteq Nat
  BY RecordAssumption
<1>2. \A i \in GroupId : gs[i].treeAt \in Nat
  BY DEF Group
<1>. QED  BY <1>1, <1>2 DEF Before

\* Every nonempty set of ids has a first member in that order.
LEMMA FirstExists ==
  ASSUME NEW gs \in [GroupId -> Group], NEW w,
         NEW S \in SUBSET GroupId, S # {}
  PROVE  \E m \in S : \A i \in S : ~ Before(gs, w, i, m)
<1>. DEFINE E(i) == {j \in GroupId : Before(gs, w, j, i)}
            T == {E(i) : i \in S}
<1>1. T \subseteq FiniteSubsetsOf(GroupId) /\ T # {}
  <2>1. \A i \in S : E(i) \in SUBSET GroupId /\ IsFiniteSet(E(i))
    BY RecordAssumption, FS_Subset
  <2>. QED  BY <2>1 DEF FiniteSubsetsOf
<1>2. PICK x \in T : \A y \in T : <<y, x>> \notin StrictSubsetOrdering(GroupId)
  BY <1>1, FS_StrictSubsetOrderingWellFounded, WFMin
<1>3. PICK m \in S : x = E(m)
  BY <1>2
<1>4. ASSUME NEW i \in S, Before(gs, w, i, m)  PROVE FALSE
  <2>1. E(i) \subseteq E(m) /\ i \in E(m) /\ i \notin E(i)
    BY <1>4, BeforeOrder
  <2>2. <<E(i), E(m)>> \in StrictSubsetOrdering(GroupId)
    BY <2>1, Zenon DEF StrictSubsetOrdering
  <2>. QED  BY <2>2, <1>2, <1>3
<1>. QED  BY <1>4

-----------------------------------------------------------------------------
(* The recursion of Kept is well founded, so it satisfies its own equation. *)

\* One step of the loop: what id keeps when f says what the others keep.
KeepStep(gs, w, f, id) ==
    gs[id].tree \ UNION {f[j] : j \in {k \in Contenders(gs) :
                            Before(gs, w, k, id) /\ AtLeastTwo(f[k])}}

\* The loop can be run to the end: extend a solution on the first few ids by
\* the next one.
LEMMA KeptExists ==
  ASSUME NEW gs \in [GroupId -> Group], NEW w
  PROVE  \E f : f = [id \in GroupId |-> KeepStep(gs, w, f, id)]
<1>. DEFINE Closed(D) == \A i \in D : \A j \in GroupId : Before(gs, w, j, i) => j \in D
            Solves(f, D) == DOMAIN f = D /\ \A i \in D : f[i] = KeepStep(gs, w, f, i)
            Good(D) == Closed(D) /\ \E f : f = [i \in D |-> f[i]] /\ Solves(f, D)
            T == {GroupId \ D : D \in {DD \in SUBSET GroupId : Good(DD)}}
<1>1. T \subseteq FiniteSubsetsOf(GroupId)
  BY RecordAssumption, FS_FiniteSubsetsOfFinite
<1>2. T # {}
  <2>1. Good({})
    <3>. DEFINE e == [i \in {} |-> {}]
    <3>1. e = [i \in {} |-> e[i]] /\ Solves(e, {})
      OBVIOUS
    <3>. QED  BY <3>1
  <2>. QED  BY <2>1
<1>3. PICK x \in T : \A y \in T : <<y, x>> \notin StrictSubsetOrdering(GroupId)
  BY <1>1, <1>2, FS_StrictSubsetOrderingWellFounded, WFMin
<1>4. PICK D \in SUBSET GroupId : Good(D) /\ x = GroupId \ D
  BY <1>3
<1>5. PICK f : f = [i \in D |-> f[i]] /\ Solves(f, D)
  BY <1>4
<1>6. D = GroupId
  <2>. SUFFICES ASSUME D # GroupId  PROVE FALSE
    OBVIOUS
  <2>1. PICK m \in GroupId \ D : \A i \in GroupId \ D : ~ Before(gs, w, i, m)
    <3>1. GroupId \ D \in SUBSET GroupId /\ GroupId \ D # {}
      OBVIOUS
    <3>. QED  BY <3>1, FirstExists
  <2>. DEFINE D2 == D \cup {m}
              f2 == [i \in D2 |-> IF i = m THEN KeepStep(gs, w, f, m) ELSE f[i]]
  <2>2. Closed(D2)
    BY <1>4, <2>1
  <2>3. \A i \in D2 : KeepStep(gs, w, f2, i) = KeepStep(gs, w, f, i)
    <3>1. \A i \in D2, k \in GroupId : Before(gs, w, k, i) => k \in D
      BY <1>4, <2>1, BeforeOrder
    <3>2. \A k \in D : f2[k] = f[k]
      BY <2>1
    <3>. SUFFICES ASSUME NEW i \in D2
                  PROVE  KeepStep(gs, w, f2, i) = KeepStep(gs, w, f, i)
      OBVIOUS
    <3>. DEFINE Owners(g) == {k \in Contenders(gs) : Before(gs, w, k, i) /\ AtLeastTwo(g[k])}
    <3>. HIDE DEF f2, D2
    <3>3. \A k \in Contenders(gs) : Before(gs, w, k, i) => f2[k] = f[k]
      BY <3>1, <3>2 DEF Contenders
    <3>4. Owners(f2) = Owners(f) /\ \A k \in Owners(f) : f2[k] = f[k]
      BY <3>3
    <3>5. {f2[j] : j \in Owners(f2)} = {f[j] : j \in Owners(f)}
      BY <3>4
    <3>. QED  BY <3>5 DEF KeepStep
  <2>4. Solves(f2, D2)
    BY <1>5, <2>1, <2>3
  <2>5. f2 = [i \in D2 |-> f2[i]]
    OBVIOUS
  <2>6. Good(D2)
    BY <2>2, <2>4, <2>5
  <2>7. GroupId \ D2 \in T
    BY <2>6, <2>1
  <2>8. <<GroupId \ D2, GroupId \ D>> \in StrictSubsetOrdering(GroupId)
    BY <2>1 DEF StrictSubsetOrdering
  <2>. QED  BY <2>7, <2>8, <1>3, <1>4
<1>7. f = [id \in GroupId |-> KeepStep(gs, w, f, id)]
  BY <1>5, <1>6
<1>. QED  BY <1>7

\* What Kept computes: each id keeps the keys no earlier survivor kept.
LEMMA KeptUnfold ==
  ASSUME NEW gs \in [GroupId -> Group], NEW w
  PROVE  /\ Kept(gs, w) = [id \in GroupId |-> KeepStep(gs, w, Kept(gs, w), id)]
<1>1. Kept(gs, w) = CHOOSE f : f = [id \in GroupId |-> KeepStep(gs, w, f, id)]
  BY Zenon DEF Kept, KeepStep
<1>. QED  BY <1>1, KeptExists, Zenon

-----------------------------------------------------------------------------
(* What an enforcement pass guarantees, whatever it started from. *)

\* A map on which enforcement may be run.
Enforceable(gs) ==
    gs \in [GroupId -> Group] /\ \A id \in GroupId : WellFormed(gs[id])

\* No group that is dead in one map is alive in the other.
DeadStay(before, after) ==
    \A id \in GroupId : before[id].deletedAt > 0 => after[id].deletedAt > 0

\* A well-formed record is live exactly when it has a tree and no tombstone.
LEMMA LiveMeans ==
  ASSUME NEW g \in Group, WellFormed(g)
  PROVE  /\ Live(g) => g.deletedAt = 0 /\ g.treeAt > 0
         /\ g.deletedAt = 0 /\ g.treeAt > 0 => Live(g)
<1>1. g.deletedAt \in Nat /\ g.treeAt \in Nat
  BY DEF Group
<1>2. Live(g) => g.deletedAt = 0 /\ g.treeAt > 0
  BY <1>1 DEF Live, WellFormed, HasTree
<1>3. g.treeAt > 0 => Known(g)
  <2>1. ZeroGroup.treeAt = 0
    BY DEF ZeroGroup
  <2>. QED  BY <2>1 DEF Known
<1>. QED  BY <1>2, <1>3 DEF Live

\* Kept only ever takes keys away.
LEMMA KeptShrinks ==
  ASSUME NEW gs \in [GroupId -> Group], NEW w, NEW id \in GroupId
  PROVE  Kept(gs, w)[id] \subseteq gs[id].tree
<1>1. Kept(gs, w)[id] = KeepStep(gs, w, Kept(gs, w), id)
  BY KeptUnfold
<1>. QED  BY <1>1 DEF KeepStep

\* One record through Settle: typed, well-formed, sound, and if it lives its
\* tree is what it kept.
LEMMA SettleFacts ==
  ASSUME NEW g \in Group, Live(g), HasTree(g), NEW kept \in SUBSET Key,
         NEW t \in Nat \ {0}
  PROVE  LET r == Settle(g, kept, t)
         IN  /\ r \in Group
             /\ r.treeAt > 0
             /\ r.deletedAt = 0 => r.tree = kept /\ AtLeastTwo(kept)
<1>1. g.treeAt > 0 /\ g.deletedAt = 0
  BY DEF Live, HasTree
<1>2. CASE ~ AtLeastTwo(kept)
  <2>1. Settle(g, kept, t) = [g EXCEPT !.deletedAt = t]
    BY <1>2 DEF Settle
  <2>. QED  BY <1>1, <2>1 DEF Group
<1>3. CASE AtLeastTwo(kept) /\ kept # g.tree
  <2>1. Settle(g, kept, t) = [g EXCEPT !.tree = kept, !.treeAt = t]
    BY <1>3 DEF Settle
  <2>. DEFINE r == [g EXCEPT !.tree = kept, !.treeAt = t]
  <2>2. r \in Group
    BY DEF Group
  <2>3. r.treeAt = t /\ t > 0 /\ r.tree = kept
    BY DEF Group
  <2>. QED  BY <1>3, <2>1, <2>2, <2>3
<1>4. CASE AtLeastTwo(kept) /\ kept = g.tree
  BY <1>1, <1>4 DEF Settle
<1>. QED  BY <1>2, <1>3, <1>4

\* A record with a stamped tree is well formed.
LEMMA StampedWellFormed ==
  ASSUME NEW g, g.treeAt > 0
  PROVE  WellFormed(g)
BY DEF WellFormed, HasTree

\* One record through Enforce.
LEMMA EnforceRecord ==
  ASSUME NEW gs, Enforceable(gs), NEW t \in Nat \ {0}, NEW w, NEW id \in GroupId
  PROVE  LET r == Enforce(gs, t, w)[id]
         IN  /\ r \in Group
             /\ WellFormed(r)
             /\ gs[id].deletedAt > 0 => r = gs[id]
             /\ Live(r) => /\ id \in Contenders(gs)
                           /\ r.tree = Kept(gs, w)[id]
                           /\ AtLeastTwo(r.tree)
<1>. DEFINE r == Enforce(gs, t, w)[id]
<1>1. gs[id] \in Group /\ WellFormed(gs[id])
  BY DEF Enforceable
<1>2. CASE id \in Contenders(gs)
  <2>1. r = Settle(gs[id], Kept(gs, w)[id], t)
    BY <1>2 DEF Enforce
  <2>2. Live(gs[id]) /\ HasTree(gs[id])
    BY <1>2 DEF Contenders
  <2>3. Kept(gs, w)[id] \in SUBSET Key
    <3>1. gs \in [GroupId -> Group] /\ gs[id].tree \in SUBSET Key
      BY <1>1 DEF Enforceable, Group
    <3>. QED  BY <3>1, KeptShrinks
  <2>4. /\ r \in Group
        /\ r.treeAt > 0
        /\ r.deletedAt = 0 => r.tree = Kept(gs, w)[id] /\ AtLeastTwo(Kept(gs, w)[id])
    BY <1>1, <2>1, <2>2, <2>3, SettleFacts
  <2>5. WellFormed(r)
    BY <2>4, StampedWellFormed
  <2>6. ~ (gs[id].deletedAt > 0)
    BY <2>2 DEF Live
  <2>7. Live(r) => r.deletedAt = 0
    BY DEF Live
  <2>. QED  BY <1>2, <2>4, <2>5, <2>6, <2>7
<1>3. CASE id \notin Contenders(gs)
  <2>1. r = gs[id]
    BY <1>3 DEF Enforce
  <2>2. ~ Live(gs[id])
    BY <1>1, <1>3, LiveMeans DEF Contenders, HasTree
  <2>. QED  BY <1>1, <2>1, <2>2
<1>. QED  BY <1>2, <1>3

\* The pass of enforce makes any well-formed map sound and exclusive, and
\* revives nothing.
LEMMA EnforceFacts ==
  ASSUME NEW gs, Enforceable(gs), NEW t \in Nat \ {0}, NEW w
  PROVE  LET e == Enforce(gs, t, w)
         IN  /\ e \in [GroupId -> Group]
             /\ Sound(e)
             /\ ExclusiveIn(e)
             /\ DeadStay(gs, e)
<1>. DEFINE e == Enforce(gs, t, w)
<1>1. e = [id \in GroupId |-> e[id]]
  BY DEF Enforce
<1>2. e \in [GroupId -> Group]
  BY <1>1, EnforceRecord
<1>3. Sound(e)
  BY EnforceRecord DEF Sound
<1>4. DeadStay(gs, e)
  BY EnforceRecord DEF DeadStay
<1>5. ExclusiveIn(e)
  <2>. SUFFICES ASSUME NEW i \in GroupId, NEW j \in GroupId, i # j,
                       Live(e[i]), Live(e[j])
                PROVE  e[i].tree \cap e[j].tree = {}
    BY DEF ExclusiveIn
  <2>. DEFINE kept == Kept(gs, w)
  <2>1. /\ i \in Contenders(gs) /\ e[i].tree = kept[i] /\ AtLeastTwo(kept[i])
        /\ j \in Contenders(gs) /\ e[j].tree = kept[j] /\ AtLeastTwo(kept[j])
    BY EnforceRecord
  <2>2. gs \in [GroupId -> Group]
    BY DEF Enforceable
  <2>3. \A id \in GroupId : kept[id] = KeepStep(gs, w, kept, id)
    BY <2>2, KeptUnfold
  <2>4. ASSUME NEW a \in Contenders(gs), NEW b \in GroupId,
               Before(gs, w, a, b), AtLeastTwo(kept[a])
        PROVE  kept[a] \cap kept[b] = {}
    <3>1. kept[b] = KeepStep(gs, w, kept, b)
      BY <2>3
    <3>. HIDE DEF kept
    <3>. QED  BY <2>4, <3>1 DEF KeepStep
  <2>5. Before(gs, w, i, j) \/ Before(gs, w, j, i)
    BY <2>2, BeforeOrder
  <2>. QED  BY <2>1, <2>4, <2>5
<1>. QED  BY <1>2, <1>3, <1>4, <1>5

-----------------------------------------------------------------------------
(* The records the methods hand to enforce. *)

\* A merged record is typed and well formed, and a tombstone survives a merge.
LEMMA MergeFacts ==
  ASSUME NEW cur \in Group, WellFormed(cur), NEW in \in Group, WellFormed(in)
  PROVE  LET r == Merge(cur, in)
         IN  /\ r \in Group
             /\ WellFormed(r)
             /\ cur.deletedAt > 0 => r.deletedAt > 0
<1>. DEFINE r == Merge(cur, in)
<1>1. r \in Group
  BY DEF Merge, Group
<1>2. cur.deletedAt > 0 => r.deletedAt > 0
  BY DEF Merge, Group
<1>3. r.treeAt = 0 => cur.treeAt = 0 /\ in.treeAt = 0 /\ r.tree = cur.tree
  BY DEF Merge, Group
<1>4. CASE r.treeAt > 0
  BY <1>1, <1>2, <1>4, StampedWellFormed
<1>5. CASE r.treeAt = 0
  <2>1. r.tree = {}
    BY <1>3, <1>5 DEF WellFormed, HasTree
  <2>2. CASE cur.deletedAt > 0 \/ in.deletedAt > 0
    <3>1. r.deletedAt > 0
      BY <2>2 DEF Merge, Group
    <3>. QED  BY <1>1, <1>2, <2>1, <3>1 DEF WellFormed
  <2>3. CASE ~ (cur.deletedAt > 0 \/ in.deletedAt > 0)
    <3>1. cur = ZeroGroup /\ in = ZeroGroup
      BY <1>3, <1>5, <2>3 DEF WellFormed, HasTree, Known, Group
    <3>2. r = ZeroGroup
      BY <3>1 DEF Merge, ZeroGroup
    <3>. QED  BY <1>1, <1>2, <2>1, <3>2 DEF WellFormed, Known
  <2>. QED  BY <2>2, <2>3
<1>6. r.treeAt \in Nat
  BY <1>1 DEF Group
<1>. QED  BY <1>4, <1>5, <1>6

\* Writing a tree and a stamp keeps a record well formed.
LEMMA TreeWriteFacts ==
  ASSUME NEW g \in Group, NEW tree \in SUBSET Key, NEW t \in Nat \ {0}
  PROVE  LET r == [g EXCEPT !.tree = tree, !.treeAt = t]
         IN  r \in Group /\ WellFormed(r) /\ r.deletedAt = g.deletedAt
<1>. DEFINE r == [g EXCEPT !.tree = tree, !.treeAt = t]
<1>1. r \in Group
  BY DEF Group
<1>2. r.treeAt = t /\ t > 0 /\ r.deletedAt = g.deletedAt
  BY DEF Group
<1>. QED  BY <1>1, <1>2, StampedWellFormed

\* A contender that keeps two keys or more survives with what it kept.
LEMMA SurvivorFacts ==
  ASSUME NEW gs, Enforceable(gs), NEW t \in Nat \ {0}, NEW w,
         NEW id \in Contenders(gs), AtLeastTwo(Kept(gs, w)[id])
  PROVE  Live(Enforce(gs, t, w)[id]) /\ Enforce(gs, t, w)[id].tree = Kept(gs, w)[id]
<1>. DEFINE r == Enforce(gs, t, w)[id]
            kept == Kept(gs, w)[id]
<1>1. id \in GroupId /\ Live(gs[id]) /\ HasTree(gs[id])
  BY DEF Contenders
<1>2. gs[id] \in Group /\ gs \in [GroupId -> Group]
  BY <1>1 DEF Enforceable
<1>3. r = Settle(gs[id], kept, t)
  BY <1>1 DEF Enforce
<1>4. CASE kept = gs[id].tree
  BY <1>1, <1>3, <1>4 DEF Settle
<1>5. CASE kept # gs[id].tree
  <2>1. r = [gs[id] EXCEPT !.tree = kept, !.treeAt = t]
    BY <1>3, <1>5 DEF Settle
  <2>2. kept \in SUBSET Key
    BY <1>1, <1>2, KeptShrinks DEF Group
  <2>. HIDE DEF kept, r
  <2>3. r \in Group /\ WellFormed(r) /\ r.deletedAt = gs[id].deletedAt
    BY <1>2, <2>1, <2>2, TreeWriteFacts
  <2>4. r.tree = kept /\ r.treeAt > 0
    BY <1>2, <2>1 DEF Group
  <2>5. gs[id].deletedAt = 0
    BY <1>1 DEF Live
  <2>6. Live(r) /\ r.tree = kept
    BY <2>3, <2>4, <2>5, LiveMeans
  <2>. QED  BY <2>6 DEF r, kept
<1>. QED  BY <1>4, <1>5

\* The first contender keeps its tree.
LEMMA FirstSurvives ==
  ASSUME NEW gs, Enforceable(gs), NEW t \in Nat \ {0}, NEW w, NEW id \in Contenders(gs),
         \A k \in Contenders(gs) : ~ Before(gs, w, k, id), AtLeastTwo(gs[id].tree)
  PROVE  Live(Enforce(gs, t, w)[id]) /\ Enforce(gs, t, w)[id].tree = gs[id].tree
<1>. DEFINE kept == Kept(gs, w)
<1>1. id \in GroupId /\ gs \in [GroupId -> Group]
  BY DEF Contenders, Enforceable
<1>2. kept[id] = KeepStep(gs, w, kept, id)
  BY <1>1, KeptUnfold
<1>. HIDE DEF kept
<1>3. KeepStep(gs, w, kept, id) = gs[id].tree
  BY DEF KeepStep
<1>4. Kept(gs, w)[id] = gs[id].tree
  BY <1>2, <1>3 DEF kept
<1>. QED  BY <1>4, SurvivorFacts

\* Enforcement takes from a live group exactly the keys that other live groups
\* own afterwards: a group that was dissolved on the way keeps nothing from
\* anybody.
LEMMA EnforceStrandsNothing ==
  ASSUME NEW gs, Enforceable(gs), NEW t \in Nat \ {0}, NEW w
  PROVE  StrandsNothing(gs, Enforce(gs, t, w))
<1>. DEFINE e == Enforce(gs, t, w)
            kept == Kept(gs, w)
<1>. SUFFICES ASSUME NEW id \in GroupId, Live(gs[id]), AtLeastTwo(Free(id, gs, e))
              PROVE  Live(e[id]) /\ e[id].tree = Free(id, gs, e)
  BY DEF StrandsNothing
<1>. DEFINE free == gs[id].tree \ UNION {e[other].tree :
                       other \in {j \in GroupId \ {id} : Live(e[j])}}
<1>0. Free(id, gs, e) = free
  BY DEF Free
<1>1. gs \in [GroupId -> Group] /\ id \in Contenders(gs)
  BY LiveMeans DEF Enforceable, Contenders, HasTree
<1>2. kept[id] = KeepStep(gs, w, kept, id)
  BY <1>1, KeptUnfold
<1>3. free \subseteq kept[id]
  <2>. SUFFICES ASSUME NEW x \in free, NEW j \in Contenders(gs),
                       Before(gs, w, j, id), AtLeastTwo(kept[j]), x \in kept[j]
                PROVE  FALSE
    BY <1>2 DEF KeepStep
  <2>1. j \in GroupId /\ j # id
    BY <1>1, BeforeOrder DEF Contenders
  <2>2. Live(e[j]) /\ e[j].tree = kept[j]
    BY SurvivorFacts
  <2>. QED  BY <2>1, <2>2
<1>4. AtLeastTwo(kept[id])
  BY <1>0, <1>3 DEF AtLeastTwo
<1>5. Live(e[id]) /\ e[id].tree = kept[id]
  BY <1>1, <1>4, SurvivorFacts
<1>6. kept[id] \subseteq free
  <2>1. kept[id] \subseteq gs[id].tree
    BY <1>1, KeptShrinks
  <2>2. ASSUME NEW j \in GroupId \ {id}, Live(e[j])  PROVE e[j].tree \cap kept[id] = {}
    <3>1. ExclusiveIn(e)
      BY EnforceFacts
    <3>. QED  BY <1>5, <2>2, <3>1 DEF ExclusiveIn
  <2>. QED  BY <2>1, <2>2
<1>. QED  BY <1>0, <1>3, <1>5, <1>6

\* Setting a tombstone makes any record with an unstamped, empty tree, or with
\* a stamped one, well formed.
LEMMA TombstoneFacts ==
  ASSUME NEW g \in Group, WellFormed(g), NEW t \in Nat \ {0}
  PROVE  LET r == [g EXCEPT !.deletedAt = t]
         IN  r \in Group /\ WellFormed(r) /\ r.deletedAt > 0 /\ ~ Live(r)
<1>. DEFINE r == [g EXCEPT !.deletedAt = t]
<1>1. r \in Group /\ r.deletedAt > 0 /\ r.treeAt = g.treeAt /\ r.tree = g.tree
  BY DEF Group
<1>. QED  BY <1>1 DEF WellFormed, HasTree, Live

LEMMA PrunedFacts ==
  ASSUME NEW g \in Group, WellFormed(g), NEW keys \in SUBSET Key, NEW t \in Nat \ {0}
  PROVE  LET r == Pruned(g, keys, t)
         IN  r \in Group /\ WellFormed(r) /\ (g.deletedAt > 0 => r.deletedAt > 0)
<1>. DEFINE r == Pruned(g, keys, t)
            cut == [g EXCEPT !.tree = g.tree \ keys, !.treeAt = t]
<1>0. g.tree \ keys \in SUBSET Key
  BY DEF Group
<1>1. cut \in Group /\ WellFormed(cut) /\ cut.deletedAt = g.deletedAt
  BY <1>0, TreeWriteFacts
<1>2. \/ r = g
      \/ r = [g EXCEPT !.deletedAt = t]
      \/ r = [g EXCEPT !.tree = g.tree \ keys, !.treeAt = t, !.deletedAt = t]
      \/ r = cut
  BY DEF Pruned
<1>3. [g EXCEPT !.tree = g.tree \ keys, !.treeAt = t, !.deletedAt = t]
        = [cut EXCEPT !.deletedAt = t]
  BY DEF Group
<1>4. LET d == [cut EXCEPT !.deletedAt = t]
      IN  d \in Group /\ WellFormed(d) /\ d.deletedAt > 0
  BY <1>1, TombstoneFacts
<1>5. LET d == [g EXCEPT !.deletedAt = t]
      IN  d \in Group /\ WellFormed(d) /\ d.deletedAt > 0
  BY TombstoneFacts
<1>. QED  BY <1>1, <1>2, <1>3, <1>4, <1>5

LEMMA RenamedFacts ==
  ASSUME NEW g \in Group, WellFormed(g), NEW old \in Key, NEW new \in Key,
         NEW t \in Nat \ {0}
  PROVE  LET r == Renamed(g, old, new, t)
         IN  r \in Group /\ WellFormed(r) /\ r.deletedAt = g.deletedAt
<1>1. (g.tree \ {old}) \cup {new} \in SUBSET Key
  BY DEF Group
<1>2. CASE old \in g.tree
  <2>. DEFINE tree == (g.tree \ {old}) \cup {new}
              r == [g EXCEPT !.tree = tree, !.treeAt = t]
  <2>1. Renamed(g, old, new, t) = r
    BY <1>2 DEF Renamed
  <2>. HIDE DEF tree
  <2>2. r \in Group /\ WellFormed(r) /\ r.deletedAt = g.deletedAt
    BY <1>1, TreeWriteFacts DEF tree
  <2>. HIDE DEF r
  <2>. QED  BY <2>1, <2>2
<1>3. CASE old \notin g.tree
  BY <1>3 DEF Renamed
<1>. QED  BY <1>2, <1>3

-----------------------------------------------------------------------------
(* Each method, as a step from one map to the next. *)

\* What every method of Store keeps.  Restore is not one of these.
KeepsOrder(before, after) ==
    /\ after \in [GroupId -> Group]
    /\ Sound(after)
    /\ ExclusiveIn(before) => ExclusiveIn(after)
    /\ DeadStay(before, after)

\* A method that ends in enforce also removes any duplicate it found.
Orders(before, after) == KeepsOrder(before, after) /\ ExclusiveIn(after)

\* It does if the map it prepares is well formed and revives nothing.
LEMMA EnforcedOrders ==
  ASSUME NEW gs, NEW mid, Enforceable(mid), DeadStay(gs, mid),
         NEW t \in Nat \ {0}, NEW w
  PROVE  Orders(gs, Enforce(mid, t, w))
<1>1. LET e == Enforce(mid, t, w)
      IN  e \in [GroupId -> Group] /\ Sound(e) /\ ExclusiveIn(e) /\ DeadStay(mid, e)
  BY EnforceFacts
<1>. QED  BY <1>1 DEF Orders, KeepsOrder, DeadStay

\* SetTree, whose guard has rejected tombstones.
LEMMA SetTreeOrders ==
  ASSUME NEW gs, SoundMap(gs), NEW id \in GroupId, NEW tree \in SUBSET Key,
         NEW t \in Nat \ {0}, NEW w
  PROVE  Orders(gs, Enforce([gs EXCEPT ![id].tree = tree, ![id].treeAt = t], t, w))
<1>. DEFINE mid == [gs EXCEPT ![id].tree = tree, ![id].treeAt = t]
            r == [gs[id] EXCEPT !.tree = tree, !.treeAt = t]
<1>1. \A k \in GroupId : gs[k] \in Group /\ WellFormed(gs[k])
  BY DEF SoundMap, Sound
<1>2. r \in Group /\ WellFormed(r) /\ r.deletedAt = gs[id].deletedAt
  BY <1>1, TreeWriteFacts
<1>3. mid = [gs EXCEPT ![id] = r]
  BY DEF SoundMap
<1>. HIDE DEF r, mid
<1>4. Enforceable(mid) /\ DeadStay(gs, mid)
  BY <1>1, <1>2, <1>3 DEF SoundMap, Enforceable, DeadStay
<1>. QED  BY <1>4, EnforcedOrders DEF mid

LEMMA ApplyRemoteOrders ==
  ASSUME NEW gs, SoundMap(gs), NEW id \in GroupId, NEW in \in Group, WellFormed(in),
         NEW t \in Nat \ {0}
  PROVE  Orders(gs, AppliedDelta(gs, id, in, t))
<1>. DEFINE mid == [gs EXCEPT ![id] = Merge(gs[id], in)]
<1>1. \A k \in GroupId : gs[k] \in Group /\ WellFormed(gs[k])
  BY DEF SoundMap, Sound
<1>2. LET r == Merge(gs[id], in)
      IN  r \in Group /\ WellFormed(r) /\ (gs[id].deletedAt > 0 => r.deletedAt > 0)
  BY <1>1, MergeFacts
<1>3. Enforceable(mid) /\ DeadStay(gs, mid)
  BY <1>1, <1>2 DEF SoundMap, Enforceable, DeadStay
<1>4. \A w : Orders(gs, Enforce(mid, t, w))
  BY <1>3, EnforcedOrders
<1>. QED  BY <1>4 DEF AppliedDelta

LEMMA ApplySnapshotOrders ==
  ASSUME NEW gs, SoundMap(gs), NEW snap, Enforceable(snap), NEW t \in Nat \ {0}
  PROVE  Orders(gs, AppliedSnapshot(gs, snap, t))
<1>. DEFINE mid == [k \in GroupId |-> Merge(gs[k], snap[k])]
<1>1. \A k \in GroupId : /\ gs[k] \in Group /\ WellFormed(gs[k])
                         /\ snap[k] \in Group /\ WellFormed(snap[k])
  BY DEF SoundMap, Sound, Enforceable
<1>2. \A k \in GroupId : LET r == Merge(gs[k], snap[k])
        IN  r \in Group /\ WellFormed(r) /\ (gs[k].deletedAt > 0 => r.deletedAt > 0)
  BY <1>1, MergeFacts
<1>3. Enforceable(mid) /\ DeadStay(gs, mid)
  BY <1>2 DEF Enforceable, DeadStay
<1>. QED  BY <1>3, EnforcedOrders DEF AppliedSnapshot

LEMMA PruneOrders ==
  ASSUME NEW gs, SoundMap(gs), NEW keys \in SUBSET Key, NEW t \in Nat \ {0}
  PROVE  Orders(gs, PrunedAll(gs, keys, t))
<1>. DEFINE mid == [k \in GroupId |-> Pruned(gs[k], keys, t)]
<1>1. \A k \in GroupId : LET r == Pruned(gs[k], keys, t)
        IN  r \in Group /\ WellFormed(r) /\ (gs[k].deletedAt > 0 => r.deletedAt > 0)
  BY PrunedFacts DEF SoundMap, Sound
<1>2. Enforceable(mid) /\ DeadStay(gs, mid)
  BY <1>1 DEF Enforceable, DeadStay
<1>. QED  BY <1>2, EnforcedOrders DEF PrunedAll

LEMMA MigrateOrders ==
  ASSUME NEW gs, SoundMap(gs), NEW old \in Key, NEW new \in Key,
         NEW t \in Nat \ {0}, NEW u \in Nat \ {0}
  PROVE  Orders(gs, Migrated(gs, old, new, t, u))
<1>. DEFINE mid == [k \in GroupId |-> Renamed(gs[k], old, new, t)]
<1>1. \A k \in GroupId : LET r == Renamed(gs[k], old, new, t)
        IN  r \in Group /\ WellFormed(r) /\ r.deletedAt = gs[k].deletedAt
  BY RenamedFacts DEF SoundMap, Sound
<1>2. Enforceable(mid) /\ DeadStay(gs, mid)
  BY <1>1 DEF Enforceable, DeadStay
<1>. QED  BY <1>2, EnforcedOrders DEF Migrated

\* An edit of one record that leaves its tree alone and revives nothing:
\* SetName, SetRank and Delete, the methods that do not run enforce.
LEMMA FieldEditKeepsOrder ==
  ASSUME NEW gs, SoundMap(gs), NEW id \in GroupId, NEW r \in Group, WellFormed(r),
         r.tree = gs[id].tree, Live(r) => Live(gs[id]),
         gs[id].deletedAt > 0 => r.deletedAt > 0
  PROVE  KeepsOrder(gs, [gs EXCEPT ![id] = r])
<1>. DEFINE new == [gs EXCEPT ![id] = r]
<1>1. gs \in [GroupId -> Group]
  BY DEF SoundMap
<1>2. new \in [GroupId -> Group] /\ new[id] = r /\ \A k \in GroupId \ {id} : new[k] = gs[k]
  BY <1>1
<1>. HIDE DEF new
<1>3. \A k \in GroupId : new[k].tree = gs[k].tree /\ (Live(new[k]) => Live(gs[k]))
  BY <1>2
<1>4. Sound(new)
  BY <1>2, <1>3 DEF SoundMap, Sound
<1>5. ExclusiveIn(gs) => ExclusiveIn(new)
  BY <1>3 DEF ExclusiveIn
<1>6. DeadStay(gs, new)
  BY <1>2 DEF DeadStay
<1>. QED  BY <1>2, <1>4, <1>5, <1>6 DEF KeepsOrder, new

\* SetName and SetRank reject an unknown id, so they never create a record
\* that is neither a tree nor a tombstone.
LEMMA SetNameKeepsOrder ==
  ASSUME NEW gs, SoundMap(gs), NEW id \in GroupId, Known(gs[id]),
         NEW n \in Name, NEW md \in NameMode, NEW t \in Nat, NEW u \in Nat
  PROVE  KeepsOrder(gs, [gs EXCEPT ![id].name = n, ![id].nameAt = t,
                                   ![id].nameMode = md, ![id].nameModeAt = u])
<1>. DEFINE r == [gs[id] EXCEPT !.name = n, !.nameAt = t, !.nameMode = md, !.nameModeAt = u]
<1>1. gs[id] \in Group /\ WellFormed(gs[id])
  BY DEF SoundMap, Sound
<1>2. /\ r \in Group
      /\ r.tree = gs[id].tree /\ r.treeAt = gs[id].treeAt /\ r.deletedAt = gs[id].deletedAt
  BY <1>1 DEF Group
<1>3. [gs EXCEPT ![id].name = n, ![id].nameAt = t,
                 ![id].nameMode = md, ![id].nameModeAt = u] = [gs EXCEPT ![id] = r]
  BY DEF SoundMap
<1>. HIDE DEF r
<1>4. WellFormed(r) /\ (Live(r) => Live(gs[id]))
  BY <1>1, <1>2 DEF WellFormed, HasTree, Live
<1>. QED  BY <1>2, <1>3, <1>4, FieldEditKeepsOrder

LEMMA SetRankKeepsOrder ==
  ASSUME NEW gs, SoundMap(gs), NEW id \in GroupId, Known(gs[id]),
         NEW rk \in Rank, NEW t \in Nat
  PROVE  KeepsOrder(gs, [gs EXCEPT ![id].rank = rk, ![id].rankAt = t])
<1>. DEFINE r == [gs[id] EXCEPT !.rank = rk, !.rankAt = t]
<1>1. gs[id] \in Group /\ WellFormed(gs[id])
  BY DEF SoundMap, Sound
<1>2. /\ r \in Group
      /\ r.tree = gs[id].tree /\ r.treeAt = gs[id].treeAt /\ r.deletedAt = gs[id].deletedAt
  BY <1>1 DEF Group
<1>3. [gs EXCEPT ![id].rank = rk, ![id].rankAt = t] = [gs EXCEPT ![id] = r]
  BY DEF SoundMap
<1>. HIDE DEF r
<1>4. WellFormed(r) /\ (Live(r) => Live(gs[id]))
  BY <1>1, <1>2 DEF WellFormed, HasTree, Live
<1>. QED  BY <1>2, <1>3, <1>4, FieldEditKeepsOrder

LEMMA DeleteKeepsOrder ==
  ASSUME NEW gs, SoundMap(gs), NEW id \in GroupId, NEW t \in Nat \ {0}
  PROVE  KeepsOrder(gs, [gs EXCEPT ![id].deletedAt = t])
<1>. DEFINE r == [gs[id] EXCEPT !.deletedAt = t]
<1>1. gs[id] \in Group /\ WellFormed(gs[id])
  BY DEF SoundMap, Sound
<1>2. r \in Group /\ WellFormed(r) /\ r.deletedAt > 0 /\ ~ Live(r)
  BY <1>1, TombstoneFacts
<1>3. r.tree = gs[id].tree
  BY <1>1 DEF Group
<1>4. [gs EXCEPT ![id].deletedAt = t] = [gs EXCEPT ![id] = r]
  BY DEF SoundMap
<1>. HIDE DEF r
<1>. QED  BY <1>2, <1>3, <1>4, FieldEditKeepsOrder

\* The empty map is sound and exclusive: the first start, and a torn file.
LEMMA NoGroupsFacts ==
  SoundMap(NoGroups) /\ ExclusiveIn(NoGroups)
<1>1. ZeroGroup \in Group /\ WellFormed(ZeroGroup) /\ ~ Live(ZeroGroup)
  BY RecordAssumption DEF ZeroGroup, Group, WellFormed, HasTree, Known, Live, NameMode
<1>. QED  BY <1>1 DEF NoGroups, SoundMap, Sound, ExclusiveIn

-----------------------------------------------------------------------------
(* What two servers make of the same records. *)

\* Of two records of one group, as one knows them by their stamps: a stamp
\* stands for one value.
Agree(g, h) ==
    /\ g.treeAt = h.treeAt => g.tree = h.tree
    /\ g.nameAt = h.nameAt => g.name = h.name
    /\ g.nameModeAt = h.nameModeAt => g.nameMode = h.nameMode
    /\ g.rankAt = h.rankAt => g.rank = h.rank

\* The same tree in the same state, whenever it was written.
Alike(g, h) ==
    /\ g.tree = h.tree
    /\ g.treeAt > 0 <=> h.treeAt > 0
    /\ g.deletedAt > 0 <=> h.deletedAt > 0

AlikeMaps(gs, hs) == \A id \in GroupId : Alike(gs[id], hs[id])

Joined(gs, hs) == [id \in GroupId |-> Merge(gs[id], hs[id])]

\* What a server with map gs comes to show after a snapshot hs.
Settled(gs, hs) == Enforce(Joined(gs, hs), 1, NoWinner)

\* Where a stamp stands for one value, it does not matter who merges.
LEMMA MergeCommutes ==
  ASSUME NEW g \in Group, NEW h \in Group, Agree(g, h)
  PROVE  Merge(g, h) = Merge(h, g)
<1>2. /\ g.treeAt \in Nat /\ h.treeAt \in Nat /\ g.nameAt \in Nat /\ h.nameAt \in Nat
      /\ g.nameModeAt \in Nat /\ h.nameModeAt \in Nat /\ g.rankAt \in Nat /\ h.rankAt \in Nat
      /\ g.deletedAt \in Nat /\ h.deletedAt \in Nat
  BY DEF Group
<1>3. Merge(g, h).tree = Merge(h, g).tree /\ Merge(g, h).treeAt = Merge(h, g).treeAt
  BY <1>2 DEF Merge, Agree
<1>4. Merge(g, h).name = Merge(h, g).name /\ Merge(g, h).nameAt = Merge(h, g).nameAt
  BY <1>2 DEF Merge, Agree
<1>5. Merge(g, h).nameMode = Merge(h, g).nameMode /\ Merge(g, h).nameModeAt = Merge(h, g).nameModeAt
  BY <1>2 DEF Merge, Agree
<1>6. Merge(g, h).rank = Merge(h, g).rank /\ Merge(g, h).rankAt = Merge(h, g).rankAt
  BY <1>2 DEF Merge, Agree
<1>7. Merge(g, h).deletedAt = Merge(h, g).deletedAt
  BY <1>2 DEF Merge
<1>. QED  BY <1>3, <1>4, <1>5, <1>6, <1>7 DEF Merge

\* A record that says nothing new about the tree leaves the record as it was.
LEMMA MergeAlike ==
  ASSUME NEW cur \in Group, NEW in \in Group, Alike(in, cur)
  PROVE  Alike(Merge(cur, in), cur)
BY DEF Alike, Merge, Group

\* Maps that are alike are sound, exclusive and shown alike.
LEMMA AlikeFacts ==
  ASSUME NEW gs, SoundMap(gs), ExclusiveIn(gs), NEW hs, Enforceable(hs), AlikeMaps(hs, gs)
  PROVE  /\ SoundMap(hs) /\ ExclusiveIn(hs)
         /\ \A id \in GroupId : hs[id].tree = gs[id].tree /\ (Live(hs[id]) <=> Live(gs[id]))
<1>1. ASSUME NEW id \in GroupId
      PROVE  hs[id].tree = gs[id].tree /\ (Live(hs[id]) <=> Live(gs[id]))
  <2>1. gs[id] \in Group /\ WellFormed(gs[id]) /\ hs[id] \in Group /\ WellFormed(hs[id])
    BY DEF SoundMap, Sound, Enforceable
  <2>2. Alike(hs[id], gs[id])
    BY DEF AlikeMaps
  <2>3. /\ Live(gs[id]) <=> gs[id].deletedAt = 0 /\ gs[id].treeAt > 0
        /\ Live(hs[id]) <=> hs[id].deletedAt = 0 /\ hs[id].treeAt > 0
    BY <2>1, LiveMeans
  <2>4. gs[id].deletedAt \in Nat /\ hs[id].deletedAt \in Nat
    BY <2>1 DEF Group
  <2>. QED  BY <2>2, <2>3, <2>4 DEF Alike
<1>2. SoundMap(hs)
  BY <1>1 DEF SoundMap, Sound, Enforceable
<1>3. ExclusiveIn(hs)
  BY <1>1 DEF ExclusiveIn
<1>. QED  BY <1>1, <1>2, <1>3

\* Enforcement finds nothing to do in a map that is sound and exclusive.
LEMMA EnforceFixed ==
  ASSUME NEW gs, SoundMap(gs), ExclusiveIn(gs), NEW t, NEW w
  PROVE  Enforce(gs, t, w) = gs
<1>1. gs \in [GroupId -> Group]
  BY DEF SoundMap
<1>2. ASSUME NEW id \in Contenders(gs)
      PROVE  Kept(gs, w)[id] = gs[id].tree
  <2>1. id \in GroupId /\ Live(gs[id])
    BY DEF Contenders
  <2>2. Kept(gs, w)[id] = KeepStep(gs, w, Kept(gs, w), id)
    BY <1>1, <2>1, KeptUnfold
  <2>3. ASSUME NEW j \in Contenders(gs), Before(gs, w, j, id)
        PROVE  Kept(gs, w)[j] \cap gs[id].tree = {}
    <3>1. j \in GroupId /\ Live(gs[j]) /\ j # id
      BY <1>1, <2>1, <2>3, BeforeOrder DEF Contenders
    <3>2. Kept(gs, w)[j] \subseteq gs[j].tree
      BY <1>1, <3>1, KeptShrinks
    <3>. QED  BY <2>1, <3>1, <3>2 DEF ExclusiveIn
  <2>. QED  BY <2>2, <2>3 DEF KeepStep
<1>3. ASSUME NEW id \in GroupId
      PROVE  Enforce(gs, t, w)[id] = gs[id]
  <2>1. CASE id \in Contenders(gs)
    <3>1. AtLeastTwo(gs[id].tree)
      BY <2>1 DEF Contenders, SoundMap, Sound
    <3>. QED  BY <1>2, <2>1, <3>1 DEF Enforce, Settle
  <2>2. CASE id \notin Contenders(gs)
    BY <2>2 DEF Enforce
  <2>. QED  BY <2>1, <2>2
<1>. QED  BY <1>1, <1>3 DEF Enforce

\* Two servers that enforce the same map at different times show the same.
LEMMA EnforceAlike ==
  ASSUME NEW gs, Enforceable(gs), NEW t \in Nat \ {0}, NEW u \in Nat \ {0}, NEW w
  PROVE  AlikeMaps(Enforce(gs, t, w), Enforce(gs, u, w))
<1> SUFFICES ASSUME NEW id \in GroupId
             PROVE  Alike(Enforce(gs, t, w)[id], Enforce(gs, u, w)[id])
  BY DEF AlikeMaps
<1>1. gs[id] \in Group
  BY DEF Enforceable
<1>2. CASE id \in Contenders(gs)
  <2>1. gs[id].treeAt > 0
    BY <1>2 DEF Contenders, HasTree
  <2> DEFINE k == Kept(gs, w)[id]
  <2>2. Enforce(gs, t, w)[id] = Settle(gs[id], k, t) /\ Enforce(gs, u, w)[id] = Settle(gs[id], k, u)
    BY <1>2 DEF Enforce
  <2> HIDE DEF k
  <2>3. Alike(Settle(gs[id], k, t), Settle(gs[id], k, u))
    BY <1>1, <2>1 DEF Settle, Alike, Group
  <2>. QED  BY <2>2, <2>3
<1>3. CASE id \notin Contenders(gs)
  BY <1>3 DEF Enforce, Alike
<1>. QED  BY <1>2, <1>3

\* A merge of two maps can be enforced.
LEMMA JoinedFacts ==
  ASSUME NEW gs, Enforceable(gs), NEW hs, Enforceable(hs)
  PROVE  Enforceable(Joined(gs, hs))
BY MergeFacts DEF Enforceable, Joined

-----------------------------------------------------------------------------
(* What the stamps of a group stand for. *)

\* The fields that no group edit over a link rewrites.
SameLabels(g, h) ==
    /\ g.name = h.name /\ g.nameAt = h.nameAt
    /\ g.nameMode = h.nameMode /\ g.nameModeAt = h.nameModeAt
    /\ g.rank = h.rank /\ g.rankAt = h.rankAt

\* g carries a tree that was written by time t: trees[s] is the tree that the
\* group was given at s.
Told(g, trees, t, base) ==
    g \in Group /\ g.treeAt <= t /\ g.tree = trees[g.treeAt] /\ SameLabels(g, base)

\* g carries such a tree, or one written in the step after t.
ToldNext(g, trees, t, base) ==
    Told(g, trees, t, base) \/ (g \in Group /\ g.treeAt = t + 1 /\ SameLabels(g, base))

ToldMap(gs, log, t, base) == \A id \in GroupId : Told(gs[id], log[id], t, base[id])

\* The log after a step that wrote the map gs at time t.
Logged(log, t, gs) == [id \in GroupId |-> [log[id] EXCEPT ![t] = gs[id].tree]]

\* Records of one log agree.
LEMMA ToldAgree ==
  ASSUME NEW g, NEW h, NEW trees, NEW t, NEW base, Told(g, trees, t, base), Told(h, trees, t, base)
  PROVE  Agree(g, h)
BY DEF Told, SameLabels, Agree

\* A merge makes nothing up.
LEMMA MergeTold ==
  ASSUME NEW g, NEW h, NEW trees, NEW t, NEW base, Told(g, trees, t, base), Told(h, trees, t, base)
  PROVE  Told(Merge(g, h), trees, t, base)
<1>1. Merge(g, h) \in Group
  BY DEF Told, Merge, Group
<1>2. SameLabels(Merge(g, h), base)
  BY DEF Told, SameLabels, Merge
<1>3. Merge(g, h).treeAt <= t /\ Merge(g, h).tree = trees[Merge(g, h).treeAt]
  BY DEF Told, Merge
<1>. QED  BY <1>1, <1>2, <1>3 DEF Told

\* Enforcement keeps a tree or writes one now.
LEMMA EnforceTold ==
  ASSUME NEW gs, Enforceable(gs), NEW w, NEW t \in Nat, NEW id \in GroupId, NEW trees, NEW base,
         ToldNext(gs[id], trees, t, base)
  PROVE  ToldNext(Enforce(gs, t + 1, w)[id], trees, t, base)
<1>1. CASE id \notin Contenders(gs)
  BY <1>1 DEF Enforce
<1>2. CASE id \in Contenders(gs)
  <2>. DEFINE k == Kept(gs, w)[id]
  <2>1. Enforce(gs, t + 1, w)[id] = Settle(gs[id], k, t + 1)
    BY <1>2 DEF Enforce
  <2>2. k \subseteq gs[id].tree /\ gs[id] \in Group
    BY KeptShrinks DEF Enforceable
  <2>. HIDE DEF k
  <2>3. k \in SUBSET Key /\ t + 1 \in Nat
    BY <2>2 DEF Group
  <2>4. CASE ~ AtLeastTwo(k)
    <3>1. Settle(gs[id], k, t + 1) = [gs[id] EXCEPT !.deletedAt = t + 1]
      BY <2>4 DEF Settle
    <3>. DEFINE r == [gs[id] EXCEPT !.deletedAt = t + 1]
    <3>2. r \in Group /\ r.treeAt = gs[id].treeAt /\ r.tree = gs[id].tree
      BY <2>2, <2>3 DEF Group
    <3>3. SameLabels(r, gs[id]) /\ SameLabels(gs[id], base)
      BY <2>2 DEF ToldNext, Told, SameLabels, Group
    <3>. HIDE DEF r
    <3>4. SameLabels(r, base)
      BY <3>3 DEF SameLabels
    <3>5. ToldNext(r, trees, t, base)
      BY <3>2, <3>4 DEF ToldNext, Told
    <3>. QED  BY <2>1, <3>1, <3>5 DEF r
  <2>5. CASE AtLeastTwo(k) /\ k # gs[id].tree
    <3>1. Settle(gs[id], k, t + 1) = [gs[id] EXCEPT !.tree = k, !.treeAt = t + 1]
      BY <2>5 DEF Settle
    <3>. DEFINE r == [gs[id] EXCEPT !.tree = k, !.treeAt = t + 1]
    <3>2. r \in Group /\ r.treeAt = t + 1
      BY <2>2, <2>3 DEF Group
    <3>3. SameLabels(r, gs[id]) /\ SameLabels(gs[id], base)
      BY <2>2 DEF ToldNext, Told, SameLabels, Group
    <3>. HIDE DEF r
    <3>4. SameLabels(r, base)
      BY <3>3 DEF SameLabels
    <3>. QED  BY <2>1, <3>1, <3>2, <3>4 DEF ToldNext, r
  <2>6. CASE AtLeastTwo(k) /\ k = gs[id].tree
    BY <2>1, <2>6 DEF Settle
  <2>. QED  BY <2>4, <2>5, <2>6
<1>. QED  BY <1>1, <1>2

\* What was told stays told when the log grows by the map of a new step.
LEMMA LogGrows ==
  ASSUME NEW log \in [GroupId -> [Nat -> SUBSET Key]], NEW t \in Nat, NEW gs,
         NEW base, NEW id \in GroupId
  PROVE  /\ \A g : Told(g, log[id], t, base) => Told(g, Logged(log, t + 1, gs)[id], t + 1, base)
         /\ ToldNext(gs[id], log[id], t, base) => Told(gs[id], Logged(log, t + 1, gs)[id], t + 1, base)
<1>. DEFINE new == Logged(log, t + 1, gs)[id]
<1>1. new = [log[id] EXCEPT ![t + 1] = gs[id].tree] /\ DOMAIN log[id] = Nat
  BY DEF Logged
<1>2. new[t + 1] = gs[id].tree /\ \A s \in Nat : s <= t => new[s] = log[id][s]
  BY <1>1
<1>. HIDE DEF new
<1>3. ASSUME NEW g, Told(g, log[id], t, base)
      PROVE  Told(g, new, t + 1, base)
  BY <1>2, <1>3 DEF Told, Group
<1>4. ASSUME ToldNext(gs[id], log[id], t, base)
      PROVE  Told(gs[id], new, t + 1, base)
  BY <1>2, <1>3, <1>4 DEF ToldNext, Told
<1>. QED  BY <1>3, <1>4 DEF new
=============================================================================
