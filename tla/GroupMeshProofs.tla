-------------------------- MODULE GroupMeshProofs --------------------------
(***************************************************************************)
(* Proofs about GroupMesh, for any number of servers, links, groups and    *)
(* keys, lanes of any depth, and any number of edits and lost links; the   *)
(* repair of a fresh link, for any mesh of one link.                       *)
(***************************************************************************)
EXTENDS GroupMesh, GroupRecordsProofs, SequenceTheorems

-----------------------------------------------------------------------------
(* The inductive invariant. *)

\* What a lane may hold: every message was made from a sound map.
Msg == {Delta(id, g) : id \in GroupId, g \in {x \in Group : WellFormed(x)}}
         \cup {Snapshot(gs) : gs \in {x \in [GroupId -> Group] : Enforceable(x)}}

\* Every lane holds messages of S, and no more of them than fit.
LanesFrom(lanes, S) ==
    lanes \in [Directions -> Seq(S)] /\ \A d \in Directions : Len(lanes[d]) <= LaneDepth

LaneOK(lanes) == LanesFrom(lanes, Msg)

StoresOK == store \in [Node -> [GroupId -> Group]]
            /\ \A n \in Node : Sound(store[n]) /\ ExclusiveIn(store[n])

\* MeshInv says nothing of the records in flight and of groups with fewer than
\* two keys, and is not inductive without them.
Inv ==
    /\ StoresOK
    /\ LaneOK(lane)
    /\ up \subseteq Link /\ fresh \subseteq up
    /\ now \in Nat /\ edits \in 0 .. MaxEdits /\ drops \in 0 .. MaxDrops

-----------------------------------------------------------------------------
(* Messages and lanes. *)

LEMMA DeltaIsMsg ==
  ASSUME NEW id \in GroupId, NEW g \in Group, WellFormed(g)
  PROVE  Delta(id, g) \in Msg
BY DEF Msg

LEMMA SnapshotIsMsg ==
  ASSUME NEW gs, SoundMap(gs)
  PROVE  Snapshot(gs) \in Msg
BY DEF Msg, SoundMap, Sound, Enforceable

\* What a receiver finds in a message.
LEMMA MsgFacts ==
  ASSUME NEW msg \in Msg
  PROVE  \/ msg.kind = "snapshot" /\ Enforceable(msg.groups)
         \/ msg.kind # "snapshot" /\ msg.id \in GroupId /\ msg.group \in Group /\ WellFormed(msg.group)
<1>1. CASE \E id \in GroupId, g \in {x \in Group : WellFormed(x)} : msg = Delta(id, g)
  BY <1>1 DEF Delta
<1>2. CASE \E gs \in {x \in [GroupId -> Group] : Enforceable(x)} : msg = Snapshot(gs)
  BY <1>2 DEF Snapshot
<1>. QED  BY <1>1, <1>2 DEF Msg

\* Enqueue keeps what a lane holds and its capacity, and drops what does not fit.
LEMMA EnqueueFacts ==
  ASSUME NEW S, NEW queue \in Seq(S), NEW msgs \in Seq(S)
  PROVE  LET e == Enqueue(queue, msgs)
         IN  /\ e \in Seq(S) /\ Len(e) <= LaneDepth
             /\ Len(queue) <= LaneDepth => Len(queue) <= Len(e)
             /\ \A i \in 1 .. Len(e) : IF i <= Len(queue) THEN e[i] = queue[i]
                                       ELSE \E j \in 1 .. Len(msgs) : e[i] = msgs[j]
<1>. DEFINE all == queue \o msgs
            k == Min({Len(all), LaneDepth})
<1>1. /\ all \in Seq(S) /\ Len(all) \in Nat /\ Len(all) = Len(queue) + Len(msgs)
      /\ Len(queue) \in Nat /\ Len(msgs) \in Nat
      /\ \A i \in 1 .. Len(all) : all[i] = IF i <= Len(queue) THEN queue[i] ELSE msgs[i - Len(queue)]
  BY ConcatProperties, LenProperties
<1>2. LaneDepth \in Nat
  BY MeshAssumption
<1>. HIDE DEF all
<1>3. k \in {Len(all), LaneDepth} /\ k <= Len(all) /\ k <= LaneDepth
  <2>1. \E x \in {Len(all), LaneDepth} : \A y \in {Len(all), LaneDepth} : x =< y
    <3>1. CASE Len(all) <= LaneDepth
      BY <1>1, <1>2, <3>1
    <3>2. CASE ~ Len(all) <= LaneDepth
      BY <1>1, <1>2, <3>2
    <3>. QED  BY <3>1, <3>2
  <2>. QED  BY <2>1 DEF Min
<1>. HIDE DEF k
<1>4. k \in Nat
  BY <1>1, <1>2, <1>3
<1>5. \A i \in 1 .. k : all[i] \in S
  BY <1>1, <1>3, <1>4, ElementOfSeq
<1>6. /\ SubSeq(all, 1, k) \in Seq(S) /\ Len(SubSeq(all, 1, k)) = IF 1 <= k THEN k - 1 + 1 ELSE 0
      /\ \A i \in 1 .. k - 1 + 1 : SubSeq(all, 1, k)[i] = all[1 + i - 1]
  BY <1>4, <1>5, SubSeqProperties
<1>7. Len(SubSeq(all, 1, k)) = k
  BY <1>4, <1>6
<1>8. ASSUME NEW i \in 1 .. k
      PROVE  IF i <= Len(queue) THEN SubSeq(all, 1, k)[i] = queue[i]
             ELSE \E j \in 1 .. Len(msgs) : SubSeq(all, 1, k)[i] = msgs[j]
  <2>1. SubSeq(all, 1, k)[i] = all[i] /\ i \in 1 .. Len(all)
    BY <1>1, <1>3, <1>4, <1>6
  <2>2. all[i] = IF i <= Len(queue) THEN queue[i] ELSE msgs[i - Len(queue)]
    BY <1>1, <2>1
  <2>3. ~ (i <= Len(queue)) => i - Len(queue) \in 1 .. Len(msgs)
    BY <1>1, <2>1
  <2>. QED  BY <2>1, <2>2, <2>3
<1>9. Len(queue) <= LaneDepth => Len(queue) <= k
  BY <1>1, <1>3
<1>10. Enqueue(queue, msgs) = SubSeq(all, 1, k)
  BY DEF Enqueue, all, k
<1>. QED  BY <1>3, <1>6, <1>7, <1>8, <1>9, <1>10

LEMMA FanoutFacts ==
  ASSUME NEW S, NEW lanes, LanesFrom(lanes, S), NEW n, NEW msgs \in Seq(S)
  PROVE  LanesFrom(Fanout(lanes, n, msgs), S)
<1>1. \A d \in Directions : lanes[d] \in Seq(S) /\ Len(lanes[d]) <= LaneDepth
  BY DEF LanesFrom
<1>2. \A d \in Directions : /\ Enqueue(lanes[d], msgs) \in Seq(S)
                            /\ Len(Enqueue(lanes[d], msgs)) <= LaneDepth
  BY <1>1, EnqueueFacts
<1>. QED  BY <1>1, <1>2 DEF Fanout, LanesFrom

\* The ids of changed groups, in the order a Go map yields them.
LEMMA ChangedIds ==
  ASSUME NEW before, NEW after, NEW ids \in SetToSeqs(Changed(before, after))
  PROVE  ids \in Seq(GroupId)
<1>. DEFINE S == Changed(before, after)
<1>1. S \subseteq GroupId /\ IsFiniteSet(S)
  BY RecordAssumption, FS_Subset DEF Changed
<1>2. Cardinality(S) \in Nat
  BY <1>1, FS_CardinalityType
<1>3. ids \in [1 .. Cardinality(S) -> S]
  BY DEF SetToSeqs
<1>. HIDE DEF S
<1>4. ids \in Seq(S)
  BY <1>2, <1>3, SeqDef
<1>. QED  BY <1>1, <1>4, SeqMonotonic

\* Deltas of a map's records are messages like those records.
LEMMA DeltasFrom ==
  ASSUME NEW gs, NEW S, \A id \in GroupId : Delta(id, gs[id]) \in S, NEW ids \in Seq(GroupId)
  PROVE  Deltas(gs, ids) \in Seq(S)
<1>1. Len(ids) \in Nat /\ DOMAIN ids = 1 .. Len(ids) /\ \A i \in 1 .. Len(ids) : ids[i] \in GroupId
  BY LenProperties, ElementOfSeq
<1>2. Deltas(gs, ids) \in [1 .. Len(ids) -> S]
  BY <1>1 DEF Deltas
<1>. QED  BY <1>1, <1>2, SeqDef

LEMMA DeltasFacts ==
  ASSUME NEW gs, SoundMap(gs), NEW ids \in Seq(GroupId)
  PROVE  Deltas(gs, ids) \in Seq(Msg)
<1>1. \A id \in GroupId : Delta(id, gs[id]) \in Msg
  BY DeltaIsMsg DEF SoundMap, Sound
<1>. QED  BY <1>1, DeltasFrom

\* A server that installs a sound, exclusive map.
LEMMA StoreWrite ==
  ASSUME StoresOK, NEW n \in Node, NEW after, SoundMap(after), ExclusiveIn(after),
         store' = [store EXCEPT ![n] = after]
  PROVE  StoresOK'
BY DEF StoresOK, SoundMap

LEMMA StoreFacts ==
  ASSUME StoresOK, NEW n \in Node
  PROVE  SoundMap(store[n]) /\ ExclusiveIn(store[n])
BY DEF StoresOK, SoundMap

\* What a receiver makes of a message.
LEMMA AppliedFacts ==
  ASSUME NEW gs, SoundMap(gs), ExclusiveIn(gs), NEW msg \in Msg, now \in Nat
  PROVE  LET after == AppliedWith(gs, msg)
         IN  SoundMap(after) /\ ExclusiveIn(after) /\ DeadStay(gs, after)
<1>. DEFINE after == AppliedWith(gs, msg)
<1>0. now + 1 \in Nat \ {0}
  OBVIOUS
<1>1. CASE after = gs
  BY <1>1 DEF DeadStay
<1>2. CASE after # gs
  <2>1. CASE msg.kind = "snapshot" /\ Enforceable(msg.groups)
    <3>1. after = AppliedSnapshot(gs, msg.groups, now + 1)
      BY <1>2, <2>1 DEF AppliedWith
    <3>2. Orders(gs, after)
      BY <1>0, <2>1, <3>1, ApplySnapshotOrders
    <3>. QED  BY <3>2 DEF Orders, KeepsOrder, SoundMap
  <2>2. CASE msg.kind # "snapshot" /\ msg.id \in GroupId /\ msg.group \in Group /\ WellFormed(msg.group)
    <3>1. after = AppliedDelta(gs, msg.id, msg.group, now + 1)
      BY <1>2, <2>2 DEF AppliedWith
    <3>2. Orders(gs, after)
      BY <1>0, <2>2, <3>1, ApplyRemoteOrders
    <3>. QED  BY <3>2 DEF Orders, KeepsOrder, SoundMap
  <2>. QED  BY <2>1, <2>2, MsgFacts
<1>. QED  BY <1>1, <1>2

-----------------------------------------------------------------------------
(* One lemma per action: it keeps the invariant and revives nothing. *)

\* What no step at any server may undo.
Buried == \A n \in Node : DeadStay(store[n], store'[n])

LEMMA InvInit == Init => Inv
<1>. SUFFICES ASSUME Init PROVE Inv
  OBVIOUS
<1>1. StoresOK
  BY MeshAssumption DEF Init, StoresOK, SoundMap
<1>2. LaneOK(lane)
  <2>1. LaneDepth \in Nat /\ <<>> \in Seq(Msg) /\ Len(<<>>) = 0
    BY MeshAssumption, EmptySeq
  <2>. QED  BY <2>1 DEF Init, LaneOK, LanesFrom
<1>3. up \subseteq Link /\ fresh \subseteq up /\ now \in Nat
  BY DEF Init
<1>4. edits \in 0 .. MaxEdits /\ drops \in 0 .. MaxDrops
  BY MeshAssumption DEF Init
<1>. QED  BY <1>1, <1>2, <1>3, <1>4 DEF Inv

LEMMA BuriedAt ==
  ASSUME StoresOK, NEW n \in Node, NEW after, DeadStay(store[n], after),
         store' = [store EXCEPT ![n] = after]
  PROVE  Buried
BY DEF StoresOK, Buried, DeadStay

LEMMA EditedFacts ==
  ASSUME Inv, Edited
  PROVE  /\ up' \subseteq Link /\ fresh' \subseteq up'
         /\ now' \in Nat /\ edits' \in 0 .. MaxEdits /\ drops' \in 0 .. MaxDrops
BY MeshAssumption DEF Inv, Edited

LEMMA SetTreeInv ==
  ASSUME Inv, NEW n \in Node, NEW id \in GroupId, NEW tree \in SUBSET Key, SetTree(n, id, tree)
  PROVE  Inv' /\ Buried
<1>. DEFINE written == [store[n] EXCEPT ![id].tree = tree, ![id].treeAt = now + 1]
            after   == Enforce(written, now + 1, id)
<1>0. StoresOK /\ LaneOK(lane) /\ now + 1 \in Nat \ {0} /\ SoundMap(store[n])
  BY StoreFacts DEF Inv
<1>1. Orders(store[n], after)
  BY <1>0, SetTreeOrders
<1>2. store' = [store EXCEPT ![n] = after] /\ Edited
  BY DEF SetTree
<1>3. PICK ids \in SetToSeqs(Changed(written, after)) :
           lane' = Fanout(lane, n, Deltas(after, Append(ids, id)))
  BY DEF SetTree
<1>. HIDE DEF after, written
<1>4. SoundMap(after) /\ ExclusiveIn(after) /\ DeadStay(store[n], after)
  BY <1>1 DEF Orders, KeepsOrder, SoundMap
<1>5. StoresOK' /\ Buried
  BY <1>0, <1>2, <1>4, StoreWrite, BuriedAt
<1>6. LaneOK(lane')
  <2>1. ids \in Seq(GroupId)
    BY ChangedIds
  <2>2. Append(ids, id) \in Seq(GroupId)
    BY <2>1, AppendProperties
  <2>3. Deltas(after, Append(ids, id)) \in Seq(Msg)
    BY <1>4, <2>2, DeltasFacts
  <2>. QED  BY <1>0, <1>3, <2>3, FanoutFacts DEF LaneOK
<1>. QED  BY <1>2, <1>5, <1>6, EditedFacts DEF Inv, LaneOK, LanesFrom

LEMMA DeleteInv ==
  ASSUME Inv, NEW n \in Node, NEW id \in GroupId, Delete(n, id)
  PROVE  Inv' /\ Buried
<1>. DEFINE after == [store[n] EXCEPT ![id].deletedAt = now + 1]
<1>0. StoresOK /\ LaneOK(lane) /\ now + 1 \in Nat \ {0} /\ SoundMap(store[n]) /\ ExclusiveIn(store[n])
  BY StoreFacts DEF Inv
<1>1. KeepsOrder(store[n], after)
  BY <1>0, DeleteKeepsOrder
<1>2. store' = [store EXCEPT ![n] = after] /\ Edited /\ lane' = Fanout(lane, n, Deltas(after, <<id>>))
  BY DEF Delete
<1>. HIDE DEF after
<1>3. SoundMap(after) /\ ExclusiveIn(after) /\ DeadStay(store[n], after)
  BY <1>0, <1>1 DEF KeepsOrder, SoundMap
<1>4. StoresOK' /\ Buried
  BY <1>0, <1>2, <1>3, StoreWrite, BuriedAt
<1>5. LaneOK(lane')
  <2>1. <<id>> \in Seq(GroupId)
    OBVIOUS
  <2>2. Deltas(after, <<id>>) \in Seq(Msg)
    BY <1>3, <2>1, DeltasFacts
  <2>. QED  BY <1>0, <1>2, <2>2, FanoutFacts DEF LaneOK
<1>. QED  BY <1>2, <1>4, <1>5, EditedFacts DEF Inv, LaneOK, LanesFrom

\* A connected peer is at the other end of a lane.
LEMMA PeersLane ==
  ASSUME up \subseteq Link, NEW n \in Node, NEW m \in Peers(n)
  PROVE  <<n, m>> \in Directions
<1>1. PICK l \in up : Ends(l) = {n, m} /\ n # m /\ m \in Node
  BY DEF Peers
<1>2. PICK a \in Node, b \in Node : l = <<a, b>>
  <2>1. l \in Node \X Node
    BY MeshAssumption
  <2>. QED  BY <2>1
<1>3. (a = n /\ b = m) \/ (a = m /\ b = n)
  <2>1. {a, b} = {n, m}
    BY <1>1, <1>2 DEF Ends
  <2>2. a \in {n, m} /\ b \in {n, m} /\ n \in {a, b} /\ m \in {a, b}
    BY <2>1
  <2>. QED  BY <1>1, <2>2
<1>4. CASE a = n /\ b = m
  BY <1>1, <1>2, <1>4 DEF Directions
<1>5. CASE a = m /\ b = n
  BY <1>1, <1>2, <1>5 DEF Directions
<1>. QED  BY <1>3, <1>4, <1>5

LEMMA ReceiveInv ==
  ASSUME Inv, NEW n \in Node, NEW m \in Node, Receive(n, m)
  PROVE  Inv' /\ Buried
<1>. DEFINE msg     == Head(lane[<<n, m>>])
            after   == AppliedWith(store[m], msg)
            merged  == MergedWith(store[m], msg)
            waiting == [lane EXCEPT ![<<n, m>>] = Tail(@)]
<1>0. /\ StoresOK /\ LaneOK(lane) /\ now \in Nat /\ SoundMap(store[m]) /\ ExclusiveIn(store[m])
      /\ up \subseteq Link /\ fresh \subseteq up
      /\ edits \in 0 .. MaxEdits /\ drops \in 0 .. MaxDrops
  BY StoreFacts DEF Inv
<1>1. <<n, m>> \in Directions
  BY <1>0, PeersLane DEF Receive
<1>2. lane[<<n, m>>] \in Seq(Msg) /\ lane[<<n, m>>] # <<>> /\ Len(lane[<<n, m>>]) <= LaneDepth
  BY <1>0, <1>1 DEF Receive, LaneOK, LanesFrom
<1>3. /\ msg \in Msg /\ Tail(lane[<<n, m>>]) \in Seq(Msg)
      /\ Len(Tail(lane[<<n, m>>])) = Len(lane[<<n, m>>]) - 1 /\ Len(lane[<<n, m>>]) \in Nat
  BY <1>2, HeadTailProperties, LenProperties
<1>4. SoundMap(after) /\ ExclusiveIn(after) /\ DeadStay(store[m], after)
  BY <1>0, <1>3, AppliedFacts
<1>5. LaneOK(waiting)
  <2>1. Len(Tail(lane[<<n, m>>])) <= LaneDepth
    BY <1>2, <1>3, MeshAssumption
  <2>. QED  BY <1>0, <1>3, <2>1 DEF LaneOK, LanesFrom
<1>6. /\ store' = [store EXCEPT ![m] = after]
      /\ now' = IF after = store[m] THEN now ELSE now + 1
      /\ UNCHANGED <<up, fresh, edits, drops>>
  BY DEF Receive
<1>7. PICK ids \in SetToSeqs(Changed(merged, after)) :
           lane' = IF <<m, n>> \in Link THEN Fanout(waiting, m, Deltas(after, ids)) ELSE waiting
  BY DEF Receive
<1>. HIDE DEF msg, after, merged, waiting
<1>8. StoresOK' /\ Buried
  BY <1>0, <1>4, <1>6, StoreWrite, BuriedAt
<1>9. LaneOK(lane')
  <2>1. ids \in Seq(GroupId)
    BY ChangedIds
  <2>2. Deltas(after, ids) \in Seq(Msg)
    BY <1>4, <2>1, DeltasFacts
  <2>3. LaneOK(Fanout(waiting, m, Deltas(after, ids)))
    BY <1>5, <2>2, FanoutFacts DEF LaneOK
  <2>. QED  BY <1>5, <1>7, <2>3
<1>10. now' \in Nat
  BY <1>0, <1>6
<1>. QED  BY <1>0, <1>6, <1>8, <1>9, <1>10 DEF Inv, LaneOK, LanesFrom

LEMMA LinkDownInv ==
  ASSUME Inv, NEW l \in Link, LinkDown(l)
  PROVE  Inv' /\ Buried
<1>1. LaneOK(lane')
  <2>1. LaneDepth \in Nat /\ <<>> \in Seq(Msg) /\ Len(<<>>) = 0
    BY MeshAssumption, EmptySeq
  <2>. QED  BY <2>1 DEF Inv, LinkDown, LaneOK, LanesFrom
<1>2. StoresOK' /\ Buried
  BY DEF Inv, LinkDown, StoresOK, Buried, DeadStay
<1>3. up' \subseteq Link /\ fresh' \subseteq up' /\ now' \in Nat /\ edits' \in 0 .. MaxEdits
  BY DEF Inv, LinkDown
<1>4. drops' \in 0 .. MaxDrops
  BY MeshAssumption DEF Inv, LinkDown
<1>. QED  BY <1>1, <1>2, <1>3, <1>4 DEF Inv, LaneOK, LanesFrom

LEMMA LinkUpInv ==
  ASSUME Inv, NEW l \in Link, LinkUp(l)
  PROVE  Inv' /\ Buried
<1>0. StoresOK /\ LaneOK(lane)
  BY DEF Inv
<1>1. LaneOK(lane')
  <2>1. ASSUME NEW d \in Directions
        PROVE  <<Snapshot(store[d[1]])>> \in Seq(Msg) /\ Len(<<Snapshot(store[d[1]])>>) <= LaneDepth
    <3>1. d[1] \in Node
      BY DEF Directions
    <3>2. Snapshot(store[d[1]]) \in Msg
      BY <1>0, <3>1, StoreFacts, SnapshotIsMsg
    <3>3. LaneDepth \in Nat \ {0}
      BY MeshAssumption
    <3>. QED  BY <3>2, <3>3
  <2>2. \A d \in Directions : lane[d] \in Seq(Msg) /\ Len(lane[d]) <= LaneDepth
    BY <1>0 DEF LaneOK, LanesFrom
  <2>. QED  BY <2>1, <2>2 DEF LinkUp, LaneOK, LanesFrom
<1>2. StoresOK' /\ Buried
  BY DEF Inv, LinkUp, StoresOK, Buried, DeadStay
<1>3. up' \subseteq Link /\ fresh' \subseteq up' /\ UNCHANGED <<now, edits, drops>>
  BY DEF Inv, LinkUp
<1>. QED  BY <1>1, <1>2, <1>3 DEF Inv, LaneOK, LanesFrom

LEMMA InvNext == Inv /\ [Next]_vars => Inv' /\ Buried
<1>. SUFFICES ASSUME Inv, [Next]_vars PROVE Inv' /\ Buried
  OBVIOUS
<1>1. CASE UNCHANGED vars
  BY <1>1 DEF vars, Inv, StoresOK, LaneOK, LanesFrom, Buried, DeadStay
<1>2. CASE Next
  BY <1>2, SetTreeInv, DeleteInv, ReceiveInv, LinkDownInv, LinkUpInv DEF Next
<1>. QED  BY <1>1, <1>2

-----------------------------------------------------------------------------
(* The theorems. *)

\* Every store of the mesh is sound and exclusive, and so is every map and
\* record in flight.
THEOREM Invariant == Spec => []Inv
<1>1. Inv /\ [Next]_vars => Inv'
  BY InvNext
<1>. QED  BY <1>1, InvInit, PTL DEF Spec

\* At every server and at every moment, between the deltas of one edit too, a
\* session is shown in at most one group, and no lane of a PeerConnection
\* exceeds its capacity: for any mesh, not only two servers.
THEOREM MeshExclusive == Spec => []MeshInv
<1>1. Inv => MeshInv
  <2>. SUFFICES ASSUME Inv PROVE MeshInv
    OBVIOUS
  <2>1. TypeOK
    BY DEF Inv, StoresOK, LaneOK, LanesFrom, TypeOK
  <2>2. ASSUME NEW n \in Node, NEW i \in GroupId, NEW j \in GroupId, i # j
        PROVE  View(store[n])[i] \cap View(store[n])[j] = {}
    BY <2>2 DEF Inv, StoresOK, ExclusiveIn, View
  <2>. QED  BY <2>1, <2>2 DEF MeshInv, ExclusiveEverywhere
<1>. QED  BY <1>1, Invariant, PTL

\* A tombstone stays at the server that has it, whatever deltas and snapshots
\* its peers send, in whatever order.
THEOREM DeletedStaysDeleted == Spec => NoResurrection
<1>1. Inv /\ [Next]_vars =>
        [\A n \in Node, id \in GroupId :
            store[n][id].deletedAt > 0 => store'[n][id].deletedAt > 0]_vars
  BY InvNext DEF Buried, DeadStay
<1>. QED  BY <1>1, Invariant, PTL DEF Spec, NoResurrection

-----------------------------------------------------------------------------
(* Stamps tell: one log explains every tree that a server has or has sent. *)

ToldMsg(log, t, base) ==
    {msg \in Msg : IF msg.kind = "snapshot" THEN ToldMap(msg.groups, log, t, base)
                   ELSE Told(msg.group, log[msg.id], t, base[msg.id])}

AllTold(log, base) ==
    /\ \A n \in Node : ToldMap(store[n], log, now, base)
    /\ LanesFrom(lane, ToldMsg(log, now, base))

TreeLog == [GroupId -> [Nat -> SUBSET Key]]

StampsTell == \E log \in TreeLog, base \in [GroupId -> Group] : AllTold(log, base)

\* Any message of a larger set may be in a lane.
LEMMA LanesMonotonic ==
  ASSUME NEW lanes, NEW S, NEW T, S \subseteq T, LanesFrom(lanes, S)
  PROVE  LanesFrom(lanes, T)
<1>1. Seq(S) \subseteq Seq(T)
  BY SeqMonotonic
<1>. QED  BY <1>1 DEF LanesFrom

\* Deltas of a map that is told are told.
LEMMA ToldDeltas ==
  ASSUME NEW gs, SoundMap(gs), NEW log, NEW t, NEW base, ToldMap(gs, log, t, base),
         NEW ids \in Seq(GroupId)
  PROVE  Deltas(gs, ids) \in Seq(ToldMsg(log, t, base))
<1>1. ASSUME NEW id \in GroupId
      PROVE  Delta(id, gs[id]) \in ToldMsg(log, t, base)
  <2>1. Delta(id, gs[id]) \in Msg
    BY DeltaIsMsg DEF SoundMap, Sound
  <2>2. Told(gs[id], log[id], t, base[id])
    BY DEF ToldMap
  <2>. QED  BY <2>1, <2>2 DEF ToldMsg, Delta
<1>. QED  BY <1>1, DeltasFrom

\* The log grows by the map that a step wrote.
LEMMA LogGrowsInLanes ==
  ASSUME NEW log \in TreeLog, NEW t \in Nat, NEW base, NEW gs \in [GroupId -> Group]
  PROVE  /\ Logged(log, t + 1, gs) \in TreeLog
         /\ ToldMsg(log, t, base) \subseteq ToldMsg(Logged(log, t + 1, gs), t + 1, base)
         /\ \A hs : ToldMap(hs, log, t, base) => ToldMap(hs, Logged(log, t + 1, gs), t + 1, base)
<1>. DEFINE new == Logged(log, t + 1, gs)
<1>1. new \in TreeLog
  <2>1. \A id \in GroupId : gs[id].tree \in SUBSET Key
    BY DEF Group
  <2>. QED  BY <2>1 DEF Logged, TreeLog
<1>2. ASSUME NEW id \in GroupId, NEW g, Told(g, log[id], t, base[id])
      PROVE  Told(g, new[id], t + 1, base[id])
  BY <1>2, LogGrows DEF TreeLog
<1>. HIDE DEF new
<1>3. ASSUME NEW hs, ToldMap(hs, log, t, base)
      PROVE  ToldMap(hs, new, t + 1, base)
  BY <1>2, <1>3 DEF ToldMap
<1>4. ASSUME NEW msg \in ToldMsg(log, t, base)
      PROVE  msg \in ToldMsg(new, t + 1, base)
  BY <1>2, <1>3, MsgFacts DEF ToldMsg
<1>. QED  BY <1>1, <1>3, <1>4 DEF new

\* One server writes a map, drawn from what is told and the new moment, and may
\* send records of it.
LEMMA WriteTells ==
  ASSUME Inv, NEW log \in TreeLog, NEW base \in [GroupId -> Group], AllTold(log, base),
         NEW n \in Node, NEW after, SoundMap(after),
         \A id \in GroupId : ToldNext(after[id], log[id], now, base[id]),
         store' = [store EXCEPT ![n] = after], now' = now + 1,
         NEW waiting, LanesFrom(waiting, ToldMsg(log, now, base)), NEW ids \in Seq(GroupId),
         lane' \in {waiting, Fanout(waiting, n, Deltas(after, ids))}
  PROVE  StampsTell'
<1>. DEFINE new == Logged(log, now + 1, after)
<1>0. now \in Nat /\ after \in [GroupId -> Group]
  BY DEF Inv, SoundMap
<1>1. new \in TreeLog /\ ToldMsg(log, now, base) \subseteq ToldMsg(new, now + 1, base)
  BY <1>0, LogGrowsInLanes
<1>2. ToldMap(after, new, now + 1, base)
  BY <1>0, LogGrows DEF ToldMap, TreeLog
<1>3. \A m \in Node : ToldMap(store[m], new, now + 1, base)
  BY <1>0, LogGrowsInLanes DEF AllTold
<1>. HIDE DEF new
<1>4. \A m \in Node : ToldMap(store'[m], new, now', base)
  BY <1>2, <1>3 DEF Inv, StoresOK
<1>5. Deltas(after, ids) \in Seq(ToldMsg(new, now + 1, base))
  BY <1>2, ToldDeltas
<1>6. LanesFrom(waiting, ToldMsg(new, now + 1, base))
  BY <1>1, LanesMonotonic
<1>7. LanesFrom(lane', ToldMsg(new, now', base))
  BY <1>5, <1>6, FanoutFacts
<1>. QED  BY <1>1, <1>4, <1>7 DEF StampsTell, AllTold

\* The map that all servers start from explains itself.
LEMMA InitTells == Init => StampsTell
<1>. SUFFICES ASSUME Init PROVE StampsTell
  OBVIOUS
<1>1. PICK gs \in StartGroups : store = [n \in Node |-> gs]
  BY DEF Init
<1>2. gs \in [GroupId -> Group] /\ now = 2 /\ \A id \in GroupId : gs[id].treeAt <= 2
  BY MeshAssumption DEF SoundMap, Init
<1>. DEFINE log == [id \in GroupId |-> [s \in Nat |-> gs[id].tree]]
<1>3. log \in TreeLog /\ ToldMap(gs, log, now, gs)
  BY <1>2 DEF TreeLog, ToldMap, Told, SameLabels, Group
<1>. HIDE DEF log
<1>4. LanesFrom(lane, ToldMsg(log, now, gs))
  <2>1. LaneDepth \in Nat /\ <<>> \in Seq(ToldMsg(log, now, gs)) /\ Len(<<>>) = 0
    BY MeshAssumption, EmptySeq
  <2>. QED  BY <2>1 DEF Init, LanesFrom
<1>. QED  BY <1>1, <1>2, <1>3, <1>4 DEF StampsTell, AllTold

\* One lemma per action: its trees are logged under the moment it happens.
LEMMA SetTreeTells ==
  ASSUME Inv, StampsTell, NEW n \in Node, NEW id \in GroupId, NEW tree \in SUBSET Key,
         SetTree(n, id, tree)
  PROVE  StampsTell'
<1>. DEFINE written == [store[n] EXCEPT ![id].tree = tree, ![id].treeAt = now + 1]
            after   == Enforce(written, now + 1, id)
<1>1. PICK log \in TreeLog, base \in [GroupId -> Group] : AllTold(log, base)
  BY DEF StampsTell
<1>2. /\ now \in Nat /\ now + 1 \in Nat \ {0} /\ SoundMap(store[n])
      /\ \A k \in GroupId : store[n][k] \in Group /\ WellFormed(store[n][k])
  BY StoreFacts DEF Inv, SoundMap, Sound
<1>3. /\ store' = [store EXCEPT ![n] = after] /\ now' = now + 1
      /\ \E ids \in SetToSeqs(Changed(written, after)) :
            lane' = Fanout(lane, n, Deltas(after, Append(ids, id)))
  BY DEF SetTree, Edited
<1>4. PICK ids \in Seq(GroupId) : lane' = Fanout(lane, n, Deltas(after, ids))
  BY <1>3, ChangedIds, AppendProperties
<1>5. SoundMap(after)
  BY <1>2, SetTreeOrders DEF Orders, KeepsOrder, SoundMap
<1>6. Enforceable(written) /\ \A k \in GroupId : ToldNext(written[k], log[k], now, base[k])
  <2>. DEFINE r == [store[n][id] EXCEPT !.tree = tree, !.treeAt = now + 1]
  <2>1. r \in Group /\ WellFormed(r)
    BY <1>2, TreeWriteFacts
  <2>2. \A k \in GroupId : Told(store[n][k], log[k], now, base[k])
    BY <1>1 DEF AllTold, ToldMap
  <2>3. r.treeAt = now + 1 /\ SameLabels(r, store[n][id])
    BY <1>2 DEF SameLabels, Group
  <2>4. written = [store[n] EXCEPT ![id] = r]
    BY <1>2 DEF SoundMap
  <2>. HIDE DEF r, written
  <2>5. ToldNext(r, log[id], now, base[id])
    BY <2>1, <2>2, <2>3 DEF ToldNext, Told, SameLabels
  <2>6. Enforceable(written)
    BY <1>2, <2>1, <2>4 DEF Enforceable, SoundMap
  <2>. QED  BY <1>2, <2>2, <2>4, <2>5, <2>6 DEF ToldNext, SoundMap
<1>7. \A k \in GroupId : ToldNext(after[k], log[k], now, base[k])
  BY <1>2, <1>6, EnforceTold
<1>. HIDE DEF after, written
<1>. QED  BY <1>1, <1>3, <1>4, <1>5, <1>7, WriteTells DEF AllTold

LEMMA DeleteTells ==
  ASSUME Inv, StampsTell, NEW n \in Node, NEW id \in GroupId, Delete(n, id)
  PROVE  StampsTell'
<1>. DEFINE after == [store[n] EXCEPT ![id].deletedAt = now + 1]
<1>1. PICK log \in TreeLog, base \in [GroupId -> Group] : AllTold(log, base)
  BY DEF StampsTell
<1>2. now \in Nat /\ now + 1 \in Nat \ {0} /\ SoundMap(store[n]) /\ ExclusiveIn(store[n])
  BY StoreFacts DEF Inv
<1>3. /\ store' = [store EXCEPT ![n] = after] /\ now' = now + 1
      /\ lane' = Fanout(lane, n, Deltas(after, <<id>>))
  BY DEF Delete, Edited
<1>4. SoundMap(after)
  BY <1>2, DeleteKeepsOrder DEF KeepsOrder, SoundMap
<1>5. ASSUME NEW k \in GroupId
      PROVE  ToldNext(after[k], log[k], now, base[k])
  <2>1. Told(store[n][k], log[k], now, base[k]) /\ store[n][k] \in Group
    BY <1>1, <1>2 DEF AllTold, ToldMap, SoundMap
  <2>2. after[k] \in Group
    BY <1>4 DEF SoundMap
  <2>3. after[k].tree = store[n][k].tree /\ after[k].treeAt = store[n][k].treeAt
        /\ SameLabels(after[k], store[n][k])
    BY <1>2, <2>1 DEF SoundMap, SameLabels, Group
  <2>. QED  BY <2>1, <2>2, <2>3 DEF ToldNext, Told, SameLabels
<1>. HIDE DEF after
<1>6. <<id>> \in Seq(GroupId)
  OBVIOUS
<1>. QED  BY <1>1, <1>3, <1>4, <1>5, <1>6, WriteTells DEF AllTold

\* What a receiver makes of a message is one enforcement of the merge: where the
\* code returns early, enforcement would have changed nothing.
LEMMA AppliedForm ==
  ASSUME NEW gs, SoundMap(gs), ExclusiveIn(gs), NEW msg \in Msg
  PROVE  /\ Enforceable(MergedWith(gs, msg))
         /\ \E w : /\ AppliedWith(gs, msg) = Enforce(MergedWith(gs, msg), now + 1, w)
                   /\ msg.kind = "snapshot" => w = NoWinner
<1>. DEFINE merged == MergedWith(gs, msg)
<1>0. Enforceable(gs)
  BY DEF SoundMap, Sound, Enforceable
<1>1. CASE msg.kind = "snapshot" /\ Enforceable(msg.groups)
  <2>1. merged = Joined(gs, msg.groups)
    BY <1>1 DEF MergedWith, Joined
  <2>2. Enforceable(merged)
    BY <1>0, <1>1, <2>1, JoinedFacts
  <2>3. CASE merged = gs
    <3>1. AppliedWith(gs, msg) = gs /\ Enforce(merged, now + 1, NoWinner) = gs
      BY <2>3, EnforceFixed DEF AppliedWith
    <3>. QED  BY <2>2, <3>1
  <2>4. CASE merged # gs
    <3>1. AppliedWith(gs, msg) = Enforce(merged, now + 1, NoWinner)
      BY <1>1, <2>1, <2>4 DEF AppliedWith, AppliedSnapshot, Joined
    <3>. QED  BY <2>2, <3>1
  <2>. QED  BY <2>3, <2>4
<1>2. CASE msg.kind # "snapshot" /\ msg.id \in GroupId /\ msg.group \in Group /\ WellFormed(msg.group)
  <2>1. merged = [gs EXCEPT ![msg.id] = Merge(gs[msg.id], msg.group)]
    BY <1>2 DEF MergedWith
  <2>2. Enforceable(merged)
    <3>1. gs[msg.id] \in Group /\ WellFormed(gs[msg.id])
      BY <1>0, <1>2 DEF Enforceable
    <3>2. Merge(gs[msg.id], msg.group) \in Group /\ WellFormed(Merge(gs[msg.id], msg.group))
      BY <1>2, <3>1, MergeFacts
    <3>. QED  BY <1>0, <1>2, <2>1, <3>2 DEF Enforceable
  <2>3. CASE merged = gs
    <3>1. AppliedWith(gs, msg) = gs /\ Enforce(merged, now + 1, NoWinner) = gs
      BY <2>3, EnforceFixed DEF AppliedWith
    <3>. QED  BY <1>2, <2>2, <3>1
  <2>4. CASE merged # gs
    <3>1. AppliedWith(gs, msg) = AppliedDelta(gs, msg.id, msg.group, now + 1)
      BY <1>2, <2>4 DEF AppliedWith
    <3>2. \E w : AppliedDelta(gs, msg.id, msg.group, now + 1) = Enforce(merged, now + 1, w)
      BY <2>1 DEF AppliedDelta
    <3>. QED  BY <1>2, <2>2, <3>1, <3>2
  <2>. QED  BY <2>3, <2>4
<1>. QED  BY <1>1, <1>2, MsgFacts

LEMMA ReceiveTells ==
  ASSUME Inv, StampsTell, NEW n \in Node, NEW m \in Node, Receive(n, m)
  PROVE  StampsTell'
<1>. DEFINE msg     == Head(lane[<<n, m>>])
            after   == AppliedWith(store[m], msg)
            merged  == MergedWith(store[m], msg)
            waiting == [lane EXCEPT ![<<n, m>>] = Tail(@)]
<1>1. PICK log \in TreeLog, base \in [GroupId -> Group] : AllTold(log, base)
  BY DEF StampsTell
<1>. DEFINE S == ToldMsg(log, now, base)
<1>2. now \in Nat /\ SoundMap(store[m]) /\ ExclusiveIn(store[m]) /\ up \subseteq Link
  BY StoreFacts DEF Inv
<1>3. <<n, m>> \in Directions /\ lane[<<n, m>>] # <<>>
  BY <1>2, PeersLane DEF Receive
<1>4. /\ msg \in S /\ msg \in Msg /\ Tail(lane[<<n, m>>]) \in Seq(S)
      /\ Len(Tail(lane[<<n, m>>])) <= LaneDepth
  <2>1. lane[<<n, m>>] \in Seq(S) /\ Len(lane[<<n, m>>]) <= LaneDepth /\ LaneDepth \in Nat
    BY <1>1, <1>3, MeshAssumption DEF AllTold, LanesFrom
  <2>2. /\ Head(lane[<<n, m>>]) \in S /\ Tail(lane[<<n, m>>]) \in Seq(S)
        /\ Len(Tail(lane[<<n, m>>])) = Len(lane[<<n, m>>]) - 1 /\ Len(lane[<<n, m>>]) \in Nat
    BY <1>3, <2>1, HeadTailProperties, LenProperties
  <2>3. S \subseteq Msg
    BY DEF ToldMsg
  <2>4. Len(Tail(lane[<<n, m>>])) <= LaneDepth
    BY <2>1, <2>2
  <2>. QED  BY <2>2, <2>3, <2>4
<1>5. LanesFrom(waiting, S)
  BY <1>1, <1>4 DEF AllTold, LanesFrom
<1>6. /\ store' = [store EXCEPT ![m] = after]
      /\ now' = IF after = store[m] THEN now ELSE now + 1
      /\ \E ids \in SetToSeqs(Changed(merged, after)) :
            lane' = IF <<m, n>> \in Link THEN Fanout(waiting, m, Deltas(after, ids)) ELSE waiting
  BY DEF Receive
<1>7. PICK ids \in Seq(GroupId) : lane' \in {waiting, Fanout(waiting, m, Deltas(after, ids))}
  BY <1>6, ChangedIds
<1>8. SoundMap(after)
  BY <1>2, <1>4, AppliedFacts
<1>9. \A id \in GroupId : Told(store[m][id], log[id], now, base[id])
  BY <1>1 DEF AllTold, ToldMap
<1>10. \A id \in GroupId : Told(merged[id], log[id], now, base[id])
  <2>1. CASE msg.kind = "snapshot"
    <3>1. \A id \in GroupId : Told(msg.groups[id], log[id], now, base[id])
      BY <1>4, <2>1 DEF ToldMsg, ToldMap
    <3>2. \A id \in GroupId : merged[id] = Merge(store[m][id], msg.groups[id])
      BY <2>1 DEF MergedWith
    <3>. QED  BY <1>9, <3>1, <3>2, MergeTold
  <2>2. CASE msg.kind # "snapshot"
    <3>1. Told(msg.group, log[msg.id], now, base[msg.id]) /\ msg.id \in GroupId
      BY <1>4, <2>2, MsgFacts DEF ToldMsg
    <3>2. merged = [store[m] EXCEPT ![msg.id] = Merge(store[m][msg.id], msg.group)]
      BY <2>2 DEF MergedWith
    <3>3. Told(Merge(store[m][msg.id], msg.group), log[msg.id], now, base[msg.id])
      BY <1>9, <3>1, MergeTold
    <3>. QED  BY <1>2, <1>9, <3>1, <3>2, <3>3 DEF SoundMap
  <2>. QED  BY <2>1, <2>2
<1>11. \A id \in GroupId : ToldNext(after[id], log[id], now, base[id])
  <2>1. Enforceable(merged) /\ \E w : after = Enforce(merged, now + 1, w)
    BY <1>2, <1>4, AppliedForm
  <2>. HIDE DEF merged, after
  <2>2. \A id \in GroupId : ToldNext(merged[id], log[id], now, base[id])
    BY <1>10 DEF ToldNext
  <2>. QED  BY <1>2, <2>1, <2>2, EnforceTold
<1>. HIDE DEF msg, after, merged, waiting
<1>12. CASE after # store[m]
  BY <1>1, <1>5, <1>6, <1>7, <1>8, <1>11, <1>12, WriteTells
<1>13. CASE after = store[m]
  <2>1. store' = store /\ now' = now
    BY <1>6, <1>13 DEF Inv, StoresOK
  <2>2. Deltas(after, ids) \in Seq(S)
    BY <1>1, <1>8, <1>13, ToldDeltas DEF AllTold
  <2>3. LanesFrom(lane', S)
    BY <1>5, <1>7, <2>2, FanoutFacts
  <2>. QED  BY <1>1, <2>1, <2>3 DEF StampsTell, AllTold
<1>. QED  BY <1>12, <1>13

LEMMA LinkDownTells ==
  ASSUME StampsTell, NEW l \in Link, LinkDown(l)
  PROVE  StampsTell'
<1>1. PICK log \in TreeLog, base \in [GroupId -> Group] : AllTold(log, base)
  BY DEF StampsTell
<1>. DEFINE S == ToldMsg(log, now, base)
<1>2. LaneDepth \in Nat /\ <<>> \in Seq(S) /\ Len(<<>>) = 0
  BY MeshAssumption, EmptySeq
<1>3. LanesFrom(lane', S)
  BY <1>1, <1>2 DEF LinkDown, AllTold, LanesFrom
<1>. QED  BY <1>1, <1>3 DEF LinkDown, StampsTell, AllTold

LEMMA LinkUpTells ==
  ASSUME Inv, StampsTell, NEW l \in Link, LinkUp(l)
  PROVE  StampsTell'
<1>1. PICK log \in TreeLog, base \in [GroupId -> Group] : AllTold(log, base)
  BY DEF StampsTell
<1>. DEFINE S == ToldMsg(log, now, base)
<1>2. ASSUME NEW d \in Directions
      PROVE  <<Snapshot(store[d[1]])>> \in Seq(S) /\ Len(<<Snapshot(store[d[1]])>>) <= LaneDepth
  <2>1. d[1] \in Node
    BY DEF Directions
  <2>2. Snapshot(store[d[1]]) \in Msg /\ ToldMap(store[d[1]], log, now, base)
    BY <1>1, <2>1, StoreFacts, SnapshotIsMsg DEF AllTold, Inv
  <2>3. Snapshot(store[d[1]]) \in S
    BY <2>2 DEF ToldMsg, Snapshot
  <2>4. LaneDepth \in Nat \ {0}
    BY MeshAssumption
  <2>. HIDE DEF S
  <2>. QED  BY <2>3, <2>4
<1>3. \A d \in Directions : lane[d] \in Seq(S) /\ Len(lane[d]) <= LaneDepth
  BY <1>1 DEF AllTold, LanesFrom
<1>. HIDE DEF S
<1>4. LanesFrom(lane', S)
  BY <1>2, <1>3 DEF LinkUp, LanesFrom
<1>. QED  BY <1>1, <1>4 DEF LinkUp, StampsTell, AllTold, S

\* No step makes two trees of one stamp.
LEMMA TellsNext == Inv /\ StampsTell /\ [Next]_vars => StampsTell'
<1>. SUFFICES ASSUME Inv, StampsTell, [Next]_vars PROVE StampsTell'
  OBVIOUS
<1>1. CASE UNCHANGED vars
  BY <1>1 DEF vars, StampsTell, AllTold
<1>2. CASE Next
  BY <1>2, SetTreeTells, DeleteTells, ReceiveTells, LinkDownTells, LinkUpTells DEF Next
<1>. QED  BY <1>1, <1>2

-----------------------------------------------------------------------------
(* One link: what its lanes hold tells how far the exchange has come. *)

OneLink == \A l, k \in Link : l = k

\* What is in flight behind the snapshots only repeats the sender's map.
DeltasOf(queue, gs) ==
    \A i \in DOMAIN queue : queue[i].kind # "snapshot" /\ Alike(queue[i].group, gs[queue[i].id])

\* The dialer has gs, the listener hs; out is the dialer's lane, back the
\* listener's.
BothWait(gs, hs, out, back) == out = <<Snapshot(gs)>> /\ back = <<Snapshot(hs)>>

DialerWaits(gs, hs, out, back) ==
    /\ out = <<>> /\ Len(back) = 1
    /\ back[1].kind = "snapshot" /\ AlikeMaps(hs, Settled(gs, back[1].groups))

ListenerWaits(gs, hs, out, back) ==
    /\ back = <<>> /\ out # <<>> /\ DeltasOf(Tail(out), gs)
    /\ out[1].kind = "snapshot" /\ AlikeMaps(gs, Settled(hs, out[1].groups))

Exchanged(gs, hs, out, back) == back = <<>> /\ DeltasOf(out, gs) /\ AlikeMaps(gs, hs)

Exchange(gs, hs, out, back) ==
    \/ BothWait(gs, hs, out, back)
    \/ DialerWaits(gs, hs, out, back)
    \/ ListenerWaits(gs, hs, out, back)
    \/ Exchanged(gs, hs, out, back)

RepairInv ==
    \A l \in fresh : Exchange(store[l[1]], store[l[2]], lane[<<l[1], l[2]>>], lane[<<l[2], l[1]>>])

\* Being alike is symmetric and transitive.
LEMMA AlikeOrder ==
  ASSUME NEW gs, NEW hs, AlikeMaps(gs, hs)
  PROVE  AlikeMaps(hs, gs) /\ \A fs : AlikeMaps(hs, fs) => AlikeMaps(gs, fs)
BY DEF AlikeMaps, Alike

\* A server that takes a snapshot comes to show what it settles to.
LEMMA SnapshotApplied ==
  ASSUME NEW gs, SoundMap(gs), ExclusiveIn(gs), NEW msg \in Msg, msg.kind = "snapshot", now \in Nat
  PROVE  AlikeMaps(AppliedWith(gs, msg), Settled(gs, msg.groups))
<1>1. Enforceable(MergedWith(gs, msg)) /\ AppliedWith(gs, msg) = Enforce(MergedWith(gs, msg), now + 1, NoWinner)
  BY AppliedForm
<1>2. MergedWith(gs, msg) = Joined(gs, msg.groups)
  BY DEF MergedWith, Joined
<1>3. now + 1 \in Nat \ {0} /\ 1 \in Nat \ {0}
  OBVIOUS
<1>. QED  BY <1>1, <1>2, <1>3, EnforceAlike DEF Settled

\* A delta that repeats what a server shows changes nothing there.
LEMMA DeltaApplied ==
  ASSUME NEW gs, SoundMap(gs), ExclusiveIn(gs), NEW msg \in Msg, msg.kind # "snapshot",
         Alike(msg.group, gs[msg.id])
  PROVE  AlikeMaps(AppliedWith(gs, msg), gs)
<1>. DEFINE merged == MergedWith(gs, msg)
<1>1. msg.id \in GroupId /\ msg.group \in Group /\ gs \in [GroupId -> Group]
  BY MsgFacts DEF SoundMap
<1>2. merged = [gs EXCEPT ![msg.id] = Merge(gs[msg.id], msg.group)]
  BY DEF MergedWith
<1>3. Enforceable(merged) /\ \E w : AppliedWith(gs, msg) = Enforce(merged, now + 1, w)
  BY AppliedForm
<1>4. Alike(Merge(gs[msg.id], msg.group), gs[msg.id])
  BY <1>1, MergeAlike
<1>5. AlikeMaps(merged, gs)
  BY <1>1, <1>2, <1>4 DEF AlikeMaps, Alike
<1>. HIDE DEF merged
<1>6. SoundMap(merged) /\ ExclusiveIn(merged)
  BY <1>3, <1>5, AlikeFacts
<1>. QED  BY <1>3, <1>5, <1>6, EnforceFixed

\* Of maps whose stamps tell, it does not matter who settles with whom.
LEMMA SettledCommutes ==
  ASSUME NEW gs \in [GroupId -> Group], NEW hs \in [GroupId -> Group],
         \A id \in GroupId : Agree(gs[id], hs[id])
  PROVE  Settled(gs, hs) = Settled(hs, gs)
<1>1. \A id \in GroupId : Merge(gs[id], hs[id]) = Merge(hs[id], gs[id])
  BY MergeCommutes
<1>2. Joined(gs, hs) = Joined(hs, gs)
  BY <1>1 DEF Joined
<1>. QED  BY <1>2 DEF Settled

\* A lane of one message.
LEMMA OneMessage ==
  ASSUME NEW msg
  PROVE  /\ <<msg>> # <<>> /\ Len(<<msg>>) = 1 /\ <<msg>>[1] = msg
         /\ Head(<<msg>>) = msg /\ Tail(<<msg>>) = <<>>
OBVIOUS

\* The listener handles a message: it tells nobody.
LEMMA ListenerHears ==
  ASSUME NEW gs, SoundMap(gs), ExclusiveIn(gs), NEW hs, SoundMap(hs), ExclusiveIn(hs),
         \A id \in GroupId : Agree(gs[id], hs[id]), now \in Nat,
         NEW out \in Seq(Msg), out # <<>>, NEW back, Exchange(gs, hs, out, back)
  PROVE  Exchange(gs, AppliedWith(hs, Head(out)), Tail(out), back)
<1>. DEFINE msg == Head(out)
            after == AppliedWith(hs, msg)
<1>0. /\ msg \in Msg /\ msg = out[1] /\ DOMAIN out = 1 .. Len(out) /\ 1 \in DOMAIN out
      /\ DOMAIN Tail(out) = 1 .. Len(out) - 1 /\ Len(out) \in Nat
      /\ \A i \in 1 .. Len(out) - 1 : Tail(out)[i] = out[i + 1]
  BY HeadTailProperties, LenProperties, EmptySeq
<1>1. CASE BothWait(gs, hs, out, back)
  <2>1. msg = Snapshot(gs) /\ Tail(out) = <<>>
    BY <1>1, OneMessage DEF BothWait
  <2>2. msg.kind = "snapshot" /\ msg.groups = gs
    BY <2>1 DEF Snapshot
  <2>3. AlikeMaps(after, Settled(hs, gs))
    BY <1>0, <2>2, SnapshotApplied
  <2>4. Settled(hs, gs) = Settled(gs, hs)
    BY SettledCommutes DEF SoundMap
  <2>5. Len(back) = 1 /\ back[1].kind = "snapshot" /\ back[1].groups = hs
    BY <1>1, OneMessage DEF BothWait, Snapshot
  <2>. QED  BY <2>1, <2>3, <2>4, <2>5 DEF DialerWaits, Exchange
<1>2. CASE DialerWaits(gs, hs, out, back)
  BY <1>2 DEF DialerWaits
<1>3. CASE ListenerWaits(gs, hs, out, back)
  <2>1. AlikeMaps(after, Settled(hs, msg.groups)) /\ AlikeMaps(gs, Settled(hs, msg.groups))
    BY <1>0, <1>3, SnapshotApplied DEF ListenerWaits
  <2>2. AlikeMaps(gs, after)
    BY <2>1, AlikeOrder
  <2>. QED  BY <1>3, <2>2 DEF ListenerWaits, Exchanged, Exchange
<1>4. CASE Exchanged(gs, hs, out, back)
  <2>1. msg.kind # "snapshot" /\ Alike(msg.group, gs[msg.id])
    BY <1>0, <1>4 DEF Exchanged, DeltasOf
  <2>2. msg.id \in GroupId
    BY <1>0, <2>1, MsgFacts
  <2>3. Alike(msg.group, hs[msg.id])
    BY <1>4, <2>1, <2>2 DEF Exchanged, AlikeMaps, Alike
  <2>4. AlikeMaps(after, hs)
    BY <1>0, <2>1, <2>3, DeltaApplied
  <2>5. AlikeMaps(gs, after)
    BY <1>4, <2>4, AlikeOrder DEF Exchanged
  <2>6. DeltasOf(Tail(out), gs)
    <3>1. \A i \in 1 .. Len(out) - 1 : i + 1 \in 1 .. Len(out)
      BY <1>0
    <3>. QED  BY <1>0, <1>4, <3>1 DEF Exchanged, DeltasOf
  <2>. QED  BY <1>4, <2>5, <2>6 DEF Exchanged, Exchange
<1>. QED  BY <1>1, <1>2, <1>3, <1>4 DEF Exchange

\* The deltas of a map repeat it, behind whatever was queued before.
LEMMA QueueRepeats ==
  ASSUME NEW gs, NEW ids \in Seq(GroupId), NEW queue \in Seq(Msg), Len(queue) <= LaneDepth,
         Deltas(gs, ids) \in Seq(Msg)
  PROVE  LET e == Enqueue(queue, Deltas(gs, ids))
         IN  /\ e \in Seq(Msg) /\ Len(queue) <= Len(e)
             /\ \A i \in DOMAIN e : \/ i <= Len(queue) /\ e[i] = queue[i]
                                    \/ i > Len(queue) /\ e[i].kind # "snapshot"
                                       /\ Alike(e[i].group, gs[e[i].id])
<1>. DEFINE sent == Deltas(gs, ids)
            e == Enqueue(queue, sent)
<1>1. \A j \in 1 .. Len(sent) : sent[j].kind # "snapshot" /\ Alike(sent[j].group, gs[sent[j].id])
  <2>1. DOMAIN sent = 1 .. Len(sent) /\ DOMAIN sent = DOMAIN ids
    BY LenProperties DEF Deltas
  <2>2. ASSUME NEW j \in DOMAIN ids
        PROVE  sent[j].kind # "snapshot" /\ Alike(sent[j].group, gs[sent[j].id])
    <3>1. sent[j] = [kind |-> "delta", id |-> ids[j], group |-> gs[ids[j]]]
      BY DEF Deltas, Delta
    <3>. HIDE DEF sent
    <3>2. sent[j].kind = "delta" /\ sent[j].id = ids[j] /\ sent[j].group = gs[ids[j]]
      BY <3>1
    <3>. QED  BY <3>2 DEF Alike
  <2>. HIDE DEF sent
  <2>. QED  BY <2>1, <2>2
<1>. HIDE DEF sent
<1>2. /\ e \in Seq(Msg) /\ Len(queue) <= Len(e)
      /\ \A i \in 1 .. Len(e) : IF i <= Len(queue) THEN e[i] = queue[i]
                                ELSE \E j \in 1 .. Len(sent) : e[i] = sent[j]
  BY EnqueueFacts DEF sent
<1>3. DOMAIN e = 1 .. Len(e) /\ Len(e) \in Nat /\ Len(queue) \in Nat
  BY <1>2, LenProperties
<1>. HIDE DEF e
<1>4. \A i \in DOMAIN e : \/ i <= Len(queue) /\ e[i] = queue[i]
                          \/ i > Len(queue) /\ e[i].kind # "snapshot" /\ Alike(e[i].group, gs[e[i].id])
  BY <1>1, <1>2, <1>3
<1>. QED  BY <1>2, <1>4 DEF e, sent

\* The dialer handles a message and fans out what enforcement changed.
LEMMA DialerHears ==
  ASSUME NEW gs, SoundMap(gs), ExclusiveIn(gs), NEW hs, SoundMap(hs), ExclusiveIn(hs),
         \A id \in GroupId : Agree(gs[id], hs[id]), now \in Nat,
         NEW out \in Seq(Msg), Len(out) <= LaneDepth,
         NEW back \in Seq(Msg), back # <<>>, Exchange(gs, hs, out, back),
         NEW ids \in Seq(GroupId)
  PROVE  LET after == AppliedWith(gs, Head(back))
         IN  Exchange(after, hs, Enqueue(out, Deltas(after, ids)), Tail(back))
<1>. DEFINE msg == Head(back)
            after == AppliedWith(gs, msg)
            e == Enqueue(out, Deltas(after, ids))
<1>0. msg \in Msg /\ msg = back[1]
  BY HeadTailProperties
<1>1. Deltas(after, ids) \in Seq(Msg)
  BY <1>0, AppliedFacts, DeltasFacts
<1>. HIDE DEF after
<1>2. /\ e \in Seq(Msg) /\ Len(out) <= Len(e) /\ DOMAIN e = 1 .. Len(e) /\ Len(e) \in Nat
      /\ \A i \in DOMAIN e : \/ i <= Len(out) /\ e[i] = out[i]
                             \/ i > Len(out) /\ e[i].kind # "snapshot" /\ Alike(e[i].group, after[e[i].id])
  BY <1>1, QueueRepeats, LenProperties
<1>. HIDE DEF e
<1>3. CASE BothWait(gs, hs, out, back)
  <2>1. msg = Snapshot(hs) /\ Tail(back) = <<>> /\ Len(out) = 1 /\ out[1] = Snapshot(gs)
    BY <1>3, OneMessage DEF BothWait
  <2>2. msg.kind = "snapshot" /\ msg.groups = hs /\ out[1].kind = "snapshot" /\ out[1].groups = gs
    BY <2>1 DEF Snapshot
  <2>3. AlikeMaps(after, Settled(gs, hs)) /\ Settled(gs, hs) = Settled(hs, gs)
    BY <1>0, <2>2, SnapshotApplied, SettledCommutes DEF after, SoundMap
  <2>4. e # <<>> /\ e[1] = out[1]
    BY <1>2, <2>1
  <2>5. DeltasOf(Tail(e), after)
    <3>1. /\ DOMAIN Tail(e) = 1 .. Len(e) - 1
          /\ \A i \in 1 .. Len(e) - 1 : Tail(e)[i] = e[i + 1]
      BY <1>2, <2>4, HeadTailProperties, LenProperties
    <3>2. \A i \in 1 .. Len(e) - 1 : i + 1 \in DOMAIN e /\ ~ (i + 1 <= Len(out))
      BY <1>2, <2>1
    <3>. QED  BY <1>2, <3>1, <3>2 DEF DeltasOf
  <2>. QED  BY <2>1, <2>2, <2>3, <2>4, <2>5 DEF ListenerWaits, Exchange, e, after
<1>4. CASE DialerWaits(gs, hs, out, back)
  <2>1. AlikeMaps(after, Settled(gs, msg.groups)) /\ AlikeMaps(hs, Settled(gs, msg.groups))
    BY <1>0, <1>4, SnapshotApplied DEF DialerWaits, after
  <2>2. AlikeMaps(after, hs)
    BY <2>1, AlikeOrder
  <2>3. Tail(back) = <<>>
    <3>1. Len(back) = 1
      BY <1>4 DEF DialerWaits
    <3>2. Tail(back) \in Seq(Msg) /\ Len(Tail(back)) = 0
      BY <3>1, HeadTailProperties
    <3>. QED  BY <3>2, EmptySeq
  <2>4. DeltasOf(e, after)
    <3>1. Len(out) = 0
      BY <1>4, EmptySeq DEF DialerWaits
    <3>. QED  BY <1>2, <3>1 DEF DeltasOf
  <2>. QED  BY <2>2, <2>3, <2>4 DEF Exchanged, Exchange, e, after
<1>5. CASE ListenerWaits(gs, hs, out, back) \/ Exchanged(gs, hs, out, back)
  BY <1>5 DEF ListenerWaits, Exchanged
<1>. QED  BY <1>3, <1>4, <1>5 DEF Exchange

\* One link has one pair of ends.
LEMMA OneLinkEnds ==
  ASSUME OneLink, up \subseteq Link, NEW l \in Link, NEW n \in Node, NEW m \in Peers(n)
  PROVE  /\ l = <<l[1], l[2]>> /\ l[1] \in Node /\ l[2] \in Node /\ l[1] # l[2]
         /\ (n = l[1] /\ m = l[2]) \/ (n = l[2] /\ m = l[1])
         /\ <<l[2], l[1]>> \notin Link
<1>1. l \in Node \X Node /\ l[1] # l[2] /\ <<l[2], l[1]>> \notin Link
  BY MeshAssumption
<1>2. PICK k \in up : Ends(k) = {n, m}
  BY DEF Peers
<1>3. k = l
  BY <1>2 DEF OneLink
<1>4. {l[1], l[2]} = {n, m}
  BY <1>2, <1>3 DEF Ends
<1>5. n \in {l[1], l[2]} /\ m \in {l[1], l[2]} /\ l[1] \in {n, m} /\ l[2] \in {n, m}
  BY <1>4
<1>. QED  BY <1>1, <1>5

\* Whatever the servers hold agrees.
LEMMA StoresAgree ==
  ASSUME StampsTell, NEW n \in Node, NEW m \in Node, NEW id \in GroupId
  PROVE  Agree(store[n][id], store[m][id])
<1>1. PICK log \in TreeLog, base \in [GroupId -> Group] : AllTold(log, base)
  BY DEF StampsTell
<1>2. /\ Told(store[n][id], log[id], now, base[id])
      /\ Told(store[m][id], log[id], now, base[id])
  BY <1>1 DEF AllTold, ToldMap
<1>. QED  BY <1>2, ToldAgree

\* A message handled at either end takes the exchange one step further.
LEMMA ReceiveRepairs ==
  ASSUME OneLink, Inv, StampsTell, RepairInv, NEW n \in Node, NEW m \in Node, Receive(n, m)
  PROVE  RepairInv'
<1>. SUFFICES ASSUME NEW l \in fresh
              PROVE  Exchange(store'[l[1]], store'[l[2]], lane'[<<l[1], l[2]>>], lane'[<<l[2], l[1]>>])
  BY DEF Receive, RepairInv
<1>. DEFINE D == l[1]
            L == l[2]
            out == lane[<<D, L>>]
            back == lane[<<L, D>>]
            msg == Head(lane[<<n, m>>])
            after == AppliedWith(store[m], msg)
            waiting == [lane EXCEPT ![<<n, m>>] = Tail(@)]
<1>1. up \subseteq Link /\ fresh \subseteq up /\ l \in Link /\ m \in Peers(n) /\ n \in Peers(m) /\ now \in Nat
  BY DEF Inv, Receive, Peers
<1>2. /\ l = <<D, L>> /\ D \in Node /\ L \in Node /\ D # L /\ <<L, D>> \notin Link
      /\ (n = D /\ m = L) \/ (n = L /\ m = D)
  BY <1>1, OneLinkEnds
<1>3. <<D, L>> \in Directions /\ <<L, D>> \in Directions /\ <<D, L>> # <<L, D>>
  BY <1>1, <1>2 DEF Directions
<1>4. /\ out \in Seq(Msg) /\ Len(out) <= LaneDepth /\ back \in Seq(Msg) /\ Len(back) <= LaneDepth
      /\ lane = [d \in Directions |-> lane[d]]
  BY <1>3 DEF Inv, LaneOK, LanesFrom
<1>5. /\ SoundMap(store[D]) /\ ExclusiveIn(store[D]) /\ SoundMap(store[L]) /\ ExclusiveIn(store[L])
      /\ \A id \in GroupId : Agree(store[D][id], store[L][id])
  BY <1>2, StoreFacts, StoresAgree DEF Inv
<1>6. Exchange(store[D], store[L], out, back)
  BY DEF RepairInv
<1>7. /\ lane[<<n, m>>] # <<>>
      /\ store' = [store EXCEPT ![m] = after]
      /\ \E ids \in SetToSeqs(Changed(MergedWith(store[m], msg), after)) :
            lane' = IF <<m, n>> \in Link THEN Fanout(waiting, m, Deltas(after, ids)) ELSE waiting
  BY DEF Receive
<1>8. PICK ids \in Seq(GroupId) :
        lane' = IF <<m, n>> \in Link THEN Fanout(waiting, m, Deltas(after, ids)) ELSE waiting
  BY <1>7, ChangedIds
<1>9. DOMAIN store = Node
  BY DEF Inv, StoresOK
<1>. HIDE DEF msg, after
<1>10. CASE n = D /\ m = L
  <2>1. lane'[<<D, L>>] = Tail(out) /\ lane'[<<L, D>>] = back
    BY <1>2, <1>3, <1>4, <1>8, <1>10
  <2>2. store'[D] = store[D] /\ store'[L] = AppliedWith(store[L], Head(out))
    BY <1>2, <1>7, <1>9, <1>10 DEF after, msg
  <2>3. out # <<>>
    BY <1>7, <1>10
  <2>. HIDE DEF D, L, out, back
  <2>4. Exchange(store[D], AppliedWith(store[L], Head(out)), Tail(out), back)
    BY <1>1, <1>4, <1>5, <1>6, <2>3, ListenerHears
  <2>. QED  BY <2>1, <2>2, <2>4 DEF D, L
<1>11. CASE n = L /\ m = D
  <2>1. lane' = Fanout(waiting, D, Deltas(after, ids)) /\ L \in Peers(D)
    BY <1>1, <1>2, <1>8, <1>11
  <2>2. waiting[<<D, L>>] = out /\ waiting[<<L, D>>] = Tail(back)
    BY <1>3, <1>4, <1>11
  <2>. HIDE DEF waiting
  <2>3. lane'[<<D, L>>] = Enqueue(out, Deltas(after, ids)) /\ lane'[<<L, D>>] = Tail(back)
    BY <1>2, <1>3, <2>1, <2>2 DEF Fanout
  <2>4. store'[L] = store[L] /\ store'[D] = after /\ after = AppliedWith(store[D], Head(back))
    BY <1>2, <1>7, <1>9, <1>11 DEF after, msg
  <2>5. back # <<>>
    BY <1>7, <1>11
  <2>. HIDE DEF D, L, out, back
  <2>6. Exchange(after, store[L], Enqueue(out, Deltas(after, ids)), Tail(back))
    BY <1>1, <1>4, <1>5, <1>6, <2>4, <2>5, DialerHears
  <2>. QED  BY <2>3, <2>4, <2>6 DEF D, L
<1>. QED  BY <1>2, <1>10, <1>11

\* A link that comes up starts an exchange; with one link there is no other.
LEMMA LinkUpRepairs ==
  ASSUME OneLink, Inv, NEW l \in Link, LinkUp(l)
  PROVE  RepairInv'
<1>. SUFFICES ASSUME NEW k \in fresh'
              PROVE  Exchange(store'[k[1]], store'[k[2]], lane'[<<k[1], k[2]>>], lane'[<<k[2], k[1]>>])
  BY DEF RepairInv
<1>1. k = l
  <2>1. k \in Link
    BY DEF LinkUp, Inv
  <2>. QED  BY <2>1 DEF OneLink
<1>2. l \in Node \X Node /\ l = <<l[1], l[2]>>
  BY MeshAssumption
<1>3. <<l[1], l[2]>> \in Directions /\ <<l[2], l[1]>> \in Directions
  BY <1>2 DEF Directions
<1>4. \A d \in {<<l[1], l[2]>>, <<l[2], l[1]>>} : {d[1], d[2]} = Ends(l)
  BY DEF Ends
<1>5. lane'[<<l[1], l[2]>>] = <<Snapshot(store[l[1]])>> /\ lane'[<<l[2], l[1]>>] = <<Snapshot(store[l[2]])>>
  BY <1>3, <1>4 DEF LinkUp
<1>. QED  BY <1>1, <1>5 DEF LinkUp, Exchange, BothWait

\* An edit and a lost link end the claim; every other step keeps it.
LEMMA RepairNext == OneLink /\ Inv /\ StampsTell /\ RepairInv /\ [Next]_vars => RepairInv'
<1>. SUFFICES ASSUME OneLink, Inv, StampsTell, RepairInv, [Next]_vars PROVE RepairInv'
  OBVIOUS
<1>1. CASE UNCHANGED vars
  BY <1>1 DEF vars, RepairInv
<1>2. ASSUME Edited PROVE RepairInv'
  BY <1>2 DEF Edited, RepairInv
<1>3. ASSUME NEW l \in Link, LinkDown(l) PROVE RepairInv'
  <2>1. fresh' = {}
    BY <1>3 DEF LinkDown, Inv, OneLink
  <2>. QED  BY <2>1 DEF RepairInv
<1>4. ASSUME NEW n \in Node, NEW id \in GroupId, NEW tree \in SUBSET Key,
             SetTree(n, id, tree) \/ Delete(n, id)
      PROVE  RepairInv'
  <2>1. Edited
    BY <1>4 DEF SetTree, Delete
  <2>. QED  BY <1>2, <2>1
<1>5. CASE Next
  <2>1. CASE \E n \in Node, id \in GroupId : \/ \E tree \in SUBSET Key : SetTree(n, id, tree)
                                           \/ Delete(n, id)
    BY <1>4, <2>1
  <2>2. CASE \E n, m \in Node : Receive(n, m)
    BY <2>2, ReceiveRepairs
  <2>3. CASE \E l \in Link : LinkDown(l) \/ LinkUp(l)
    BY <1>3, <2>3, LinkUpRepairs
  <2>. QED  BY <1>5, <2>1, <2>2, <2>3 DEF Next
<1>. QED  BY <1>1, <1>5

\* Two servers, or any mesh of one link: once a link that came back has carried
\* both snapshots, and until the next edit, its ends show the same groups,
\* whatever deltas were lost before and whatever the enforcement of the one or
\* the other takes from the merged map.
THEOREM TwoServersRepair == OneLink => (Spec => []SnapshotsRepair)
<1>. SUFFICES ASSUME OneLink PROVE Spec => []SnapshotsRepair
  OBVIOUS
<1>1. Init => RepairInv
  BY DEF Init, RepairInv
<1>2. Inv /\ RepairInv => SnapshotsRepair
  <2>. SUFFICES ASSUME Inv, RepairInv, NEW l \in fresh,
                       lane[<<l[1], l[2]>>] = <<>>, lane[<<l[2], l[1]>>] = <<>>
                PROVE  View(store[l[1]]) = View(store[l[2]])
    BY DEF SnapshotsRepair
  <2>1. l[1] \in Node /\ l[2] \in Node
    BY MeshAssumption DEF Inv
  <2>2. AlikeMaps(store[l[1]], store[l[2]])
    <3>1. Len(<<>>) # 1
      OBVIOUS
    <3>. QED  BY <3>1, OneMessage DEF RepairInv, Exchange, BothWait, DialerWaits, ListenerWaits, Exchanged
  <2>3. /\ SoundMap(store[l[1]]) /\ SoundMap(store[l[2]]) /\ ExclusiveIn(store[l[2]])
    BY <2>1, StoreFacts DEF Inv
  <2>4. Enforceable(store[l[1]])
    BY <2>3 DEF SoundMap, Sound, Enforceable
  <2>5. \A id \in GroupId : /\ store[l[1]][id].tree = store[l[2]][id].tree
                            /\ Live(store[l[1]][id]) <=> Live(store[l[2]][id])
    BY <2>2, <2>3, <2>4, AlikeFacts
  <2>. QED  BY <2>5 DEF View
<1>3. Inv /\ StampsTell /\ RepairInv /\ [Next]_vars => Inv' /\ StampsTell' /\ RepairInv'
  BY InvNext, TellsNext, RepairNext
<1>. QED  BY <1>1, <1>2, <1>3, InvInit, InitTells, PTL DEF Spec
=============================================================================
