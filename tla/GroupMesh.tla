----------------------------- MODULE GroupMesh -----------------------------
(***************************************************************************)
(* Several servers, each with a group store, kept in step over peer links: *)
(* a local edit is fanned out as deltas to every connected peer, a new     *)
(* link exchanges whole snapshots, and a peer applies what it receives     *)
(* with the merge and the enforcement of GroupRecords.                     *)
(*                                                                         *)
(* Each link has a dialer (pkg/peer.LinkSupervisor) and a listener         *)
(* (pkg/peer.PeerHandler).  BuildRouter gives the group fan-out callback   *)
(* to the supervisor only, so a listener that prunes or dissolves groups   *)
(* while applying a message tells nobody.                                  *)
(*                                                                         *)
(* A link is up or down at both ends at once, an edit and its fan-out are  *)
(* one step, saves succeed, and all servers read one clock.                *)
(***************************************************************************)
EXTENDS GroupRecords, Sequences, SequencesExt

CONSTANTS
    Node,           \* the servers
    Link,           \* <<dialer, listener>> pairs, one per pair of servers
    StartGroups,    \* the maps that all servers may start from
    LaneDepth,      \* capacity of a connection's control lane
    MaxEdits,       \* bound on local edits
    MaxDrops        \* bound on lost links

ASSUME MeshAssumption ==
    /\ Link \subseteq Node \X Node
    /\ \A l \in Link : l[1] # l[2] /\ <<l[2], l[1]>> \notin Link
    /\ \A gs \in StartGroups : SoundMap(gs) /\ ExclusiveIn(gs)
    \* no server starts with a tree stamped later than its clock
    /\ \A gs \in StartGroups : \A id \in GroupId : gs[id].treeAt <= 2
    /\ LaneDepth \in Nat \ {0}
    /\ MaxEdits \in Nat /\ MaxDrops \in Nat

VARIABLES
    store,      \* store[n]: the map of server n
    up,         \* the links that are connected
    lane,       \* lane[<<n, m>>]: what n has sent to m and m has not handled
    fresh,      \* links with no edit made anywhere since they came up
    now,        \* the clock
    edits, drops

vars == <<store, up, lane, fresh, now, edits, drops>>

Ends(l) == {l[1], l[2]}
Directions == {d \in Node \X Node : d \in Link \/ <<d[2], d[1]>> \in Link}
Peers(n) == {m \in Node : \E l \in up : Ends(l) = {n, m} /\ n # m}

Delta(id, g) == [kind |-> "delta", id |-> id, group |-> g]
Snapshot(gs) == [kind |-> "snapshot", groups |-> gs]

TypeOK ==
    /\ store \in [Node -> [GroupId -> Group]]
    /\ up \subseteq Link /\ fresh \subseteq up
    /\ \A d \in Directions : Len(lane[d]) <= LaneDepth
    /\ now \in Nat /\ edits \in 0 .. MaxEdits /\ drops \in 0 .. MaxDrops

Init ==
    /\ \E gs \in StartGroups : store = [n \in Node |-> gs]
    /\ up = Link
    /\ lane = [d \in Directions |-> <<>>]
    /\ fresh = {}
    /\ now = 2
    /\ edits = 0 /\ drops = 0

-----------------------------------------------------------------------------
\* PeerConnection.Enqueue for a run of messages: what does not fit is lost.
Enqueue(queue, msgs) ==
    LET all == queue \o msgs IN SubSeq(all, 1, Min({Len(all), LaneDepth}))

\* n sends msgs to every connected peer.
Fanout(lanes, n, msgs) ==
    [d \in Directions |-> IF d[1] = n /\ d[2] \in Peers(n) THEN Enqueue(lanes[d], msgs)
                          ELSE lanes[d]]

Deltas(gs, ids) == [i \in DOMAIN ids |-> Delta(ids[i], gs[ids[i]])]

Edited ==
    /\ edits < MaxEdits
    /\ edits' = edits + 1
    /\ now' = now + 1
    /\ fresh' = {}
    /\ UNCHANGED <<up, drops>>

\* POST /groups op=tree: the groups the enforcement changed go out first, in
\* the order a Go map yields them, then the edited group.
SetTree(n, id, tree) ==
    /\ store[n][id].deletedAt = 0
    /\ LET written == [store[n] EXCEPT ![id].tree = tree, ![id].treeAt = now + 1]
           after   == Enforce(written, now + 1, id)
       IN  /\ store' = [store EXCEPT ![n] = after]
           /\ \E ids \in SetToSeqs(Changed(written, after)) :
                lane' = Fanout(lane, n, Deltas(after, Append(ids, id)))
    /\ Edited

\* POST /groups op=delete.
Delete(n, id) ==
    /\ LET after == [store[n] EXCEPT ![id].deletedAt = now + 1]
       IN  /\ store' = [store EXCEPT ![n] = after]
           /\ lane' = Fanout(lane, n, Deltas(after, <<id>>))
    /\ Edited

-----------------------------------------------------------------------------
\* The map of m after msg, and the map enforcement started from.
MergedWith(gs, msg) ==
    IF msg.kind = "snapshot" THEN [id \in GroupId |-> Merge(gs[id], msg.groups[id])]
    ELSE [gs EXCEPT ![msg.id] = Merge(@, msg.group)]

AppliedWith(gs, msg) ==
    IF MergedWith(gs, msg) = gs THEN gs
    ELSE IF msg.kind = "snapshot" THEN AppliedSnapshot(gs, msg.groups, now + 1)
    ELSE AppliedDelta(gs, msg.id, msg.group, now + 1)

\* m handles the next message from n.  Only the dialer's session has the
\* fan-out callback.
Receive(n, m) ==
    /\ m \in Peers(n)
    /\ lane[<<n, m>>] # <<>>
    /\ LET msg     == Head(lane[<<n, m>>])
           after   == AppliedWith(store[m], msg)
           losers  == Changed(MergedWith(store[m], msg), after)
           waiting == [lane EXCEPT ![<<n, m>>] = Tail(@)]
       IN  /\ store' = [store EXCEPT ![m] = after]
           /\ \E ids \in SetToSeqs(losers) :
                lane' = IF <<m, n>> \in Link THEN Fanout(waiting, m, Deltas(after, ids))
                        ELSE waiting
           /\ now' = IF after = store[m] THEN now ELSE now + 1
    /\ UNCHANGED <<up, fresh, edits, drops>>

\* The connection fails; what was in flight is lost.
LinkDown(l) ==
    /\ drops < MaxDrops
    /\ l \in up
    /\ up' = up \ {l}
    /\ fresh' = fresh \ {l}
    /\ lane' = [d \in Directions |-> IF {d[1], d[2]} = Ends(l) THEN <<>> ELSE lane[d]]
    /\ drops' = drops + 1
    /\ UNCHANGED <<store, now, edits>>

\* Mutant: only the dialer sends its snapshot.
LinkUp_OneSided(l) ==
    /\ l \in Link \ up
    /\ up' = up \cup {l}
    /\ fresh' = fresh \cup {l}
    /\ lane' = [lane EXCEPT ![<<l[1], l[2]>>] = <<Snapshot(store[l[1]])>>]
    /\ UNCHANGED <<store, now, edits, drops>>

\* runSession at both ends: sendInitialGroups.
LinkUp(l) ==
    /\ l \in Link \ up
    /\ up' = up \cup {l}
    /\ fresh' = fresh \cup {l}
    /\ lane' = [d \in Directions |-> IF {d[1], d[2]} = Ends(l)
                                     THEN <<Snapshot(store[d[1]])>> ELSE lane[d]]
    /\ UNCHANGED <<store, now, edits, drops>>

Next ==
    \/ \E n \in Node, id \in GroupId :
         \/ \E tree \in SUBSET Key : SetTree(n, id, tree)
         \/ Delete(n, id)
    \/ \E n, m \in Node : Receive(n, m)
    \/ \E l \in Link : LinkDown(l) \/ LinkUp(l)

Spec == Init /\ [][Next]_vars
-----------------------------------------------------------------------------
(* Properties. *)

\* What a user sees of a map: the trees of the live groups.
View(gs) == [id \in GroupId |-> IF Live(gs[id]) THEN gs[id].tree ELSE {}]

Quiet == up = Link /\ \A d \in Directions : lane[d] = <<>>

\* "all peers converge to exclusive membership": when every link is up and
\* nothing is in flight, all servers show the same groups.
Converged == Quiet => \A n, m \in Node : View(store[n]) = View(store[m])

\* A link that comes back repairs whatever had gone wrong before: once both
\* snapshots have been handled, and until somebody edits again, its two ends
\* show the same groups.
SnapshotsRepair ==
    \A l \in fresh : lane[<<l[1], l[2]>>] = <<>> /\ lane[<<l[2], l[1]>>] = <<>> =>
        View(store[l[1]]) = View(store[l[2]])

\* Each server shows a session in at most one group at every moment, also
\* between the deltas of one edit.
ExclusiveEverywhere ==
    \A n \in Node : \A i, j \in GroupId :
        i # j => View(store[n])[i] \cap View(store[n])[j] = {}

\* What holds at every server at every moment: the stores and the bounded lanes
\* of PeerConnection are well typed, and membership is exclusive.
MeshInv == TypeOK /\ ExclusiveEverywhere

\* A group deleted on one server never lives again there, whatever its peers
\* still send.
NoResurrection ==
    [][\A n \in Node, id \in GroupId :
          store[n][id].deletedAt > 0 => store'[n][id].deletedAt > 0]_vars
=============================================================================
