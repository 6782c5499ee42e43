----------------------------- MODULE SessionMesh -----------------------------
(***************************************************************************)
(* What two linked servers share about one session: whether it lives, its   *)
(* attribute bits (hidden, in the background) and its rank in the list.     *)
(* The owner runs the session; the viewer shows it.                         *)
(*                                                                          *)
(* The owner's state.Manager tells peer.Manager, which keeps a cached list, *)
(* and two forwarders of the link; both lists travel to the viewer.  Bits   *)
(* and ranks are stamped records of sessionattrs.Store and                   *)
(* sessionorder.Store, merged by last write; a list of attributes that a     *)
(* browser asks for is pruned first.                                         *)
(*                                                                          *)
(* Writes get distinct stamps of one clock.  Saves succeed (GroupStore has   *)
(* the failing ones), so a restart keeps the stores.  state.Manager never    *)
(* fires its rename hook, so MigrateKey is not part of the system.           *)
(***************************************************************************)
EXTENDS WallClock, Sequences

CONSTANTS
    LaneCap,         \* size of the low-priority lane
    TombstoneTTL,    \* sessionattrs.tombstoneTTL
    MaxChanges       \* bound on starts and ends of the session, and on boots

ASSUME MeshAssumption == LaneCap \in Nat /\ LaneCap >= 4 /\ TombstoneTTL \in Nat /\ MaxChanges \in Nat

Ends == {"owner", "viewer"}
Other(e) == IF e = "owner" THEN "viewer" ELSE "owner"
Kinds == {"bits", "rank"}
Absent == [on |-> FALSE, at |-> 0]

VARIABLES
    alive,       \* the session, in the owner's state.Manager
    cache,       \* the session in the list peer.Manager keeps of its own host
    managerDue,  \* Manager.Run has an event to handle
    updateDue,   \* forwardStateEvents has one
    peerDue,     \* forwardPeerStateChanges has one
    linked,      \* a link is up and registered at both ends
    subscribed,  \* the forwarders of the link have subscribed
    view,        \* the session in the list the viewer keeps of the owner
    store,       \* per end and kind, the stamped record; at = 0 when there is none
    lane,        \* per end, what it has sent and the other has not read
    lossy,       \* history: a frame was dropped since the link came up
    missed,      \* history: the last change was not forwarded over this link
    wronged,     \* history: a prune cleared the bits of a live session
    changes

meshVars == <<alive, cache, managerDue, updateDue, peerDue, linked, subscribed, view, store, lane, lossy,
              missed, wronged, changes>>
listVars == <<alive, cache, managerDue, updateDue, peerDue, view>>

Record == [on: BOOLEAN, at: 0 .. MaxTime]
Message == [type: {"state"}, live: BOOLEAN] \cup [type: Kinds, record: Record]

MeshTypeOK ==
    /\ {alive, cache, managerDue, updateDue, peerDue, linked, subscribed, view, lossy, missed, wronged} \subseteq BOOLEAN
    /\ store \in [Ends -> [Kinds -> Record]]
    /\ \A e \in Ends : lane[e] \in Seq(Message) /\ Len(lane[e]) <= LaneCap
    /\ changes \in 0 .. MaxChanges /\ clock \in 1 .. MaxTime

MeshInit ==
    /\ alive = FALSE /\ cache = FALSE /\ managerDue = FALSE /\ updateDue = FALSE /\ peerDue = FALSE
    /\ linked = FALSE /\ subscribed = FALSE /\ view = FALSE
    /\ store = [e \in Ends |-> [k \in Kinds |-> Absent]]
    /\ lane = [e \in Ends |-> <<>>] /\ lossy = FALSE /\ missed = FALSE /\ wronged = FALSE
    /\ changes = 0 /\ clock = 1

State(b) == [type |-> "state", live |-> b]
Delta(k, r) == [type |-> k, record |-> r]

\* PeerConnection.Enqueue drops a frame when the lane is full.
Enqueue(e, m) ==
    IF linked /\ Len(lane[e]) < LaneCap
    THEN lane' = [lane EXCEPT ![e] = Append(@, m)] /\ UNCHANGED lossy
    ELSE UNCHANGED lane /\ lossy' = (lossy \/ linked)

-----------------------------------------------------------------------------
(* The session list.                                                        *)

Changes == changes < MaxChanges /\ changes' = changes + 1

\* AddSession and RemoveSession broadcast to whoever has subscribed.
SessionChanges ==
    /\ Changes
    /\ alive' = ~alive
    /\ managerDue' = TRUE /\ updateDue' = subscribed
    /\ missed' = ~subscribed
    /\ UNCHANGED <<cache, peerDue, linked, subscribed, view, store, lane, lossy, wronged, clock>>

\* Manager.Run refreshes its own host's list before it tells its subscribers.
CacheAfter == alive

ManagerRuns ==
    /\ managerDue
    /\ cache' = CacheAfter /\ managerDue' = FALSE /\ peerDue' = subscribed
    /\ UNCHANGED <<alive, updateDue, linked, subscribed, view, store, lane, lossy, missed, wronged, changes, clock>>

ForwardState ==
    /\ updateDue /\ updateDue' = FALSE
    /\ Enqueue("owner", State(alive))
    /\ UNCHANGED <<alive, cache, managerDue, peerDue, linked, subscribed, view, store, missed, wronged, changes, clock>>

ForwardPeerState ==
    /\ peerDue /\ peerDue' = FALSE
    /\ Enqueue("owner", State(cache))
    /\ UNCHANGED <<alive, cache, managerDue, updateDue, linked, subscribed, view, store, missed, wronged, changes, clock>>

-----------------------------------------------------------------------------
(* The link.                                                                *)

\* sendInitialSessionAttrs and sendInitialSessionOrder send nothing when the store is empty.
Snapshots(e) ==
    LET Sent(k) == IF store[e][k].at = 0 THEN <<>> ELSE <<Delta(k, store[e][k])>> IN
    Sent("bits") \o Sent("rank")

\* TryRegisterPeer keeps the list of the previous link.  runSession pushes the live list,
\* then the cached one, then the snapshots, and only then starts the forwarders.
LinkUp ==
    /\ ~linked /\ linked' = TRUE /\ subscribed' = FALSE
    /\ lane' = [e \in Ends |-> (IF e = "owner" THEN <<State(alive), State(cache)>> ELSE <<>>) \o Snapshots(e)]
    /\ lossy' = FALSE /\ missed' = (cache # alive)
    /\ UNCHANGED <<listVars, store, wronged, changes, clock>>

Subscribe ==
    /\ linked /\ ~subscribed /\ subscribed' = TRUE
    /\ UNCHANGED <<listVars, linked, store, lane, lossy, missed, wronged, changes, clock>>

Unlinked ==
    /\ linked' = FALSE /\ subscribed' = FALSE /\ updateDue' = FALSE /\ peerDue' = FALSE
    /\ lane' = [e \in Ends |-> <<>>]

LinkDown ==
    /\ linked /\ Changes /\ Unlinked
    /\ UNCHANGED <<alive, cache, managerDue, view, store, lossy, missed, wronged, clock>>

\* The viewer restarts, or drops a host that has been offline for long (pruneOffline).
ViewerForgets ==
    /\ Changes /\ Unlinked
    /\ view' = FALSE
    /\ UNCHANGED <<alive, cache, managerDue, store, lossy, missed, wronged, clock>>

\* The owner restarts.  Adoption runs while Manager.Run may not have subscribed yet.
OwnerBoots ==
    /\ Changes /\ Unlinked
    /\ cache' = FALSE /\ managerDue' \in BOOLEAN
    /\ UNCHANGED <<alive, view, store, lossy, missed, wronged, clock>>

\* ApplyRemote and ApplySnapshot: the record with the later stamp stays.
Newer_OrDifferent(in, cur) == in.at # cur.at

Newer(in, cur) == in.at > cur.at

Merged(cur, in) == IF Newer(in, cur) THEN in ELSE cur

ReadsFrame(e) ==
    LET m == Head(lane[e]) IN
    /\ lane[e] # <<>> /\ lane' = [lane EXCEPT ![e] = Tail(@)]
    /\ IF m.type = "state"
       THEN view' = m.live /\ UNCHANGED store
       ELSE store' = [store EXCEPT ![Other(e)][m.type] = Merged(@, m.record)] /\ UNCHANGED view
    /\ UNCHANGED <<alive, cache, managerDue, updateDue, peerDue, linked, subscribed, lossy, missed, wronged, changes, clock>>

-----------------------------------------------------------------------------
(* The stores.                                                              *)

\* POST /session-attrs and POST /session-order, at either end.
Set(e, k, v) ==
    LET r == [on |-> v, at |-> clock'] IN
    /\ ClockAdvances
    /\ store' = [store EXCEPT ![e][k] = r]
    /\ Enqueue(e, Delta(k, r))
    /\ UNCHANGED <<listVars, linked, subscribed, missed, wronged, changes>>

Lists(e) == IF e = "owner" THEN cache ELSE view
OwnerOnline(e) == e = "owner" \/ linked

\* GET /session-attrs prunes: bits of a session that an online owner does not list become
\* a fresh tombstone, which is fanned out.
PruneGone(e) ==
    LET r == [on |-> FALSE, at |-> clock'] IN
    /\ store[e]["bits"].on /\ ~Lists(e) /\ OwnerOnline(e)
    /\ ClockAdvances
    /\ store' = [store EXCEPT ![e]["bits"] = r]
    /\ Enqueue(e, Delta("bits", r))
    /\ wronged' = (wronged \/ alive)
    /\ UNCHANGED <<listVars, linked, subscribed, missed, changes>>

\* An old tombstone goes.  No frame is in flight for as long as a tombstone lives.
PruneExpired(e) ==
    /\ store[e]["bits"].at # 0 /\ ~store[e]["bits"].on /\ clock > store[e]["bits"].at + TombstoneTTL
    /\ \A o \in Ends : lane[o] = <<>>
    /\ store' = [store EXCEPT ![e]["bits"] = Absent]
    /\ UNCHANGED <<listVars, linked, subscribed, lane, lossy, missed, wronged, changes, clock>>

MeshNext ==
    \/ SessionChanges \/ ManagerRuns \/ ForwardState \/ ForwardPeerState
    \/ LinkUp \/ Subscribe \/ LinkDown \/ ViewerForgets \/ OwnerBoots
    \/ \E e \in Ends : ReadsFrame(e) \/ PruneGone(e) \/ PruneExpired(e)
    \/ \E e \in Ends, k \in Kinds, v \in BOOLEAN : Set(e, k, v)

MeshSpec == MeshInit /\ [][MeshNext]_<<meshVars, clock>>

-----------------------------------------------------------------------------
Settled == linked /\ \A e \in Ends : lane[e] = <<>>

(* Once a link has carried its snapshots and deltas, both ends show the same  *)
(* bits and the same rank, whoever wrote what in which order, with the link   *)
(* down or up: the snapshots and the stamps repair every crossing.  (A frame  *)
(* that a full lane dropped is repaired by the next link.)                    *)
SharedAgree == (Settled /\ ~lossy) => \A k \in Kinds : store["owner"][k].on = store["viewer"][k].on

(* The viewer's list follows the owner's: with every event forwarded and read *)
(* it shows the session exactly when it lives, although two lists of different *)
(* age travel over the link.  (A change between the first push and the        *)
(* subscription of the forwarders is not forwarded before the next one.)      *)
ListFollows ==
    (Settled /\ ~lossy /\ ~missed /\ subscribed /\ ~managerDue /\ ~updateDue /\ ~peerDue) => view = alive

(* Prune clears only the bits of sessions that are gone, as its comment says.  *)
OnlyGonePruned == ~wronged

(* The viewer sees the session, its bits and its rank as the owner does.       *)
SharedInv == SharedAgree /\ ListFollows
=============================================================================
