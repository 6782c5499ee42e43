# Verification of termyard

TLA+ specifications of termyard, checked with TLC on small instances; their
safety is proved with TLAPS for every instance. Every definition is read off
the source; `PROJECT.json` maps each to its lines, lists the runs, the mutants
that show the properties can fail, the hazards of the code and the theorems.

## 1. The system

termyard is a dashboard for coding-agent sessions.

    browser <-WebSocket-> server <-Unix socket-> session daemon (PTY + shell)
                            ^
                            +-- peer link (WebSocket) --> other servers

A session daemon is a detached process that outlives the server. A server
tracks the daemons of its machine, shows them in browsers, and shares sessions,
layout groups and attributes with the servers it is paired with.

### Components

| component | state | operations | talks to | module |
|---|---|---|---|---|
| group store `pkg/groupsync` | map of group records, `groups.json` | SetTree, SetName, SetRank, Delete, ApplyRemote, ApplySnapshot, MigrateKey, RemoveSessionKey, Restore, Reconcile | REST handlers, peer messages, session rename hook | GroupStore |
| group sync `pkg/server/routes_common.go`, `pkg/peer/session_attrs.go` | one bounded lane per connection | fan out deltas, send snapshots, apply both | group store, peer links | GroupMesh |
| peer links `pkg/peer`, `pkg/identity` | peers.json, one reconnector per peer, the Manager's registration | pair, dial, accept, register, tear down, reconnect now, enable, disable, forget | the other server | PeerLink |
| session authority `pkg/commands/server/runtime.go`, `pkg/pty`, `pkg/sessionlaunch` | tracked map, state manager, watchers, socket, sidecar and claim files | Create, adopt at boot, Watch and its callbacks, Kill, cleanup | daemons through files, sockets and signals | SessionAuthority |
| session order and attributes `pkg/sessionorder`, `pkg/sessionattrs` | last-writer-wins maps with tombstones | set, merge, prune, expire | peer links, state manager | SessionMesh |
| peer streams and requests `pkg/peer/streamreg.go`, `capturereg.go`, `filereadreg.go`, `upload.go` | tokens waiting for a connection or an answer, grants | request, claim, answer, time out | peer links, terminals, browsers | PeerStreams, PeerRequests |
| terminal output `pkg/pty/daemon.go`, `pkg/ws` | ring buffer, client queues, session buffers, coalescer | broadcast, attach, replay, flush, close | browsers | TerminalPath |
| agent status `pkg/toolevents` | status, turn and activity per pane, `toolevents.json` | record, promote, reconcile, detect, silence, persist | daemons, agent hooks | ToolEvents |
| scheduler `pkg/scheduler` | schedules with their next run, tags of sessions | tick, run by hand, put off, edit, remove, cap | session launch | Scheduler |
| group naming `pkg/server/group_naming.go` | one job per group, the gate | observe, attempt, retry, apply, force | group store, namer | GroupNaming |
| session labels `pkg/state/naming.go` | label and its origin, `session-names.json` | generate, type, reset, regenerate, enrich | agent hooks, namer | SessionNames |
| authentication `pkg/auth` | password, login sessions, token buckets | set up, log in, validate, log out, expire, limit | HTTP | LoginSessions, Limiter |
| wiki supervisor `pkg/wikilite` | child process, live and old directory | run, install, pause, recover, stop | child process | WikiSupervisor |
| browser hub `pkg/ws/hub.go` | set of connections | add, remove, broadcast | browsers | none |
| web client `web/src` | connection machine, terminal pool, workspace | reducers and effects | server | none |
| command line tools and integration | none of their own | parse, install, update, notify | files, git | none |

### What is hard in it

* Stores are edited on several machines at once and merged by wall-clock
  stamps, field by field, followed by an enforcement pass that itself edits.
* A pair of servers has two opinions on whether they are connected. The dialer
  redials after a second; the listener may need its 30 s read deadline.
* A session name outlives the daemon behind it. Files, callbacks and clean-up
  of an old daemon meet those of a new one of the same name.
* Servers, daemons and connections die at any point. Files are rewritten in
  place and a claim file stands for a running request.
* Output crosses five bounded buffers and as many goroutines. Each may close
  while another sends on it.
* Almost every service copies state under a lock, does something slow without
  it (a launch, a request to the namer, a file write) and writes back. What
  happened in between is the recurring question of sections 2 and 4.

The properties that make each part correct are listed with the modules in
section 2; `PROJECT.json` lists the hazards by line.

## 2. The modules

Each module keeps the control of the code and abstracts its data. An
invariant whose name ends in `Inv` is a conjunction of named parts, each with
its own comment in the module; the parts are given in brackets below.

Some code breaks a promise only in one narrow window. There the module keeps a
Boolean of history (`raced`, `beaten`, `crossed`, `overtaken`, `spoiled`,
`lossy`, `missed`, `forced`, `overlap`), set by the step that goes through the
window, and the property excepts exactly those behaviours. Section 4 lists
what happens in each.

### GroupRecords, GroupStore, GroupRecordsProofs, GroupStoreProofs

`GroupRecords` has the record of a group and the pure operators: `Merge`
(field-wise last writer wins), `Enforce` (sort, take keys, dissolve groups
with fewer than two), pruning and renaming. A pane tree is the set of its
leaves, which is all that `enforce` reads. Times are naturals.

`Kept` is the loop of `enforce` as a recursive function: each group keeps the
keys that no earlier survivor kept. Earlier means the winner first, then the
newest tree, then the lowest id.

`GroupStore` is one server. `Store.mu` makes each method one action, with its
`save()`, which succeeds, fails, or truncates the file. `Restart` reads the
file again. Only `POST /session-attrs` with `background=true` is two critical
sections: it prunes, writes attributes, and calls `Restore` if that fails. In
between anything may happen; `prior` is what it holds.

Properties:

* `Exclusive`: no session in two live groups, in memory or on disk.
* `NoDegenerateGroup`: every live group has two sessions or more.
* `TombstonesDurable`: a deletion on disk is never lost.
* `LocalEditWins`: enforcement does not undo the edit that triggered it.
* `SnapshotStrandsNothing`: a group loses exactly what others own afterwards.
* `RenameFollowsSession`: a renamed session stays in its group.
* `NextWriteHeals`: the next tree write removes a duplicate.

### GroupMesh, GroupMeshProofs

Servers with a group store each, the links between them, and a bounded lane
per direction that drops what does not fit. A link has a dialer and a
listener, because `BuildRouter` gives the callback that fans out the results
of enforcement to the dialing side only. A new link carries a snapshot each
way; a lost one loses what was in flight.

Simplifications: a link changes at both ends at once (PeerLink has the
details), an edit and its fan-out are one step, one clock, saves succeed.

Properties: `MeshInv` (types, `ExclusiveEverywhere`), `NoResurrection`,
`SnapshotsRepair` (a link that came back makes both ends equal: a promise to
two servers, see section 5). `Converged` is stated and fails, see section 4.

### PeerLink, PeerLinkProofs

Two servers. `conn[c]` has both ends of a connection, each moving on its own
through handshake, session and teardown; `recon` is the reconnector goroutine;
`reg` the Manager's registration; `pending` the record that `ReconnectNow`
holds while it sleeps. `cancelled` is the context of the link the connection
belongs to. `UnregisterPeer` takes a peer id, so `Teardown` clears whatever is
registered. `stray` is the listener's end that `TryRegisterPeer` refused:
`HandlePeer` returns and leaves the connection open.

`HalfOpen = FALSE` restricts the environment: a dialer redials only once the
other end has noticed the failure. `Commands` chooses what users do.

Properties: `LinkInv` (types; `OneSession`; `Registered`), `OneReconnector`,
`AutoRecovers`.

### SessionAuthority, SessionAuthorityProofs

One session name. `proc[i]` is the process of daemon `i`; the socket, sidecar
and claim files belong to the name. The server side has the tracked map, the
session shown by the state manager with its unreachable flag, and one watcher
per daemon, whose position in `Registry.Watch` and in the callbacks is
`watch[i]`. A `Create` runs on the server or, when there is none, in the CLI.

Where the code does two things in a row without holding a lock, they are two
actions. `Delays` names the six gaps in which a new daemon may overtake the
old one's second half. All are real; with `Delays = {}` the second half comes
in time. So a run with no delays says the design is right, and each delay can
be added to see what it breaks.

| delay | gap | breaks |
|---|---|---|
| start | Create waits 2 s for the daemon; a restarted server does not wait | OneDaemon, FilesKept, LiveShown, GhostsGo |
| launch | between the end of Create and onLaunched | LiveShown, GhostsGo |
| exit | between the daemon's ln.Close and its deferred os.Remove calls | OneDaemon, FilesKept, LiveShown |
| cleanup | between the compare and the removal in removeStaleFiles | OneDaemon, FilesKept, LiveShown |
| kill | between FrameClose and RemoveSession in Service.Kill | LiveShown |
| flag | between onUnreachable's check and its write | UnreachableHonest |

Left out: PID reuse, daemons without a nonce, the second spawn after a systemd
failure.

Properties: `OneDaemon`, `FilesKept`, `LiveShown`, `UnreachableHonest`,
`TrackedSacred`, `GhostsGo`.

### RingBuffer, TerminalFeed, TerminalPath, StreamsProofs

The way of output from a PTY to one browser. `RingBuffer` has `Write` and
`SnapshotTail` of the daemon's scrollback with their index arithmetic.
`TerminalPath` numbers the bytes the shell prints and follows them:

    pumpPTY -> ring and broadcast -> client queue -> frames -> DaemonSession's
    replay and live buffers -> bridge reader -> coalescer -> browser

Each arrow is a goroutine and each name between two of them a bounded
variable. A client is added, the ring copied and the copy queued in three
steps while broadcasts go on. The coalescer takes a chunk, a control frame, a
timer or a close. A full client queue drops the frame, a replay that does not
fit disconnects the client, and a session buffer that would overflow is
emptied; `lost` records it.
`gated` chooses between the framed bridge, which marks where replay starts and
ends, and the flat one.

`TerminalFeed` is the abstract specification: the shell prints, and a viewer's
feed grows by live bytes in rising order and by replay bytes without a break
among themselves. `Viewer == INSTANCE TerminalFeed WITH printed <- printed,
feed <- feed` is the mapping, and `FeedKept` is the refinement.

Properties:

* `RingKeepsTail`: any tail of the ring is the last bytes printed, after
  writes of every size.
* `PathInv` (types with every buffer in its limit; `NoGap`: a client for whom
  nothing was discarded misses no byte since the start of its replay).
* `FeedKept`: the refinement.
* `FlatBridgeDelivers` (`FlatBridgeEnds`: a bridge ends when the browser or
  the session has; `FlatOutputShown`: without framing, everything on its way
  from the session is shown again and again, unless something was discarded).

### ToolEvents

The status of one agent in one pane: the alert (`events`), the open turn
(`activeTurns`) and the time of the last activity (`lastActive`). An agent
sends hooks and dies or leaves a shell behind. Four goroutines write the same
maps: the inactivity promoter, the reconciler, the detector and the silence
monitor. Each copies the state under the lock, looks at the process or the
screen, and records, in steps of its own. `persist` copies under the lock and
writes outside it, so a snapshot in `writing` may be overtaken.

Every event carries the server's host id: `newRuntime` always makes a peer
manager (`runtime.go:192`, `348`), `POST /tool-event` stamps what has no host
(`routes_auth.go:106`), and the monitors are given the id as well. What the
code keeps for events without a host is therefore dead: `activePanes` is
always empty, so the stuck monitor, the stuck status, `RecordProgress` and the
reconciler's second source do nothing, and the detector, which looks for the
tracker's events under a key without a host, skips no pane. The module has the
live part only.

Properties: `TrackerInv` (types; `TurnIsTimed`: the open turn of an agent
without waiting hooks is one the promoter has still to look at or is about to
close; `AlertsDurable`: once writes have ended in order, the alert is on
disk), `AlertsGo` (after the agent is gone its alert goes) and `TurnsClose`
(so does the turn of an agent without waiting hooks, through the promoter, and
the turn of any agent the detector had seen, once only the shell is left).
That every turn closes is `AbandonedTurnsClose`, which fails, see section 4.

### PeerStreams

One token of `StreamRegistry`: a viewer asks a host for a terminal or an
upload, one end registers the token and the other dials. `Claim` may come
before `Register`, at the same time, after the timeout, or from another peer.
For an upload the module also has the frames on the wire, the host's file and
the result. Terminals end when either side closes.

The host's handler writes each chunk into a pipe that `StoreUploadedFile`
reads. If the disk fails (`file = "failed"`), at the creation of the file or
in the middle of a chunk, the reader returns without closing its end, and the
handler's next write, or the rest of this one, blocks for good
(`host = "blocked"`, `StoreChunk`). A frame of text or a read error instead
of a chunk still ends the handler with an error. A write of the viewer has no
deadline: a full wire holds it up, its abort frame included
(`viewer = "aborting"`).

Properties: `RegistryInv` (types; `OnlyExpectedPeer`; `NoMutualWait`: the two
ends never both wait), `UploadWhole` (a kept file has every chunk and only a
kept file is reported), `UploadEnds` (every upload request ends, unless its
connection is orphaned or both ends are blocked as above: `BothBlocked`). Its
proofs are in `StreamsProofs`, with
those of the terminal's streams.

### PeerRequests

Captures and file reads: a request registers a channel under its token, sends,
and waits for an answer or a timer. `Requests` run at the same time. A file
that was read and can be decoded and written is put in a directory that goes after a grace time, and the
browser holds a grant.

`RequestsInv` (`PendingFreed`: no entry without a handler; `AnswerKept`: an
answer in time reaches its own handler; `GrantServes`: while a grant is good,
the file is there).

### LoginSessions, Limiter

`LoginSessions` has the first password, login, validation with sliding expiry,
logout, the cleanup goroutine and `save()`, which copies and writes in two
steps, fails, or is cut off by a restart. `Limiter` has one bucket; its count is
in units of 1/Window so that the code's fractions are whole.

`LoginInv` (`OneWinner`: of several first passwords one holds, in memory and
on disk; `SignInKept`: a restart signs out nobody who was active a minute ago;
`LogoutKept`), `BurstBounded` (fewer than two capacities in any window).

### Scheduler

One schedule: the tick of the runner, its launch of unknown length, the
manual run, edits and removal, tags of sessions and the cap. A cron
expression is a period. The runner and the manual run hold a copy of the job
across the launch, as the code does. Sessions are numbered as they are
launched, and `Victims` are the tagged ones with at least `keep` younger ones.

`SchedulerInv` (`OncePerInstant`; `IntentKept`: a removed or edited schedule
is not brought back by a late write; `CapKept`).

### SessionMesh

One session, its owner and a viewer. The owner's state manager tells the peer
manager, which keeps a cached list, and two forwarders; both lists travel.
Attribute bits and the rank are stamped records, merged by last write, pruned
when the session is gone and expired after a time to live.

`SharedInv` (`SharedAgree`: once lanes are empty both ends show the same bits
and rank; `ListFollows`: the viewer lists the session exactly while it lives).
`OnlyGonePruned` is stated and fails, see section 4.

### WikiSupervisor

The loop that keeps the child alive and parks in a condition variable, the
install that pauses it, swaps two directories by renames and resumes, the
remover of the old copy, `Stop`, and loss of power. Every rename and removal
of the swap may fail (`CommitGivesUp`, `CommitMovesIn`).

`SupervisorInv` (`SwapAlone`: no swap under a live child; `StopReaches`;
`InstallWakes`: the loop does not sleep through an install), `LastCopyKept`
(no step destroys the last whole copy).

### NameGate, GroupNaming, SessionNames

`NameGate` is `namer.AutomaticGate` for one key: an attempt in progress, an
interval after success, growing ones after failures. `GroupNaming` is the
coordinator for one group: debounced jobs, attempts in goroutines, retry
timers that nobody cancels, explicit renames, and `SetTree`, `SetName` and
`Delete` with saves that fail. `SessionNames` is the label of one session:
agent events, automatic naming of agents and shells, typed labels, resets,
regeneration, enrichment, saves that overtake each other, restarts.

`NamingInv` (`NamingOwed`: a membership is named, given up or on its way;
`ManualKept`; `OneAttempt`), `NamesInv` (`UserLabelKept`; `LabelFollowsAgent`:
a new agent session does not inherit a label; `OneNaming`).

### MCServices, ServicesProofs, SharedStateProofs

Eight of these modules (PeerRequests, LoginSessions, Limiter, Scheduler,
SessionMesh, WikiSupervisor, GroupNaming, SessionNames) share no variables
except clocks, because the code they model shares no state. One run checks
them all: the first state picks the `subject`, only its actions happen, and
the others keep their initial states. Each has a specification of its own for
the theorems: `SharedStateProofs` has those of SessionMesh, GroupNaming and
SessionNames, `ServicesProofs` those of the other five and of ToolEvents.

## 3. The runs

| run | instance | result |
|---|---|---|
| store | 2 groups, 3 keys, 3 clock ticks, failing saves, restarts | type, exclusivity, viability, durable tombstones, local edits win |
| store_edges | 2 groups, 4 keys, 4 ticks, failing attribute writes, overlapping remote records | snapshots strand nothing, renames follow, the next write heals |
| mesh | 2 servers, 2 groups, 4 keys, two starts, lane of 3, 2 edits, 1 lost link | exclusive everywhere, no resurrection, a new link repairs |
| link | 3 connections, all six commands, 3 of them, 1 failure, half-open redials | one session, registration agrees, one reconnector |
| link_recovers | fair, 3 failures or restarts, no half-open redial | the link always comes back |
| link_half_open | fair, 1 failure, half-open redial | **violated**: `AutoRecovers` |
| authority | 3 daemons, no delays, 1 reset, 2 crashes | one listener, files kept, live sessions shown, honest flag |
| authority_ghosts | fair, 2 daemons, four delays | dead sessions leave the list, the tracked map keeps live ones |
| agents | fair, 2 tools, two crews of monitors, 1 restart | turns timed, alerts durable and gone with the agent, turns closed by promoter and detector |
| terminal | fair, 3 bytes, buffers of 2, reads of 2, chunk queue of 1, framed and flat | the ring, no gap, the refinement, flat bridges deliver and end |
| streams | fair, one token, 2 peers, bodies up to 2 chunks, wire of 1, a disk that fails | the right peer, no mutual wait, whole uploads, requests end but for `BothBlocked` |
| services | eight subjects, see the configuration | the invariants above and the last whole copy |

### Bounds

* Two groups show a theft; a theft that leaves its victim viable or a rename
  that collides needs a fourth key. A chain through a dissolved middle group
  needs three groups, and is covered by the theorem instead. Four ticks are
  prune, edit, rollback and heal after the groups exist. Remote records
  include one from the future.
* A lane of three overflows when two edits and their enforcement meet.
* Three connection slots let a redial meet a dead session and a starting one.
* Two daemons make a successor; the third allows a successor of a successor
  while old watchers are still in callbacks.
* In `agents` the monitors run in crews: all four of them without the file, and
  the hook-driven ones with it. All four with the file passed too (1.1 million
  states). One hook in flight meets every monitor between its look and its write;
  a second would queue behind it.
* In `terminal` every buffer holds two bytes or one chunk and the shell prints
  three, so each wraps, fills or overflows.
* In `streams` a body of two chunks over a wire of one lets every failure come
  before, between and after chunks.
* In `services` the clocks go just past the longest expiry, and two actors of
  each kind make a race. LoginSessions has two requests at once and one token,
  SessionNames one saver: a save that is overtaken needs a second, which is
  left to the theorem and to a larger instance.
* The runs are kept short. Larger instances of the same modules passed:
  `link` with two failures (3.8 million states), `store_edges` with torn files
  and three remote records, SessionNames with two savers and four happenings
  (14.1 million), SessionMesh with three changes (9.4 million), Scheduler with
  three edits and two caps (13.2 million).
* `CHECK_DEADLOCK FALSE` everywhere: every module has bounded counters, and a
  system in which nobody does anything may rest.

### Fairness

Goroutines and processes run, timers and read deadlines fire, a daemon told to
close does so. Users, shells, the network and whoever starts the server owe
nothing. In `PeerLink` this is weak fairness of the steps of each connection
end, of the next dial (the backoff is bounded and the loop endless,
`supervisor.go:276-336`) and of the end of `ReconnectNow`'s sleep. In
`SessionAuthority` it is weak fairness of daemon start-up and exit, of
`Create`, which has a deadline, of `onLaunched`, of each watcher and of the
second half of `Kill`. `ReadFails` is among the watcher's steps because a
closed peer is always noticed; a spontaneous reset needs the bound `MaxResets`
and so happens finitely often.

In `ToolEvents` the monitors are tickers in endless loops, so each is weakly
fair, as are the two steps of `persist`; the agent, its process and the
delivery of its hooks are not. In `TerminalPath` the pump, the
client handler, the session, the reader, the coalescer and the main loop are
weakly fair; the shell, the daemon's death and the browser are not. In
`PeerStreams` the handlers of both ends, their timers and the read errors
that follow a closed connection are weakly fair, and a browser that stays
sends the rest of its body; a write waits until there is room or the
connection is closed; leaving, breaks of the network, a lost request and
the end of a terminal are not owed. MCServices states safety
only.

## 4. What disagrees with the documents

### The violated run

**link_half_open.** The connection dies; the dialer redials while the listener
still holds the old one; the refusal is taken for a simultaneous initiate and
the dialer becomes a listener, on disk (`supervisor.go:294`). Nobody dials
again, against `README.md:109`.

### Other disagreements

The models reach what follows too. No run is kept for them. Where a formula is
named, it is defined in the module and is seen to fail with the constants
given; where a bit of history is named, drop it from the property's premise.

Groups:

* Divergence: `Converged` of GroupMesh with `MaxDrops = 0` and
  `StartGroups <- MCStartEmpty`. Both servers edit at once. The listener applies the dialer's delta,
  dissolves a group of its own, and tells nobody (`router.go:34`). Both are
  idle and show different groups, against `docs/ux-contracts.md:519`.
  `SnapshotsRepair` says the next link repairs it.
* Rollback: `Exclusive` with `AttrsCanFail = TRUE`. `Restore`
  (`groupsync.go:648`) writes old records over newer edits, so a session is in
  two groups until the next tree write. `groupsync.go:377` promises one.
* Torn file: `TombstonesDurable` with `"torn" \in SaveOutcomes`.
  `config.go:40` truncates in place and `NewStore` reads what it cannot parse
  as empty. `docs/plans/group-order-sync.md:153` wants durable tombstones.

Peer links:

* Reconnect now (`supervisor.go:203`): two known peers, neither a dialer, with
  commands pair and reconnect. The new dial meets the old connection at the
  other end and is refused, which the comment at line 189 says it avoids.
* Disable during reconnect (`supervisor.go:204`): a record with
  `enabled = FALSE` and a reconnector that runs, with commands pair,
  reconnect, disable. `ReconnectNow` uses the record from before its sleep.
* Disable on a listener (`supervisor.go:183`) unregisters a working inbound
  session; `identity/peers.go:18` says enabled governs outbound dials only.
* Forget (`supervisor.go:152`): `MsgForget` is queued and the connection
  cancelled by one call, and the message can be lost with it, against
  `docs/multi-host.md:45`. A dialer that receives it drops the record but not
  its reconnector.
* A stream that `Resolve` delivers to a request which has just given up
  (`streamreg.go:234`) is neither read nor closed: `Orphaned`. Expired tokens
  are never forgotten.

Uploads:

* A store that fails: `DiskLimitsSurface` of PeerStreams.
  `model/upload.go:25` says "infrastructure/disk limits surface as write
  errors". When `StoreUploadedFile` fails to create the file, or to write it,
  it returns and nobody closes the reading end of the pipe, so `pw.Write`
  (`peer/upload.go:74`) blocks for ever: no error is sent, the connection
  stays open, and the handler is never freed. A viewer whose body fits what
  the connection buffers waits 30 s and reports a failure. One with more to
  send blocks in a write that has no deadline (`routes_files.go:606`) until
  the network breaks, and does not notice that its browser has left
  (`BothBlocked`).

Sessions:

* Late kill: `LiveShown` with two daemons and delay kill. `Service.Kill`
  removes by name after the daemon may have been replaced (`service.go:278`);
  the new session is alive, tracked and not in the list.
* Late exit: `FilesKept` with delay exit (`daemon.go:173`). The deferred
  removals of a daemon take the files of its successor.
* Slow start: `OneDaemon` with delay start (`daemon.go:164`). Two daemons
  check, both find nothing, and the second binds over the first.
* Claim (`registry.go:129`): `up /\ claim => creating # None` with one crash.
  A server killed inside `Create` leaves the claim file and nothing removes
  it. A daemon killed between `Listen` and its sidecar blocks the name in the
  same way.
* Attributes: `OnlyGonePruned` of SessionMesh. A peer's session that is not
  listed yet counts as gone (`routes_common.go:244`, `312`) and loses its bits.
* A change of the list between `sendStateUpdate` and the subscription of the
  forwarders (`session.go:242`, `347`) waits for the next change (`missed`).
* Labels (`crossed`, `disturbed`): a generation that is out while the agent
  session changes stores the old one's label (`docs/ux-contracts.md:483`); the
  agent session id is not saved, so after a restart a new agent session
  inherits the label; an older save may be written last.

Terminals:

* Order: `ReplayFirst` of TerminalPath. The comment of `ReadFramed`
  (`daemon_client.go:193`) and `docs/ux-contracts.md:822` have replay before
  live output; a broadcast between `addClient` and the queueing of the replay
  comes first. Bytes of that moment are shown twice.
* Failing control frame: `BridgeEnds`. `processControl` does not acknowledge
  when its write fails (`coalescer.go:182`), and the reader and the bridge
  wait for ever. The test at `coalescer_test.go:153` has no control frames.
* `appendLive` empties the whole buffer when it would overflow.

Agents:

* Abandoned turns: `AbandonedTurnsClose`. The comment at `reconciler.go:86`
  says the active panes are there so that an agent which exits after only an
  active hook is not missed. But `tracker.go:360` admits events without a host
  only, and `routes_auth.go:106` gives every hook event one. So a turn that an
  agent with waiting hooks left open, and that the detector had not seen, is
  up until it is a day old. The stuck monitor (`tracker.go:864`,
  `runtime.go:776`) never flags anything for the same reason.
* The detector skips panes that hooks report on, to avoid interfering
  (`detector.go:102`). Its key has no host, so it finds none and may replace a
  waiting event.
* `Clear` and `ClearAll` do not persist, and an older snapshot may be written
  last (`tracker.go:253`): a cleared alert returns after a restart, a new one
  may be lost (`disk.stale`).

Services:

* Scheduler (`raced`): the runner and a manual run write back what they read
  before the launch (`runner.go:116`, `routes_scheduler.go:162`); a manual run
  or an edit that spans a tick puts back an instant the tick has launched for,
  which is then run again, and putting a run off reverts an edit made since.
  The cap counts local sessions only, and the tag of a session
  with no other metadata goes after a day. `POST /schedules` takes an id from
  the client, so a schedule may be posted under the id of a removed one
  (`store.go:110`); it owns the sessions of its predecessor, and nothing prunes
  them to its cap before it launches (`excused`).
* Login (`spoiled`): an older save may be written last (`auth.go:220`, `279`),
  and one that is cut off signs everybody out.
* Wiki: `pause` gives up after 15 s and swaps under a live child (`forced`);
  `Stop` may look before the loop publishes its command
  (`supervisor.go:234`); a swap may begin while the previous remover is at
  work (`install.go:270`, `overlap`).
* Group names (`overtaken`, `beaten`): two edits that overtake each other
  between `SetTree` and `ObserveTreeMutation`, or an edit whose save fails
  (`routes_sessions.go:1055`), lose the naming until the next edit. A name
  typed between the check and the `SetName` of `applyGeneratedName`, or while
  an explicit rename runs, is overwritten. An explicit rename empties the gate
  and lets two attempts run at once.

Read only, not in the models: the legacy check of `removeStaleFiles` reads
`procStartTime` (`runtime.go:679`) where the daemon writes `proc_start_time`
(`daemon.go:65`), so it never compares; `SetTree` does not fan out an edit
that it kept in memory when the save failed; documents disagree on whether a
tombstoned group may be reactivated, and the code says no; `RecordProgress`
and the session rename hook have no callers; one browser that does not read
holds up the hub's events for all (`ws/hub.go:256`).

## 5. What is proved

Each theorem holds for every value of the constants that the named `ASSUME`s
of its module allow: any sets of groups, keys, servers, connections, daemons,
requests or sessions, any bounds on edits and failures, any times. TLC
evaluates the assumptions in every run, and each inductive invariant was
checked by TLC before it was proved. Where a theorem has a premise of its own,
the table names it.

| theorem | module | says, for every instance |
|---|---|---|
| TypeCorrect, NoneDegenerate, SnapshotsStrandNothing | GroupStoreProofs | types; no live group under two sessions; a snapshot strands nothing; whatever saves and attribute writes do |
| Exclusivity, EditsWin | GroupStoreProofs | `Exclusive`, `LocalEditWins`, if no attribute write fails |
| Durability | GroupStoreProofs | `TombstonesDurable`, if besides no write is cut short |
| WritesHeal, RenamesFollow | GroupStoreProofs | `NextWriteHeals`, `RenameFollowsSession`, whatever a rollback left |
| MeshExclusive, DeletedStaysDeleted | GroupMeshProofs | `MeshInv`, `NoResurrection` |
| TwoServersRepair | GroupMeshProofs | `SnapshotsRepair`, if there is one link |
| OneSessionPerPeer, OneReconnectorPerPeer | PeerLinkProofs | `LinkInv`, `OneReconnector`, half-open redials included |
| TypeCorrect, Sacred | SessionAuthorityProofs | types and `TrackedSacred` under every delay |
| OneListens, FilesStay | SessionAuthorityProofs | `OneDaemon`, `FilesKept`, without delays start, exit and cleanup |
| LiveIsShown | SessionAuthorityProofs | `LiveShown`, with no delay but flag |
| FlagsHonest | SessionAuthorityProofs | `UnreachableHonest`, under every delay but flag |
| PathTheorem, RingTheorem | StreamsProofs | `PathInv`, `RingKeepsTail`, for buffers of any size and any writes |
| FeedTheorem | StreamsProofs | `FeedKept`: TerminalPath implements TerminalFeed |
| TokenJoins, WholeUploads | StreamsProofs | `RegistryInv`, `UploadWhole` |
| RequestsServed | ServicesProofs | `RequestsInv` |
| SupervisorCoordinates, LastCopySafe | ServicesProofs | `SupervisorInv`, `LastCopyKept` |
| SignInsKept | ServicesProofs | `LoginInv` |
| BurstsBounded | ServicesProofs | `BurstBounded` |
| ScheduleKept | ServicesProofs | `SchedulerInv` |
| TrackerTheorem | ServicesProofs | `TrackerInv` |
| SharedStateAgrees | SharedStateProofs | `SharedInv` |
| MembershipsNamed, LabelsKept | SharedStateProofs | `NamingInv`, `NamesInv` |

The hypotheses of the SessionAuthority theorems are the table of section 2 read
the other way: a delay breaks none of the safety properties it is not listed
with.

### The arguments

**Groups.** The inductive invariant `StoreInv` says that memory, file and the
records held by a request are typed and sound: well formed (an unstamped tree
is empty, a known record has a tree or a tombstone) and without a live group
of fewer than two. Well-formedness is needed because `enforce` skips groups
without a tree: without it a name set on an unknown id would live as an empty
group. The held records are included since `Restore` writes them back.

The core is `EnforceFacts` in `GroupRecordsProofs`. The order of `enforce` is
a strict total order (`BeforeOrder`); a finite set has a first member in it
(`FirstExists`, from the well-foundedness of strict subsets); so the recursion
of `Kept` has a solution (`KeptExists`) and satisfies its equation
(`KeptUnfold`). Of two survivors one is earlier, and the later one kept none of
its keys. `Durability` adds that memory is never behind the file. The winner
comes first in the order, which is `EditsWin`; every tree write ends in
`enforce`, which is `WritesHeal`. For the mesh the same lemmas are used per
server, and the invariant adds that every record in a lane is well formed: a
message is made from a sound map and enforced where it arrives.

**The repair of a link.** Two facts carry `SnapshotsRepair`. A stamp stands for
one tree: there is a log of the trees written that explains every record in a
store or a lane (`StampsTell`), so it does not matter which end merges into
which (`MergeCommutes`) nor when each enforces (`EnforceAlike`). And the lanes
of a fresh link show how far the exchange has come (`Exchange`, four phases):
both snapshots wait; only the listener's does, and the listener shows what the
dialer will settle to; only the dialer's does, with deltas behind it that
repeat the dialer's map; or only such deltas are left and both show the same. A
delta that repeats what the other shows changes nothing there (`DeltaApplied`).
The premise of one link is needed: with three servers in a line a delta from
before, still on its way over the one link, changes the middle server after
the other link's snapshots, and the middle server tells nobody. TLC finds that
in seven steps.

**Links.** `Registered` is not inductive: `Teardown` unregisters by peer id, so
a session that is closing and no longer registered would clear the
registration of its successor. `HeldIsRegistered` says that what a server holds,
running or closing, is what it has registered. `ReconnectorDials` says that a
busy reconnector is in exactly one dial that is not cancelled.

**Sessions.** `Sacred` rests on `WatchersSound`: a callback `onExit(i)` in
progress means that `i` is dead, and only started daemons are watched, because
an unborn process can still come alive. `SocketInv` adds that at most one
daemon contends for the name, that the claim protects its start, and that
files are removed only while nobody contends; `ShownInv` that a `Kill` in
progress is for the session that is shown; `FlagInv` that no flag is pending
for a connected watcher.

**Terminal output.** A byte is in one of seven places between the shell and the
browser. `StageInv` says, for live and for replayed bytes apart, that every
place lies wholly behind the one that feeds it (`Chain`), which is order without
a word on who runs when; `SeqInv` that each place is sorted in itself. For
bytes of the replay the places together are one stretch (`OneReplay`). `NoGap`
speaks only of what has arrived, so `Gapless` says of all of it, on its way or
there, that nothing is missing from the start of the replay on, unless
something was discarded. `Control` ties the closing of channels to the
positions of the goroutines. The refinement then needs only what a step adds to
the feed: the first place of the chain, which follows everything delivered. For
the ring, `RingHolds` gives the cell of each of the last bytes by its distance
from the head; a write longer than the ring, one that wraps and one that does
not are the three cases.

**Agent status.** `TurnIsTimed` is inductive with the types: hooks move
`lastActive` and `activeTurns` together, detected events move neither, and
what the promoter takes from the one it records against the other.
`AlertsDurable` speaks of the moment all writes have ended. Until then the
stored event still waits for its snapshot, is in one that nothing has
overtaken, or has been written (`SnapshotUnderWay`); once every `Record` has
its snapshot, one that is not overtaken holds the stored event (`NewestLast`).

**Streams and requests.** From `Register` on a token is pending or expired, so
no later claim of the expected peer waits (`SetupInv`). While a connection is
not broken, each chunk sent is stored or on the wire, and an eof stands behind
exactly the chunks the file lacks (`FlowInv`); of a store that failed nothing
is claimed but that it is never kept. A request under way has a
channel, in the registry or already filled (`ChannelThere`).

**Wiki supervisor.** Only the loop starts and reaps a child; what install and
`Stop` may conclude from `parked`, `cmd` and `cancelled` follows from where the
loop can then be (`LoopOwnsChild`, `InstallHolds`, `WakeUpDue`, `StopHolds`).

**Sign-ins.** A restart reads the file, so a promise made in memory must be on
its way there. `Covers` says how: a request has still to copy the map, or holds
a good copy, or the file is good and nobody is saving. A copy that another
write has overtaken dooms the promises, since its own write, its failure and a
restart are all the exceptions that `spoiled` records.

**Limiter.** The bucket keeps accounts (`Credit`): what was let in since any
attempt, with what is left, is at most a full bucket and what refilled since.
Eviction has no account and is paid by the idle time, which is why
`IdleEviction > Window` is assumed, as the code has it.

**Scheduler.** `InstantsPass`: every instant fired for is past, and the store's
next run is later, unless the tick has still to move it or a request put an
older one back. `OneAtWork` and `RoomKept`: without an excuse one request or
launch works at a time, on the store's settings, and from `MakesRoom` on there
is room for one. That `EnforceScheduleCap` leaves at most `keep` sessions
(`FewLeft`) is a counting argument: the number of younger tagged sessions is an
injection from the survivors into `0 .. keep - 1`.

**What servers share.** Both parts of `SharedInv` speak of a quiet link, so the
invariant says what the lanes still owe: the last list in the lane shows the
session as it is or another is due; a record that is newer at one end is in
that end's lane, except an expired tombstone, and then nothing of its kind is
in flight. A stamp tells its record apart, and a lane holds nothing newer than
its sender's store, which carries this through merges.

**Names.** While an edit is under way an observation is on its way instead of
the job (`NamingDue`). `OneAttempt` and `OneNaming` rest on the gate: it
remembers the start of the attempt that counts, whose deadline is over before
another is let in; so every interval of the gate has to exceed the generation
timeout, which the code's constants satisfy and `GateAssumption` states. For labels the
file and every save that may still reach it have the user's label, or a save is
under way that brings it there or is noticed as overtaken.

### What the proofs changed

Attempts that failed showed where small instances had said too much:

* `RenameFollowsSession` needs that no other live group holds the old key,
  which after a rollback may happen.
* `CapKept` fails for a schedule posted under the id of a removed one, and the
  mark that an instant may repeat was lost when a later write restored the same
  next run. Both need three edits; the run has two. `Repeats` and the premise
  of `Add` are the result.
* A `CASE` in the loop of WikiSupervisor had two guards that could both hold.
* `BurstBounded` is now about all attempts ever let in, not those that the
  model still remembered.
* `Orderly` of TerminalFeed is put with indices instead of a filtered
  sequence, which is a fold, and RingBuffer takes the smaller of two numbers by
  comparison, as the code does.
* A stamp stands for one tree only if no server starts with a tree stamped in
  its future, which `MeshAssumption` now says.

### Only model-checked

Liveness is out of the prover's reach: `AutoRecovers`, `GhostsGo`, `AlertsGo`,
`TurnsClose`, `FlatBridgeDelivers`, `UploadEnds`. Of safety only
`ServicesTypeOK` is left to TLC: it is the type of whichever service the run
looks at, defined in the module of that run, and the inductive invariants of
`ServicesProofs` and `SharedStateProofs` have the types they need. What
GroupMesh leaves out (one clock, saves that succeed, an edit and its fan-out in
one step) limits `TwoServersRepair` as it does the run.

## 6. Not modelled

* The browser hub: its state is the set of connections, and what can go wrong
  is how long a write blocks, which is the network's.
* The web client: single-threaded reducers over rendering state, with unit
  tests of their own. What it sends to the server is modelled as the inputs of
  the server's actions.
* Command-line tools, installers, updates, git worktrees, push notifications
  and statistics: sequential I/O without state of their own.
* Wall-clock skew beyond records from the future; message encodings,
  signatures, password hashing; file types and path checks; terminal input,
  resizing and what a screen makes of its bytes; prompts and answers of the
  namer; rendering.

## 7. Plan

Done: the group store first, because it holds the user's layout and merges it
across machines, then the links that carry it, the sessions themselves, the
output and the agent status that users watch, and the smaller services.

The safety of every module that a run checks is proved: the groups with the
mesh and its repair, links, sessions, terminal output with its refinement,
streams, agent status, and the eight services. What could follow:

1. In GroupMesh, an edit whose fan-out is a step of its own, and clocks that
   differ between servers: a stamp then stands for one tree only if no two
   servers write at the same reading, which the code does not enforce.
2. A mesh that forwards what it applies, to see what `Converged` would need.
3. The messages inside a peer session beside groups, attributes and streams:
   activity, statistics and host state.
4. The web client's connection machine, as the other end of TerminalPath.

## 8. Running it

    tlc -config MCGroupStore.cfg MCGroupStore
    tlapm GroupStoreProofs.tla

Each row of section 3 has its module and configuration in `PROJECT.json`. A
mutant is a definition with the suffix of what is wrong with it
(`Kept_WinnerOnly`); replacing the body of the definition named in
`PROJECT.json` by it makes TLC report the property.
