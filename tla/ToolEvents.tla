----------------------------- MODULE ToolEvents -----------------------------
(***************************************************************************)
(* The status of the coding agent in one pane (package toolevents): the    *)
(* Tracker that hook events write, and the four goroutines that in effect  *)
(* correct it.  Each goroutine reads the tracker under its lock, works     *)
(* without the lock, and calls Record later, so every read is a step of    *)
(* its own and what it decided may be stale when it is recorded.           *)
(*                                                                         *)
(* Every event carries the host's id: newRuntime always has a PeerMgr, the *)
(* handler of /tool-event stamps what has no host, and the monitors were   *)
(* given SetHost.  Tracker.activePanes admits events without a host only,  *)
(* so it is empty for ever, and what reads it does nothing: the stuck      *)
(* monitor and its status, RecordProgress, the second source of reconcile. *)
(*                                                                         *)
(* A timeout (inactivity, silence, grace) is a free choice: it may have    *)
(* passed whenever the code looks.  Messages, artifacts and session        *)
(* metadata travel with an event and decide nothing; they are left out.    *)
(***************************************************************************)
EXTENDS Naturals, FiniteSets

CONSTANTS
    Tools,         \* agents that may run in the pane
    Native,        \* nativeWaitingTools: agents whose hooks report waiting
    Reaped,        \* agents whose stale waiting the silence monitor clears (claude)
    Crews,         \* sets of goroutines that run together; the code runs them all
    MaxHooks,      \* bound: hook notifications in flight at once
    MaxWrites,     \* bound: persists in progress at once
    MaxRestarts,   \* bound: restarts of the server
    MaxOutputs     \* bound: times the pane prints something

\* The monitors, and "persist" for a tracker with EnablePersistence.
Goroutines == {"persist", "promoter", "reconciler", "detector", "silence"}

ASSUME ToolEventsAssumption ==
    /\ Native \subseteq Tools /\ Reaped \subseteq Native
    /\ Crews \subseteq SUBSET Goroutines
    /\ {MaxHooks, MaxWrites, MaxRestarts, MaxOutputs} \subseteq Nat

MaxSilenceChecks == 2
HookStatuses == {"active", "waiting", "error", "completed"}
Stored == {"none", "waiting", "error"}
Unmonitored == [on |-> FALSE, checks |-> 0, prompted |-> FALSE]

VARIABLES
    crew,          \* the goroutines that run in this behaviour
    tool,          \* the agent this pane runs
    proc,          \* the pane: an "agent", a bare "shell", or "gone"
    hooks,         \* hook statuses sent by the agent and not yet received
    events,        \* Tracker.events for the pane
    lastActive,    \* Tracker.lastActive has the pane
    activeTurns,   \* Tracker.activeTurns has the pane
    promoter,      \* promoteInactive: "idle" or "record"
    reconciler,    \* reconcile: "idle", "look" or "record"
    detector,      \* detect: "idle", "inspect", "active", "sweep" or "exited"
    seen,          \* Detector.seen has the pane
    silence,       \* SilenceMonitor: "idle", "synced", "capture", "waiting" or "reap"
    monitored,     \* SilenceMonitor.monitored for the pane
    unsnapped,     \* Record calls that have not yet taken persist's snapshot
    writing,       \* snapshots on their way to toolevents.json, as a set of
                   \* [val, stale]: stale when a newer snapshot may reach the disk first
    disk,          \* [val, stale]: what toolevents.json holds
    restarts, outputs

tracker == <<events, lastActive, activeTurns>>
monitors == <<promoter, reconciler, detector, seen, silence, monitored>>
files == <<unsnapped, writing, disk>>
world == <<crew, tool, proc, hooks, restarts, outputs>>
toolEventsVars == <<world, tracker, monitors, files>>

TrackerTypeOK ==
    /\ crew \in Crews /\ tool \in Tools
    /\ proc \in {"agent", "shell", "gone"}
    /\ hooks \subseteq HookStatuses /\ Cardinality(hooks) <= MaxHooks
    /\ events \in Stored
    /\ lastActive \in BOOLEAN /\ activeTurns \in BOOLEAN /\ seen \in BOOLEAN
    /\ promoter \in {"idle", "record"}
    /\ reconciler \in {"idle", "look", "record"}
    /\ detector \in {"idle", "inspect", "active", "sweep", "exited"}
    /\ silence \in {"idle", "synced", "capture", "waiting", "reap"}
    /\ monitored \in [on : BOOLEAN, checks : 0..MaxSilenceChecks, prompted : BOOLEAN]
    /\ unsnapped \in 0..MaxWrites
    /\ writing \subseteq [val : Stored, stale : BOOLEAN]
    /\ unsnapped + Cardinality(writing) <= MaxWrites
    /\ disk \in [val : Stored, stale : BOOLEAN]
    /\ restarts \in 0..MaxRestarts /\ outputs \in 0..MaxOutputs

(***************************************************************************)
(* NewTracker, EnablePersistence and load: only stored events come back    *)
(* from the disk.                                                          *)
(***************************************************************************)
NewTracker(stored) ==
    /\ events' = stored
    /\ lastActive' = FALSE /\ activeTurns' = FALSE
    /\ promoter' = "idle" /\ reconciler' = "idle"
    /\ detector' = "idle" /\ seen' = FALSE
    /\ silence' = "idle" /\ monitored' = Unmonitored
    /\ unsnapped' = 0 /\ writing' = {}

TrackerInit ==
    /\ crew \in Crews /\ tool \in Tools
    /\ proc = "shell" /\ hooks = {}
    /\ events = "none" /\ lastActive = FALSE /\ activeTurns = FALSE
    /\ promoter = "idle" /\ reconciler = "idle"
    /\ detector = "idle" /\ seen = FALSE
    /\ silence = "idle" /\ monitored = Unmonitored
    /\ unsnapped = 0 /\ writing = {}
    /\ disk = [val |-> "none", stale |-> FALSE]
    /\ restarts = 0 /\ outputs = 0

-----------------------------------------------------------------------------
(* persist is called at the end of Record; without a path it does nothing. *)
Persists ==
    IF "persist" \in crew
    THEN /\ unsnapped + Cardinality(writing) < MaxWrites
         /\ unsnapped' = unsnapped + 1 /\ UNCHANGED <<writing, disk>>
    ELSE UNCHANGED files

TurnAfter_KeptByError(status, auto) ==
    IF auto \/ status = "error" THEN activeTurns ELSE status = "active"

(* A hook event opens a turn with active and closes it with anything else. *)
TurnAfter(status, auto) ==
    IF auto THEN activeTurns ELSE status = "active"

(***************************************************************************)
(* Record: one critical section, then persist.  active and completed drop  *)
(* the stored event.  Only hook events (auto = FALSE) move lastActive and  *)
(* activeTurns.                                                            *)
(***************************************************************************)
Record(status, auto) ==
    /\ Persists
    /\ events' = IF status \in {"active", "completed"} THEN "none" ELSE status
    /\ lastActive' = IF tool \in Native \/ auto THEN lastActive ELSE status = "active"
    /\ activeTurns' = TurnAfter(status, auto)

(* persist, first half: copy the retained state under the read lock.       *)
PersistSnapshot ==
    /\ unsnapped > 0
    /\ unsnapped' = unsnapped - 1
    /\ writing' = {[w EXCEPT !.stale = TRUE] : w \in writing}
                    \cup {[val |-> events, stale |-> FALSE]}
    /\ UNCHANGED <<world, tracker, monitors, disk>>

(* persist, second half: write the file, in whatever order writers arrive. *)
PersistWrite ==
    /\ \E w \in writing : disk' = w /\ writing' = writing \ {w}
    /\ UNCHANGED <<world, tracker, monitors, unsnapped>>

-----------------------------------------------------------------------------
(***************************************************************************)
(* The world: an agent starts in the pane, sends hooks through termyard    *)
(* notify (a process of its own, so notifications overtake each other and  *)
(* outlive the agent), exits, prints, or the session ends.                 *)
(***************************************************************************)
AgentStarts ==
    /\ proc = "shell" /\ proc' = "agent"
    /\ UNCHANGED <<crew, tool, hooks, restarts, outputs, tracker, monitors, files>>

AgentExits ==
    /\ proc = "agent" /\ proc' = "shell"
    /\ UNCHANGED <<crew, tool, hooks, restarts, outputs, tracker, monitors, files>>

PaneGone ==
    /\ proc # "gone" /\ proc' = "gone"
    /\ UNCHANGED <<crew, tool, hooks, restarts, outputs, tracker, monitors, files>>

HookSent ==
    /\ proc = "agent" /\ Cardinality(hooks) < MaxHooks
    /\ \E s \in HookStatuses \ hooks : hooks' = hooks \cup {s}
    /\ UNCHANGED <<crew, tool, proc, restarts, outputs, tracker, monitors, files>>

(* POST /tool-event: stamp the host, record.                               *)
HookReceived ==
    /\ \E s \in hooks : hooks' = hooks \ {s} /\ Record(s, FALSE)
    /\ UNCHANGED <<crew, tool, proc, restarts, outputs, monitors>>

(* SilenceMonitor.RecordOutput, from the pane's output callback.           *)
RecordOutput ==
    /\ monitored.on /\ proc # "gone" /\ outputs < MaxOutputs
    /\ outputs' = outputs + 1
    /\ monitored' = [monitored EXCEPT !.checks = 0, !.prompted = FALSE]
    /\ UNCHANGED <<crew, tool, proc, hooks, restarts, tracker, files,
                   promoter, reconciler, detector, seen, silence>>

(* DELETE /tool-events and ClearAll: the user dismisses the alerts.        *)
Clear ==
    /\ events # "none" /\ events' = "none"
    /\ UNCHANGED <<world, lastActive, activeTurns, monitors, files>>

ClearAll ==
    /\ events # "none" \/ activeTurns
    /\ events' = "none" /\ activeTurns' = FALSE
    /\ UNCHANGED <<world, lastActive, monitors, files>>

(* GetAll and ActiveTurns prune what is a day old.                         *)
PruneStale ==
    /\ \/ events # "none" /\ events' = "none" /\ UNCHANGED activeTurns
       \/ activeTurns /\ activeTurns' = FALSE /\ UNCHANGED events
    /\ UNCHANGED <<world, lastActive, monitors, files>>

TrackerRestarts ==
    /\ "persist" \in crew /\ restarts < MaxRestarts /\ restarts' = restarts + 1
    /\ NewTracker(disk.val)
    /\ disk' = [disk EXCEPT !.stale = FALSE]
    /\ UNCHANGED <<crew, tool, proc, hooks, outputs>>

-----------------------------------------------------------------------------
(* promoteInactive: take stale entries under the lock, record after it.    *)
PromoteCollect ==
    /\ promoter = "idle" /\ lastActive
    /\ lastActive' = FALSE /\ promoter' = "record"
    /\ UNCHANGED <<world, events, activeTurns, files,
                   reconciler, detector, seen, silence, monitored>>

PromoteRecord_AsDetected ==
    /\ promoter = "record" /\ promoter' = "idle"
    /\ Record("waiting", TRUE)
    /\ UNCHANGED <<world, reconciler, detector, seen, silence, monitored>>

PromoteRecord ==
    /\ promoter = "record" /\ promoter' = "idle"
    /\ Record("waiting", FALSE)
    /\ UNCHANGED <<world, reconciler, detector, seen, silence, monitored>>

(* reconcile: what GetAll returns.                                         *)
Tracked == events # "none"

ReconcileCollect ==
    /\ reconciler = "idle" /\ Tracked
    /\ reconciler' = "look"
    /\ UNCHANGED <<world, tracker, files, promoter, detector, seen, silence, monitored>>

ReconcileLook_PaneOnly ==
    /\ reconciler = "look"
    /\ reconciler' = IF proc # "gone" THEN "idle" ELSE "record"
    /\ UNCHANGED <<world, tracker, files, promoter, detector, seen, silence, monitored>>

ReconcileLook ==
    /\ reconciler = "look"
    /\ reconciler' = IF proc = "agent" THEN "idle" ELSE "record"
    /\ UNCHANGED <<world, tracker, files, promoter, detector, seen, silence, monitored>>

ReconcileRecord ==
    /\ reconciler = "record" /\ reconciler' = "idle"
    /\ Record("completed", FALSE)
    /\ UNCHANGED <<world, promoter, detector, seen, silence, monitored>>

(***************************************************************************)
(* detect means to skip a pane the tracker follows, but looks for its      *)
(* events under a key without a host, and finds none.                      *)
(***************************************************************************)
DetectStart ==
    /\ detector = "idle" /\ proc # "gone"
    /\ detector' = "inspect"
    /\ UNCHANGED <<world, tracker, files, promoter, reconciler, seen, silence, monitored>>

(* The pane is gone but others are listed: the sweep runs all the same.    *)
DetectElsewhere ==
    /\ "detector" \in crew /\ detector = "idle" /\ proc = "gone" /\ seen
    /\ detector' = "sweep"
    /\ UNCHANGED <<world, tracker, files, promoter, reconciler, seen, silence, monitored>>

DetectInspect ==
    /\ detector = "inspect"
    /\ detector' = IF proc # "agent" THEN "sweep" ELSE IF seen THEN "idle" ELSE "active"
    /\ seen' = (seen \/ proc = "agent")
    /\ UNCHANGED <<world, tracker, files, promoter, reconciler, silence, monitored>>

DetectActive ==
    /\ detector = "active" /\ detector' = "idle"
    /\ Record("active", TRUE)
    /\ UNCHANGED <<world, promoter, reconciler, seen, silence, monitored>>

DetectSweep ==
    /\ detector = "sweep"
    /\ detector' = IF seen THEN "exited" ELSE "idle"
    /\ seen' = FALSE
    /\ UNCHANGED <<world, tracker, files, promoter, reconciler, silence, monitored>>

DetectExited_AsDetected ==
    /\ detector = "exited" /\ detector' = "idle"
    /\ Record("completed", TRUE)
    /\ UNCHANGED <<world, promoter, reconciler, seen, silence, monitored>>

DetectExited ==
    /\ detector = "exited" /\ detector' = "idle"
    /\ Record("completed", FALSE)
    /\ UNCHANGED <<world, promoter, reconciler, seen, silence, monitored>>

-----------------------------------------------------------------------------
(* SilenceMonitor.sync: monitor exactly the panes the detector has seen.   *)
SilenceSync ==
    /\ silence = "idle" /\ (seen \/ monitored.on)
    /\ monitored' = IF ~seen THEN Unmonitored
                    ELSE IF monitored.on THEN monitored ELSE [Unmonitored EXCEPT !.on = TRUE]
    /\ silence' = "synced"
    /\ UNCHANGED <<world, tracker, files, promoter, reconciler, detector, seen>>

(* Not handled already, and not captured too often since it went quiet.    *)
SilenceDue == monitored.on /\ ~monitored.prompted /\ monitored.checks < MaxSilenceChecks

(* checkSilentPanes: choose the quiet panes under the lock.                *)
SilenceCollect ==
    /\ silence = "synced"
    /\ \E quiet \in BOOLEAN :
         IF quiet /\ SilenceDue
         THEN silence' = "capture" /\ monitored' = [monitored EXCEPT !.checks = @ + 1]
         ELSE silence' = "idle" /\ UNCHANGED monitored
    /\ UNCHANGED <<world, tracker, files, promoter, reconciler, detector, seen>>

(* Capture fails for a session that is gone.                               *)
SilenceCapture ==
    /\ silence = "capture"
    /\ \E isPrompt \in BOOLEAN :
         \/ /\ isPrompt /\ proc # "gone"
            /\ monitored' = [monitored EXCEPT !.prompted = @ \/ monitored.on]
            /\ silence' = IF tool \in Native THEN "idle" ELSE "waiting"
         \/ /\ ~isPrompt /\ proc # "gone"
            /\ \E old \in BOOLEAN :
                 silence' = IF tool \in Reaped /\ events = "waiting" /\ old THEN "reap" ELSE "idle"
            /\ UNCHANGED monitored
         \/ proc = "gone" /\ silence' = "idle" /\ UNCHANGED monitored
    /\ UNCHANGED <<world, tracker, files, promoter, reconciler, detector, seen>>

SilenceWaiting ==
    /\ silence = "waiting" /\ silence' = "idle"
    /\ Record("waiting", TRUE)
    /\ UNCHANGED <<world, promoter, reconciler, detector, seen, monitored>>

SilenceReap ==
    /\ silence = "reap" /\ silence' = "idle"
    /\ Record("completed", TRUE)
    /\ UNCHANGED <<world, promoter, reconciler, detector, seen, monitored>>

-----------------------------------------------------------------------------
Promoter == "promoter" \in crew /\ (PromoteCollect \/ PromoteRecord)
Reconciler == "reconciler" \in crew /\ (ReconcileCollect \/ ReconcileLook \/ ReconcileRecord)
Detector == "detector" \in crew
            /\ (DetectStart \/ DetectInspect \/ DetectActive \/ DetectSweep \/ DetectExited)
SilenceMonitor == "silence" \in crew
            /\ (SilenceSync \/ SilenceCollect \/ SilenceCapture \/ SilenceWaiting \/ SilenceReap)
User == Clear \/ ClearAll \/ PruneStale
World == AgentStarts \/ AgentExits \/ PaneGone \/ HookSent \/ RecordOutput \/ TrackerRestarts

TrackerNext ==
    \/ World \/ User \/ HookReceived \/ PersistSnapshot \/ PersistWrite
    \/ Promoter \/ Reconciler \/ Detector \/ DetectElsewhere
    \/ SilenceMonitor

(* Every ticker keeps firing and every write finishes.                     *)
TrackerFairness ==
    /\ WF_toolEventsVars(PersistSnapshot) /\ WF_toolEventsVars(PersistWrite)
    /\ WF_toolEventsVars(Promoter) /\ WF_toolEventsVars(Reconciler)
    /\ WF_toolEventsVars(Detector) /\ WF_toolEventsVars(SilenceMonitor)

TrackerSpec == TrackerInit /\ [][TrackerNext]_toolEventsVars /\ TrackerFairness

-----------------------------------------------------------------------------
(* No agent in the pane and none of its notifications on the way.          *)
Gone == proc # "agent" /\ hooks = {}

(***************************************************************************)
(* The open turn of an agent without waiting hooks is one the promoter     *)
(* still has to look at, or has taken and not yet recorded: lastActive and *)
(* activeTurns, which auto-detected events, the user and the day-old prune *)
(* do not touch alike, never part so that such a turn is forgotten.        *)
(***************************************************************************)
TurnIsTimed == activeTurns /\ tool \notin Native => lastActive \/ promoter = "record"

(***************************************************************************)
(* An alert outlives the server: once every write has finished, in the     *)
(* order of the snapshots, a stored event is the one in toolevents.json.   *)
(***************************************************************************)
AlertsDurable ==
    /\ "persist" \in crew /\ unsnapped = 0 /\ writing = {}
    /\ ~disk.stale /\ events # "none"
    => disk.val = events

(***************************************************************************)
(* The tracker at every moment: typed, an open turn timed, and what was    *)
(* persisted last on disk.                                                 *)
(***************************************************************************)
TrackerInv == TrackerTypeOK /\ TurnIsTimed /\ AlertsDurable

(***************************************************************************)
(* An alert does not outlive its agent: when the agent is gone for good,   *)
(* waiting and error go too, whatever the goroutines had read before and   *)
(* record after.                                                           *)
(***************************************************************************)
AlertsGo == <>[]Gone => <>[](events = "none")

(* A shell is left where the agent was, and no notification is on the way. *)
BackToShell == proc = "shell" /\ hooks = {}

(***************************************************************************)
(* An agent that dies in the middle of a turn sends no hook that closes    *)
(* it.  The promoter closes the turn of an agent without waiting hooks;    *)
(* the detector closes the turn of any agent it had seen, once it finds    *)
(* only the shell: whatever stale status the other goroutines record       *)
(* meanwhile.                                                              *)
(***************************************************************************)
TurnsClose ==
    /\ <>[](Gone /\ tool \notin Native) => <>[]~activeTurns
    /\ (seen /\ BackToShell) ~> (~activeTurns \/ ~BackToShell)

(***************************************************************************)
(* What the comment in reconcile promises of every agent: one that exits   *)
(* after only an active hook is not missed.  It fails: see the README.     *)
(***************************************************************************)
AbandonedTurnsClose == <>[]Gone => <>[]~activeTurns

=============================================================================
