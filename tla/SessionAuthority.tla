-------------------------- MODULE SessionAuthority --------------------------
(***************************************************************************)
(* Who is alive under one session name: the daemons started for it         *)
(* (pkg/pty RunDaemon), the files they leave in the socket directory, the  *)
(* launch service, the runtime's tracked map and the state manager that    *)
(* mirrors it, and one watcher goroutine per tracked daemon                *)
(* (Registry.Watch).                                                       *)
(*                                                                         *)
(* An instance is one daemon process.  Its identity, PID with nonce, is    *)
(* unique; PID reuse, daemons without a nonce and the second spawn after a *)
(* systemd failure are left out.  The socket path, the sidecar path and    *)
(* the claim path belong to the name, so two instances can meet there.     *)
(*                                                                         *)
(* Two system calls or critical sections that follow each other are two    *)
(* steps here, and a new instance may come between them.  Delays says      *)
(* where it may.                                                           *)
(***************************************************************************)
EXTENDS Naturals, FiniteSets

CONSTANTS
    Inst,       \* the daemons ever started
    None,
    Delays,     \* some of Delay
    MaxResets,  \* bound on lost watch connections
    MaxCrashes  \* bound on processes killed, daemons and servers

\* Where a new instance may overtake what was begun for an old one:
\*   start    Create stops waiting, or the server comes back, before the
\*            daemon is ready
\*   launch   a Create begins before an earlier one's onLaunched
\*   exit     a daemon binds between an older one's ln.Close and its deferred
\*            removals
\*   cleanup  a daemon binds between the two halves of removeStaleFiles
\*   kill     onLaunched runs between the two halves of Service.Kill
\*   flag     onLaunched runs between the two halves of onUnreachable
Delay == {"start", "launch", "exit", "cleanup", "kill", "flag"}

ASSUME AuthorityAssumption ==
    /\ None \notin Inst
    /\ Delays \subseteq Delay
    /\ MaxResets \in Nat /\ MaxCrashes \in Nat

VARIABLES
    proc,       \* proc[i]: the process of i
    sock,       \* the socket file: the daemon that bound it, or None
    sidecar,    \* the metadata file: the daemon it describes, or None
    claim,      \* does the .claim file exist
    creating,   \* the daemon a Registry.Create waits for
    up,         \* is the server running
    launching,  \* created daemons that onLaunched has not seen
    tracked,    \* rt.tracked
    shown,      \* the session in the state manager
    unreachable,\* its Unreachable flag
    watch,      \* watch[i]: where the watcher of i is
    link,       \* link[i]: the daemon that watcher is connected to
    killing,    \* sessions whose Service.Kill is in progress
    asked,      \* sessions a user has asked to kill
    condemned,  \* daemons sent FrameClose or SIGTERM
    resets, crashes

files == <<sock, sidecar>>
server == <<up, launching, tracked, shown, unreachable, watch, link, killing>>
history == <<asked, condemned, resets, crashes>>
vars == <<proc, files, claim, creating, server, history>>

ProcState == {"unborn", "starting", "checked", "bound", "ready", "closing", "dead"}
WatchState == {"off", "dialing", "watching", "retry", "flag", "unflag", "exit", "clean", "rm"}

TypeOK ==
    /\ proc \in [Inst -> ProcState]
    /\ sock \in Inst \cup {None} /\ sidecar \in Inst \cup {None}
    /\ claim \in BOOLEAN /\ up \in BOOLEAN /\ unreachable \in BOOLEAN
    /\ creating \in Inst \cup {None}
    /\ tracked \in Inst \cup {None} /\ shown \in Inst \cup {None}
    /\ watch \in [Inst -> WatchState]
    /\ link \in [Inst -> Inst \cup {None}]
    /\ launching \subseteq Inst /\ killing \subseteq Inst
    /\ asked \subseteq Inst /\ condemned \subseteq Inst
    /\ resets \in 0 .. MaxResets /\ crashes \in 0 .. MaxCrashes

Init ==
    /\ proc = [i \in Inst |-> "unborn"]
    /\ sock = None /\ sidecar = None /\ claim = FALSE
    /\ creating = None
    /\ up = TRUE
    /\ launching = {} /\ killing = {}
    /\ tracked = None /\ shown = None /\ unreachable = FALSE
    /\ watch = [i \in Inst |-> "off"]
    /\ link = [i \in Inst |-> None]
    /\ asked = {} /\ condemned = {}
    /\ resets = 0 /\ crashes = 0

\* processAlive
Alive(i) == proc[i] \notin {"unborn", "dead"}

\* A dial of the socket path succeeds: its file leads to an open listener.
Dialable == sock # None /\ proc[sock] \in {"bound", "ready"}

-----------------------------------------------------------------------------
(* The daemon: RunDaemon. *)

\* isDaemonAlive: a daemon that finds a live one gives up.
BindCheck(i) ==
    /\ proc[i] = "starting"
    /\ proc' = [proc EXCEPT ![i] = IF Dialable THEN "dead" ELSE "checked"]
    /\ UNCHANGED <<files, claim, creating, server, history>>

\* Stale files are removed and the socket is bound.
Listen(i) ==
    /\ proc[i] = "checked"
    /\ "exit" \in Delays \/ \A j \in Inst : proc[j] # "closing"
    /\ "cleanup" \in Delays \/ \A j \in Inst : watch[j] # "rm"
    /\ proc' = [proc EXCEPT ![i] = "bound"]
    /\ sock' = i
    /\ sidecar' = None
    /\ UNCHANGED <<claim, creating, server, history>>

WriteSidecar(i) ==
    /\ proc[i] = "bound"
    /\ proc' = [proc EXCEPT ![i] = "ready"]
    /\ sidecar' = i
    /\ UNCHANGED <<sock, claim, creating, server, history>>

\* The PTY cannot be started, or the sidecar cannot be written.
StartFails(i) ==
    /\ proc[i] \in {"starting", "bound"}
    /\ proc' = [proc EXCEPT ![i] = "dead"]
    /\ IF proc[i] = "bound" THEN sock' = None /\ sidecar' = None ELSE UNCHANGED files
    /\ UNCHANGED <<claim, creating, server, history>>

\* shutdown(): the shell exited, or FrameClose, or SIGTERM.  Closing the
\* listener unlinks the socket path.
Shutdown(i) ==
    /\ proc[i] = "ready"
    /\ proc' = [proc EXCEPT ![i] = "closing"]
    /\ sock' = None
    /\ UNCHANGED <<sidecar, claim, creating, server, history>>

\* RunDaemon returns: its deferred calls remove both paths.
Exit(i) ==
    /\ proc[i] = "closing"
    /\ proc' = [proc EXCEPT ![i] = "dead"]
    /\ sock' = None /\ sidecar' = None
    /\ UNCHANGED <<claim, creating, server, history>>

\* kill -9: everything stays where it is.
Crash(i) ==
    /\ crashes < MaxCrashes
    /\ Alive(i)
    /\ proc' = [proc EXCEPT ![i] = "dead"]
    /\ crashes' = crashes + 1
    /\ UNCHANGED <<files, claim, creating, server, asked, condemned, resets>>

-----------------------------------------------------------------------------
(* Registry.Create, on the server or, when there is none, in the CLI, which
   holds the adoption lock meanwhile. *)

\* Mutant: an existing claim file is ignored.
CreateBegin_NoClaim(i) ==
    /\ proc[i] = "unborn"
    /\ creating = None
    /\ up => shown = None
    /\ sock = None
    /\ "launch" \in Delays \/ launching = {}
    /\ claim' = TRUE
    /\ creating' = i
    /\ proc' = [proc EXCEPT ![i] = "starting"]
    /\ UNCHANGED <<files, server, history>>

\* The name is free in the state manager (resolveName would pick another), the
\* socket path does not exist, and the claim file can be made.
CreateBegin(i) ==
    /\ proc[i] = "unborn"
    /\ creating = None
    /\ up => shown = None
    /\ sock = None /\ ~ claim
    /\ "launch" \in Delays \/ launching = {}
    /\ claim' = TRUE
    /\ creating' = i
    /\ proc' = [proc EXCEPT ![i] = "starting"]
    /\ UNCHANGED <<files, server, history>>

\* The readiness poll sees the sidecar with its nonce, a live PID and a socket
\* that can be dialed.
CreateReady(i) ==
    /\ creating = i
    /\ sidecar = i /\ Alive(i) /\ Dialable
    /\ creating' = None
    /\ claim' = FALSE
    /\ launching' = IF up THEN launching \cup {i} ELSE launching
    /\ UNCHANGED <<proc, files, up, tracked, shown, unreachable, watch, link, killing, history>>

CreateTimesOut(i) ==
    /\ creating = i
    /\ "start" \in Delays \/ ~ Alive(i)
    /\ creating' = None
    /\ claim' = FALSE
    /\ UNCHANGED <<proc, files, server, history>>

-----------------------------------------------------------------------------
(* The runtime. *)

\* The effect of onLaunched(i) on the tracked map, the state manager and the
\* watchers.  The watcher it replaces is stopped: it finishes a callback that
\* it has begun, and no more.
Launched(i, watchers) ==
    /\ tracked' = i
    /\ shown' = i
    /\ unreachable' = FALSE
    /\ watch' = [j \in Inst |-> IF j = i THEN "dialing"
                                ELSE IF watchers[j] \in {"dialing", "watching", "retry"} THEN "off"
                                ELSE watchers[j]]
    /\ link' = [j \in Inst |-> None]

OnLaunched(i) ==
    /\ i \in launching
    /\ "kill" \in Delays \/ killing = {}
    /\ "flag" \in Delays \/ \A j \in Inst : watch[j] \notin {"flag", "unflag"}
    /\ launching' = launching \ {i}
    /\ Launched(i, watch)
    /\ UNCHANGED <<proc, files, claim, creating, up, killing, history>>

\* Some daemon is on its way.
Starting == \E i \in Inst : proc[i] \in {"starting", "checked", "bound"}

\* adoptSessionsAtBoot, under the adoption lock.  A socket without a sidecar is
\* skipped, a dead daemon's files are removed.
Boot ==
    /\ ~ up /\ creating = None
    /\ "start" \in Delays \/ ~ Starting
    /\ up' = TRUE
    /\ IF sock # None /\ sidecar # None /\ Alive(sidecar)
       THEN Launched(sidecar, watch) /\ UNCHANGED files
       ELSE /\ IF sock # None /\ sidecar # None THEN sock' = None /\ sidecar' = None
               ELSE UNCHANGED files
            /\ UNCHANGED <<tracked, shown, unreachable, watch, link>>
    /\ UNCHANGED <<proc, claim, creating, launching, killing, history>>

\* The server is stopped or killed; the daemons live on.
ServerStops ==
    /\ up
    /\ crashes < MaxCrashes
    /\ crashes' = crashes + 1
    /\ up' = FALSE
    /\ creating' = None
    /\ launching' = {} /\ killing' = {}
    /\ tracked' = None /\ shown' = None /\ unreachable' = FALSE
    /\ watch' = [i \in Inst |-> "off"]
    /\ link' = [i \in Inst |-> None]
    /\ UNCHANGED <<proc, files, claim, asked, condemned, resets>>

-----------------------------------------------------------------------------
(* Registry.Watch and the callbacks it makes. *)

WatchStep(i, at) ==
    /\ watch' = [watch EXCEPT ![i] = at]
    /\ UNCHANGED <<proc, claim, creating, up, launching, killing, asked, condemned, crashes>>

\* Mutant: a lost connection is taken for an exit.
Lost_IsExit(i) == "exit"

\* No connection: onExit when the process is dead, onUnreachable(true) when it
\* is not, which checks the instance before it sets the flag.
Lost(i) == IF ~ Alive(i) THEN "exit" ELSE IF tracked = i THEN "flag" ELSE "retry"

DialOK(i) ==
    /\ watch[i] = "dialing"
    /\ Dialable
    /\ link' = [link EXCEPT ![i] = sock]
    /\ WatchStep(i, "watching")
    /\ UNCHANGED <<files, tracked, shown, unreachable, resets>>

DialTimesOut(i) ==
    /\ watch[i] = "dialing"
    /\ ~ Dialable
    /\ WatchStep(i, Lost(i))
    /\ UNCHANGED <<files, tracked, shown, unreachable, link, resets>>

\* The daemon at the other end has closed, or the connection is reset.
ReadFails(i) ==
    /\ watch[i] = "watching"
    /\ IF proc[link[i]] \in {"closing", "dead"} THEN UNCHANGED resets
       ELSE resets < MaxResets /\ resets' = resets + 1
    /\ link' = [link EXCEPT ![i] = None]
    /\ WatchStep(i, Lost(i))
    /\ UNCHANGED <<files, tracked, shown, unreachable>>

\* The second half of onUnreachable(true): by name.
Flag(i) ==
    /\ watch[i] = "flag"
    /\ unreachable' = (shown # None)
    /\ WatchStep(i, IF tracked = i THEN "retry" ELSE "off")
    /\ UNCHANGED <<files, tracked, shown, link, resets>>

\* Mutant: onUnreachable(false) is forgotten.
Reconnect_Silent(i) ==
    /\ watch[i] = "retry"
    /\ Dialable /\ sidecar = i
    /\ link' = [link EXCEPT ![i] = sock]
    /\ WatchStep(i, "watching")
    /\ UNCHANGED <<files, tracked, shown, unreachable, resets>>

\* A reconnect counts if the sidecar is this instance's.  Otherwise the loop
\* goes on, without looking at the process.
Reconnect(i) ==
    /\ watch[i] = "retry"
    /\ Dialable /\ sidecar = i
    /\ link' = [link EXCEPT ![i] = sock]
    /\ WatchStep(i, IF tracked = i THEN "unflag" ELSE "watching")
    /\ UNCHANGED <<files, tracked, shown, unreachable, resets>>

Unflag(i) ==
    /\ watch[i] = "unflag"
    /\ unreachable' = FALSE
    /\ WatchStep(i, IF tracked = i THEN "watching" ELSE "off")
    /\ UNCHANGED <<files, tracked, shown, link, resets>>

\* Mutant: the loop does not ask whether the process is dead.
RetryFails_Forever(i) == FALSE

RetryFails(i) ==
    /\ watch[i] = "retry"
    /\ ~ Dialable /\ ~ Alive(i)
    /\ WatchStep(i, "exit")
    /\ UNCHANGED <<files, tracked, shown, unreachable, link, resets>>

\* Mutant: onExit removes by name.
OnExit_ByName(i) ==
    /\ watch[i] = "exit"
    /\ tracked' = None /\ shown' = None /\ unreachable' = FALSE
    /\ WatchStep(i, "clean")
    /\ UNCHANGED <<files, link, resets>>

\* onExit's critical section.
OnExit(i) ==
    /\ watch[i] = "exit"
    /\ IF tracked = i
       THEN /\ tracked' = None /\ shown' = None /\ unreachable' = FALSE
            /\ WatchStep(i, "clean")
       ELSE WatchStep(i, "off") /\ UNCHANGED <<tracked, shown, unreachable>>
    /\ UNCHANGED <<files, link, resets>>

\* Mutant: the files are taken for the dead daemon's.
CleanCheck_Trusting(i) ==
    /\ watch[i] = "clean"
    /\ WatchStep(i, "rm")
    /\ UNCHANGED <<files, tracked, shown, unreachable, link, resets>>

\* removeStaleFiles: compare the sidecar ...
CleanCheck(i) ==
    /\ watch[i] = "clean"
    /\ WatchStep(i, IF sidecar = i THEN "rm" ELSE "off")
    /\ UNCHANGED <<files, tracked, shown, unreachable, link, resets>>

\* ... then remove both paths.
CleanRemove(i) ==
    /\ watch[i] = "rm"
    /\ sock' = None /\ sidecar' = None
    /\ WatchStep(i, "off")
    /\ UNCHANGED <<tracked, shown, unreachable, link, resets>>

-----------------------------------------------------------------------------
(* Service.Kill. *)

\* FrameClose goes to whoever listens; a systemd scope named in the sidecar,
\* if there is one, is told to stop.
KillStart(i) ==
    /\ up /\ shown = i
    /\ i \notin killing
    /\ killing' = killing \cup {i}
    /\ asked' = asked \cup {i}
    /\ \E unit \in SUBSET ({sidecar} \cap Inst) :
         condemned' = condemned \cup unit \cup (IF Dialable THEN {sock} ELSE {})
    /\ UNCHANGED <<proc, files, claim, creating, up, launching, tracked, shown, unreachable,
                   watch, link, resets, crashes>>

\* StateMgr.RemoveSession, by name.
KillFinish(i) ==
    /\ i \in killing
    /\ killing' = killing \ {i}
    /\ shown' = None /\ unreachable' = FALSE
    /\ UNCHANGED <<proc, files, claim, creating, up, launching, tracked, watch, link, history>>

-----------------------------------------------------------------------------
DaemonStep(i) == BindCheck(i) \/ Listen(i) \/ WriteSidecar(i) \/ Exit(i)
CreateStep(i) == CreateReady(i) \/ CreateTimesOut(i)
WatcherStep(i) ==
    \/ DialOK(i) \/ DialTimesOut(i) \/ Flag(i) \/ Reconnect(i) \/ Unflag(i)
    \/ RetryFails(i) \/ OnExit(i) \/ CleanCheck(i) \/ CleanRemove(i)
    \/ ReadFails(i)

Next ==
    \/ \E i \in Inst :
         \/ DaemonStep(i) \/ StartFails(i) \/ Shutdown(i) \/ Crash(i)
         \/ CreateBegin(i) \/ CreateStep(i) \/ OnLaunched(i)
         \/ WatcherStep(i)
         \/ KillStart(i) \/ KillFinish(i)
    \/ Boot \/ ServerStops

\* Processes and goroutines run and timers fire.  A shell need not exit unless
\* its daemon is told to, users need not do anything, and nobody has to start
\* the server again.
Fairness ==
    \A i \in Inst :
        /\ WF_vars(DaemonStep(i)) /\ WF_vars(i \in condemned /\ Shutdown(i))
        /\ WF_vars(CreateStep(i)) /\ WF_vars(OnLaunched(i))
        /\ WF_vars(WatcherStep(i)) /\ WF_vars(KillFinish(i))

Spec == Init /\ [][Next]_vars
FairSpec == Spec /\ Fairness
-----------------------------------------------------------------------------
(* Properties. *)

\* "we must not steal an active session": of the daemons started for a name at
\* most one listens, so the socket path leads to every session that is alive.
OneDaemon ==
    \A i, j \in Inst : {proc[i], proc[j]} \subseteq {"bound", "ready"} => i = j

\* "no ... cleanup belonging to the old instance ever removes ... files ... of
\* the new instance": a serving daemon can be dialed and adopted under its
\* name.
FilesKept == \A i \in Inst : proc[i] = "ready" => sock = i /\ sidecar = i

\* "live PIDs are sacred": while the server runs, a serving daemon that no user
\* asked to kill is tracked and shown, however its connections, its
\* predecessors' callbacks and server restarts interleave.
LiveShown ==
    \A i \in Inst :
        up /\ proc[i] = "ready" /\ creating # i /\ i \notin launching \cup asked =>
            tracked = i /\ shown = i

\* The tracked map loses an instance only to its successor, to the end of the
\* server, or because the process is dead: no callback of another instance
\* takes it out, whatever the delays.
TrackedSacred ==
    [][\A i \in Inst : tracked = i /\ tracked' # i =>
          ~ Alive(i) \/ ~ up' \/ tracked' # None]_vars

\* A session whose watcher is connected is not marked unreachable.
UnreachableHonest ==
    \A i \in Inst : tracked = i /\ shown = i /\ watch[i] = "watching" => ~ unreachable

\* "Daemon killed with kill -9 is removed like a normal exit": a dead session
\* does not stay in the list.
GhostsGo == \A i \in Inst : shown = i /\ proc[i] = "dead" ~> shown # i
=============================================================================
