--------------------------- MODULE WikiSupervisor ---------------------------
(***************************************************************************)
(* The supervisor of the wiki-viewer-lite child process: the loop that     *)
(* keeps the child alive, an install that replaces the directory the child *)
(* runs from, and the shutdown of the server.  The three run in goroutines *)
(* of their own; the loop parks in a condition variable, so a Broadcast    *)
(* wakes it only if it is already waiting.                                 *)
(***************************************************************************)
EXTENDS Naturals

CONSTANTS MaxInstalls, MaxExits, MaxLosses
\* bounds: installs requested, times the child exits by itself, power losses

ASSUME WikiAssumption == MaxInstalls \in Nat /\ MaxExits \in Nat /\ MaxLosses \in Nat

VARIABLES
  loop,        \* program counter of Supervisor.loop
  install,     \* program counter of runInstall
  stop,        \* program counter of Stop
  child,       \* the process: "none", "starting", "serving" or "exited" (not yet reaped)
  cmd,         \* s.cmd is set
  port,        \* s.port is set
  paused, parked,
  cancelled,   \* loopCtx is done
  sawChild,    \* the command Stop read
  live, old, staged,   \* the install directory, its backup, the staging directory
  remover,     \* the goroutine that removes the backup is still running
  forced,      \* history: pause gave up after 15 seconds
  overlap,     \* history: a swap began while the previous remover was running
  counts       \* [installs, exits, losses] so far

wikiVars == <<loop, install, stop, child, cmd, port, paused, parked, cancelled, sawChild,
              live, old, staged, remover, forced, overlap, counts>>

dirs == <<live, old, staged, remover, overlap>>
flags == <<cmd, port, paused, parked, cancelled, sawChild>>
history == <<forced, counts>>

Copy == {"absent", "whole", "partial"}

Waits == {"waitPause", "waitInstall"}       \* the two calls of cond.Wait

WikiTypeOK ==
  /\ loop \in {"top", "gate", "check", "park", "spawn", "publish", "starting",
               "running", "backoff", "done"} \cup Waits
  /\ install \in {"idle", "staging", "pausing", "swap", "swapped", "resume", "finish",
                  "failed"}
  /\ stop \in {"no", "cancelled", "waiting", "killing", "done"}
  /\ child \in {"none", "starting", "serving", "exited"}
  /\ <<cmd, port, paused, parked, cancelled, sawChild>> \in
       BOOLEAN \X BOOLEAN \X BOOLEAN \X BOOLEAN \X BOOLEAN \X BOOLEAN
  /\ <<live, old, staged>> \in Copy \X Copy \X Copy
  /\ <<remover, forced, overlap>> \in BOOLEAN \X BOOLEAN \X BOOLEAN
  /\ counts \in [installs: 0..MaxInstalls, exits: 0..MaxExits, losses: 0..MaxLosses]

\* A server that has just started: nothing runs and nothing is in memory.
Fresh ==
  /\ loop' = "top" /\ install' = "idle" /\ stop' = "no" /\ child' = "none"
  /\ cmd' = FALSE /\ port' = FALSE /\ paused' = FALSE /\ parked' = FALSE
  /\ cancelled' = FALSE /\ sawChild' = FALSE /\ remover' = FALSE
  /\ UNCHANGED <<forced, overlap>>

WikiInit ==
  /\ loop = "top" /\ install = "idle" /\ stop = "no" /\ child = "none"
  /\ cmd = FALSE /\ port = FALSE /\ paused = FALSE /\ parked = FALSE
  /\ cancelled = FALSE /\ sawChild = FALSE /\ remover = FALSE
  /\ forced = FALSE /\ overlap = FALSE
  /\ live \in {"absent", "whole"} /\ old = "absent" /\ staged = "absent"
  /\ counts = [installs |-> 0, exits |-> 0, losses |-> 0]

Alive == child \in {"starting", "serving"}

\* cond.Broadcast: whoever waits goes on; nobody else hears it.
Woken(l) == CASE l = "waitPause" -> "gate" [] l = "waitInstall" -> "top" [] OTHER -> l

---------------------------------------------------------------------------
(* The loop *)

LoopTop ==
  /\ loop = "top"
  /\ loop' = IF cancelled THEN "done" ELSE "gate"
  /\ UNCHANGED <<install, stop, child, cmd, port, paused, cancelled, sawChild, dirs, history>>
  /\ parked' = FALSE

\* for s.paused && ctx.Err() == nil { parked = true; cond.Wait() }
LoopGate ==
  /\ loop = "gate"
  /\ IF paused /\ ~cancelled
       THEN loop' = "waitPause" /\ parked' = TRUE
       ELSE loop' = (IF cancelled THEN "done" ELSE "check") /\ parked' = FALSE
  /\ UNCHANGED <<install, stop, child, cmd, port, paused, cancelled, sawChild, dirs, history>>

\* Installed() is read without the lock; the loop parks in a second step.
LoopChecks ==
  /\ loop = "check"
  /\ loop' = IF live = "whole" THEN "spawn" ELSE "park"
  /\ UNCHANGED <<install, stop, child, flags, dirs, history>>

LoopParks ==
  /\ loop = "park"
  /\ loop' = "waitInstall" /\ parked' = TRUE
  /\ UNCHANGED <<install, stop, child, cmd, port, paused, cancelled, sawChild, dirs, history>>

LoopSpawns ==
  /\ loop = "spawn"
  /\ loop' = "publish" /\ child' = "starting"
  /\ UNCHANGED <<install, stop, flags, dirs, history>>

LoopSpawnFails ==
  /\ loop = "spawn" /\ loop' = "backoff"
  /\ UNCHANGED <<install, stop, child, flags, dirs, history>>

LoopPublishes ==
  /\ loop = "publish"
  /\ loop' = "starting" /\ cmd' = TRUE
  /\ UNCHANGED <<install, stop, child, port, paused, parked, cancelled, sawChild, dirs, history>>

\* The select of the start phase takes any branch that is ready.
LoopStarted ==
  /\ loop = "starting" /\ child = "serving"
  /\ loop' = "running" /\ port' = TRUE
  /\ UNCHANGED <<install, stop, child, cmd, paused, parked, cancelled, sawChild, dirs, history>>

\* Early exit, 30 seconds without a port, or cancellation.  terminate() sends
\* SIGTERM, then SIGKILL, and reaps.
LoopStartFails ==
  /\ loop = "starting"
  /\ child = "exited" \/ child = "starting" \/ cancelled
  /\ child' = "none" /\ cmd' = FALSE
  /\ loop' = IF cancelled THEN "done" ELSE "backoff"
  /\ UNCHANGED <<install, stop, port, paused, parked, cancelled, sawChild, dirs, history>>

LoopReaps ==
  /\ loop = "running" /\ child = "exited"
  /\ child' = "none" /\ cmd' = FALSE /\ port' = FALSE
  /\ loop' = IF cancelled THEN "done" ELSE IF paused THEN "top" ELSE "backoff"
  /\ UNCHANGED <<install, stop, paused, parked, cancelled, sawChild, dirs, history>>

LoopRetries ==
  /\ loop = "backoff" /\ loop' = "top"
  /\ UNCHANGED <<install, stop, child, flags, dirs, history>>

---------------------------------------------------------------------------
(* The child *)

ChildServes ==
  /\ child = "starting" /\ child' = "serving"
  /\ UNCHANGED <<loop, install, stop, flags, dirs, history>>

\* A signal that the child obeys.
ChildObeys ==
  /\ Alive /\ cmd /\ (install = "pausing" \/ (stop = "waiting" /\ sawChild))
  /\ child' = "exited"
  /\ UNCHANGED <<loop, install, stop, flags, dirs, history>>

ChildExits ==
  /\ Alive /\ counts.exits < MaxExits
  /\ child' = "exited" /\ counts' = [counts EXCEPT !.exits = @ + 1]
  /\ UNCHANGED <<loop, install, stop, flags, dirs, forced>>

---------------------------------------------------------------------------
(* An install *)

StartInstall ==
  /\ install = "idle" /\ counts.installs < MaxInstalls /\ stop = "no"
  /\ install' = "staging" /\ staged' = "partial"
  /\ counts' = [counts EXCEPT !.installs = @ + 1]
  /\ UNCHANGED <<loop, stop, child, flags, live, old, remover, overlap, forced>>

\* Stage: npm pack, tar, and a look at the two files Installed() needs.
StageDone ==
  /\ install = "staging"
  /\ \/ install' = "pausing" /\ staged' = "whole" /\ paused' = TRUE
     \/ install' = "failed" /\ staged' = "absent" /\ UNCHANGED paused
  /\ UNCHANGED <<loop, stop, child, cmd, port, parked, cancelled, sawChild, live, old,
                 remover, overlap, history>>

\* pause() returns once the loop is parked and has no command.
Quiet_NoChildYet == ~cmd
Quiet == parked /\ ~cmd

PauseReturns ==
  /\ install = "pausing" /\ Quiet
  /\ install' = "swap"
  /\ UNCHANGED <<loop, stop, child, flags, dirs, history>>

\* After 15 seconds it kills what it finds and goes on without waiting.
PauseGivesUp ==
  /\ install = "pausing" /\ ~Quiet
  /\ install' = "swap" /\ forced' = TRUE
  /\ child' = IF cmd /\ Alive THEN "exited" ELSE child
  /\ UNCHANGED <<loop, stop, flags, dirs, counts>>

\* RecoverInstall: a crash between the two renames left no live directory.
RecoverInstall(l, o) == IF l = "absent" THEN <<o, "absent">> ELSE <<l, o>>

\* The live directory and its backup become the pair r.
Put(r) == live' = r[1] /\ old' = r[2]

\* Commit, first half: recover, clear the earlier backup, move the live
\* directory aside.
MovedAside_NoRecovery(l, o) == <<"absent", l>>
MovedAside(l, o) == <<"absent", RecoverInstall(l, o)[1]>>

CommitMovesAside ==
  /\ install = "swap"
  /\ Put(MovedAside(live, old))
  /\ overlap' = (overlap \/ remover)
  /\ install' = "swapped"
  /\ UNCHANGED <<loop, stop, child, flags, staged, remover, history>>

\* One of the calls of the first half fails: the rename of the recovery or the
\* first file of RemoveAll, RemoveAll half-way, or the rename of the live
\* directory.  What the calls before it did stays.
CommitGivesUp ==
  /\ install = "swap"
  /\ \/ old # "absent" /\ UNCHANGED <<live, old>>
     \/ "absent" \notin {live, old} /\ old' = "partial" /\ UNCHANGED live
     \/ {live, old} # {"absent"} /\ Put(<<RecoverInstall(live, old)[1], "absent">>)
  /\ overlap' = (overlap \/ remover)
  /\ install' = "resume"
  /\ UNCHANGED <<loop, stop, child, flags, staged, remover, history>>

\* Second half: the staged directory becomes the live one, or the rename fails
\* and the old one is put back.  The backup is removed in the background.
CommitMovesIn ==
  /\ install = "swapped"
  /\ \/ live' = staged /\ staged' = "absent" /\ remover' = (remover \/ old # "absent")
        /\ UNCHANGED old
     \/ Put(RecoverInstall(live, old)) /\ UNCHANGED <<staged, remover>>
     \/ UNCHANGED <<live, old, staged, remover>>      \* and that fails too
  /\ install' = "resume"
  /\ UNCHANGED <<loop, stop, child, flags, overlap, history>>

\* RemoveAll takes a while.
RemoverWorks ==
  /\ remover
  /\ old' = IF old = "whole" THEN "partial" ELSE "absent"
  /\ remover' = (old = "whole")
  /\ UNCHANGED <<loop, install, stop, child, flags, live, staged, overlap, history>>

Resume ==
  /\ install = "resume"
  /\ install' = "finish" /\ paused' = FALSE /\ loop' = Woken(loop)
  /\ UNCHANGED <<stop, child, cmd, port, parked, cancelled, sawChild, dirs, history>>

\* installing = false; a successful install broadcasts once more.
InstallReturns ==
  /\ install \in {"finish", "failed"}
  /\ install' = "idle"
  /\ loop' = IF install = "finish" /\ staged = "absent" THEN Woken(loop) ELSE loop
  /\ UNCHANGED <<stop, child, flags, dirs, history>>

---------------------------------------------------------------------------
(* Shutdown, and a machine that loses power *)

StopCancels ==
  /\ stop = "no" /\ stop' = "cancelled" /\ cancelled' = TRUE
  /\ UNCHANGED <<loop, install, child, cmd, port, paused, parked, sawChild, dirs, history>>

StopReads ==
  /\ stop = "cancelled" /\ stop' = "waiting"
  /\ sawChild' = cmd /\ loop' = Woken(loop)
  /\ UNCHANGED <<install, child, cmd, port, paused, parked, cancelled, dirs, history>>

\* waitForLoop: the loop has returned, or 5 seconds are over.
KillAfterWait == sawChild

StopWaits ==
  /\ stop = "waiting"
  /\ stop' = IF loop = "done" \/ ~KillAfterWait THEN "done" ELSE "killing"
  /\ UNCHANGED <<loop, install, child, flags, dirs, history>>

StopKills ==
  /\ stop = "killing" /\ stop' = "done"
  /\ child' = IF Alive THEN "exited" ELSE child
  /\ UNCHANGED <<loop, install, flags, dirs, history>>

\* What is on the disk stays; Start recovers it.
PowerLoss ==
  /\ counts.losses < MaxLosses
  /\ counts' = [counts EXCEPT !.losses = @ + 1]
  /\ Put(RecoverInstall(live, old)) \/ UNCHANGED <<live, old>>   \* the rename may fail
  /\ UNCHANGED staged
  /\ Fresh

WikiNext ==
  \/ LoopTop \/ LoopGate \/ LoopChecks \/ LoopParks \/ LoopSpawns \/ LoopSpawnFails
  \/ LoopPublishes \/ LoopStarted \/ LoopStartFails \/ LoopReaps \/ LoopRetries
  \/ ChildServes \/ ChildObeys \/ ChildExits
  \/ StartInstall \/ StageDone \/ PauseReturns \/ PauseGivesUp \/ CommitMovesAside
  \/ CommitGivesUp \/ CommitMovesIn \/ RemoverWorks \/ Resume \/ InstallReturns
  \/ StopCancels \/ StopReads \/ StopWaits \/ StopKills \/ PowerLoss

WikiSpec == WikiInit /\ [][WikiNext]_wikiVars

---------------------------------------------------------------------------
(* Properties *)

\* The directory is never swapped under a live child, except when pause gave up
\* after 15 seconds: that the loop has no command is not enough, it may be about
\* to publish one.
SwapAlone == install \in {"swap", "swapped"} /\ Alive => forced

\* No step destroys the last whole copy, be it live or the backup: neither a
\* swap, nor one that fails half-way, nor power loss between its renames and
\* the recovery after it.  The exception is a swap that begins while the
\* remover of the previous one is still at work.
LastCopyKept ==
  [][("whole" \in {live, old} => "whole" \in {live, old}') \/ overlap']_wikiVars

\* When Stop returns, the child it found is dead and no other has been started,
\* even if the child ignores SIGTERM.  A child that the loop had not published
\* when Stop looked for one may be alive.
StopReaches == stop = "done" /\ sawChild => ~Alive

\* The loop does not sleep through an install: while it waits for one, no whole
\* copy is in place with no install running, because whoever put it there also
\* wakes the loop, even if the loop had looked before and parked after.  The
\* exceptions are a pause that was forced (the loop then parks at its own time)
\* and a server that is stopping.
InstallWakes ==
  loop = "waitInstall" /\ live = "whole" /\ install = "idle" => cancelled \/ forced

\* Loop, install and Stop keep out of each other's way and do not miss each other.
SupervisorInv == SwapAlone /\ StopReaches /\ InstallWakes
=============================================================================
