------------------------------ MODULE Scheduler ------------------------------
(***************************************************************************)
(* One schedule of pkg/scheduler: the store, the runner's one-second tick,  *)
(* the HTTP requests that edit a schedule or run it by hand, and the cap on *)
(* the sessions it may own.  Times are instants of one clock; the zero time *)
(* of Go is 0.  A cron spec is abstracted to its period.                    *)
(*                                                                          *)
(* The runner and the manual run both work on a copy of the job taken       *)
(* before a launch that takes seconds, and write it back afterwards.  The   *)
(* id may be the client's, so a removed schedule may be posted again.       *)
(***************************************************************************)
EXTENDS WallClock, FiniteSets

CONSTANTS
    Settings,      \* what users ask for: enabled, cron period, max_concurrency, remote host
    TagTTL,        \* sessionattrs.tombstoneTTL
    MaxLaunches,   \* bound on the sessions ever launched
    MaxEdits,      \* bound on POST, PUT and DELETE
    MaxFaults      \* bound on failed saves, kills and launches, and on restarts

ASSUME SchedulerAssumption ==
    /\ Settings \subseteq [enabled: BOOLEAN, period: Nat \ {0}, cap: Nat, remote: BOOLEAN]
    /\ {TagTTL, MaxLaunches, MaxEdits, MaxFaults} \subseteq Nat

NoJob == [enabled |-> FALSE, period |-> 0, cap |-> 0, remote |-> FALSE, next |-> 0, runs |-> 0]
Launchers == {"tick", "run"}    \* Runner.runOnce, POST /schedules/{id}/run
NoPut == [pc |-> "idle", job |-> NoJob]
Idle == [pc |-> "idle", job |-> NoJob, at |-> 0, session |-> 0]

VARIABLES
    jobs,      \* the store's copy of the schedule, NoJob once removed
    jobsFile,  \* schedules.json
    launch,    \* what each launcher is doing, with its copy of the job
    put,       \* the PUT request: its phase, and the job it will write
    daemons,   \* the live local sessions of the schedule, numbered as they were launched
    tags,      \* the sessions whose attribute still names the schedule, and since when
    launches,  \* sessions launched so far
    edits,     \* requests so far
    faults,    \* failures so far
    intent,    \* history: the settings the user last had accepted
    fired,     \* history: the instants the tick has launched for
    twice,     \* history: it launched twice for one of them
    raced,     \* history: a request wrote back a next run the tick had launched for
    excused    \* history: launches overlapped, a kill, a save or the server failed, or a
               \* schedule was posted under the id of a removed one with too many sessions

schVars == <<jobs, jobsFile, launch, put, daemons, tags, launches, edits, faults, intent, fired, twice, raced, excused>>

Job(s, runs) == [enabled |-> s.enabled, period |-> s.period, cap |-> s.cap, remote |-> s.remote, next |-> 0, runs |-> runs]
SettingsOf(j) == [enabled |-> j.enabled, period |-> j.period, cap |-> j.cap, remote |-> j.remote]
NextRunFor(period, now) == (now - (now % period)) + period
WithNext(j, now) == [j EXCEPT !.next = IF j.enabled THEN NextRunFor(j.period, now) ELSE 0]

SchedulerTypeOK ==
    /\ jobs = NoJob \/ SettingsOf(jobs) \in Settings
    /\ jobsFile = NoJob \/ SettingsOf(jobsFile) \in Settings
    /\ jobs.next \in 0 .. MaxTime + MaxTime /\ jobs.runs \in 0 .. MaxLaunches
    /\ \A l \in Launchers : launch[l].pc \in {"idle", "due", "create", "tag", "mark", "fail"}
    /\ put.pc \in {"idle", "read", "cap"}
    /\ clock \in 1 .. MaxTime /\ launches \in 0 .. MaxLaunches /\ edits \in 0 .. MaxEdits /\ faults \in 0 .. MaxFaults
    /\ daemons \subseteq 1 .. launches /\ DOMAIN tags \subseteq 1 .. launches
    /\ intent = SettingsOf(NoJob) \/ intent \in Settings
    /\ fired \subseteq 0 .. MaxTime + MaxTime /\ {twice, raced, excused} \subseteq BOOLEAN

SchedulerInit ==
    /\ jobs = NoJob /\ jobsFile = NoJob
    /\ launch = [l \in Launchers |-> Idle] /\ put = NoPut
    /\ clock = 1 /\ daemons = {} /\ tags = <<>> /\ launches = 0 /\ edits = 0 /\ faults = 0
    /\ intent = SettingsOf(NoJob) /\ fired = {} /\ twice = FALSE /\ raced = FALSE /\ excused = FALSE

\* Requests and failures are bounded.
Counted == edits < MaxEdits /\ edits' = edits + 1
Fault(failed) == faults' = faults + (IF failed THEN 1 ELSE 0) /\ faults' <= MaxFaults

Busy == put.pc # "idle" \/ \E l \in Launchers : launch[l].pc # "idle"
Tagged == daemons \cap DOMAIN tags

\* Has the tick launched for the next run of j, or for a later one, and marked it?
Repeats(j) ==
    /\ j.enabled /\ launch["tick"].pc \notin {"tag", "mark"}
    /\ \E f \in fired : j.next <= f

\* saveLocked: the store changes in memory whether or not the file does.
Save(j, written) == jobs' = j /\ jobsFile' = IF written THEN j ELSE jobsFile

-----------------------------------------------------------------------------
(* The store's requests.                                                    *)

\* POST /schedules and DELETE /schedules/{id}.
Add(s, written) ==
    /\ Counted /\ Fault(~written)
    /\ jobs = NoJob
    /\ Save(WithNext(Job(s, 0), clock), written)
    /\ intent' = s
    /\ excused' = (excused \/ Busy \/ ~written \/ (s.cap > 0 /\ Cardinality(Tagged) > s.cap))
    /\ UNCHANGED <<launch, put, clock, daemons, tags, launches, fired, twice, raced>>

RemoveSchedule(written) ==
    /\ Counted /\ Fault(~written)
    /\ jobs # NoJob
    /\ Save(NoJob, written)
    /\ intent' = SettingsOf(NoJob)
    /\ excused' = (excused \/ ~written)
    /\ UNCHANGED <<launch, put, clock, daemons, tags, launches, fired, twice, raced>>

\* PUT /schedules/{id} reads the job and prepares the new one, then writes it.
PutReads(s) ==
    /\ Counted
    /\ put.pc = "idle" /\ jobs # NoJob
    /\ put' = [pc |-> "read", job |-> WithNext(Job(s, jobs.runs), clock)]
    /\ excused' = (excused \/ Busy)
    /\ UNCHANGED <<jobs, jobsFile, launch, clock, daemons, tags, launches, faults, intent, fired, twice, raced>>

\* Update refuses a job that is gone, and keeps the run count when the caller has none.
Found(j) == j # NoJob

Updated(cur, j) == [j EXCEPT !.runs = IF j.runs = 0 THEN cur.runs ELSE j.runs]

PutWrites(written) ==
    /\ Fault(~written)
    /\ put.pc = "read"
    /\ IF Found(jobs)
       THEN /\ Save(Updated(jobs, put.job), written)
            /\ raced' = (raced \/ Repeats(put.job))
       ELSE UNCHANGED <<jobs, jobsFile, raced>>
    /\ intent' = IF jobs # NoJob THEN SettingsOf(put.job) ELSE intent
    /\ put' = IF Found(jobs) /\ written /\ put.job.cap > 0 THEN [put EXCEPT !.pc = "cap"] ELSE NoPut
    /\ excused' = (excused \/ ~written)
    /\ UNCHANGED <<launch, clock, daemons, tags, launches, edits, fired, twice>>

\* EnforceScheduleCap: kill the oldest tagged sessions until at most keep are left.
Victims(keep) == {s \in Tagged : Cardinality({o \in Tagged : o > s}) >= keep}

Enforce(keep, failed) ==
    /\ failed \subseteq Victims(keep)
    /\ daemons' = daemons \ (Victims(keep) \ failed)

PutCaps(failed) ==
    /\ Fault(failed # {})
    /\ put.pc = "cap"
    /\ Enforce(put.job.cap, failed)
    /\ put' = NoPut
    /\ excused' = (excused \/ failed # {})
    /\ UNCHANGED <<jobs, jobsFile, launch, clock, tags, launches, edits, intent, fired, twice, raced>>

-----------------------------------------------------------------------------
(* The runner's tick and the manual run.                                    *)

\* runOnce looks at the jobs List returned; the request takes whatever Get returns.
DueNow(j) == j.enabled /\ j.next <= clock

Picks(l) ==
    /\ launch[l].pc = "idle" /\ jobs # NoJob
    /\ l = "tick" => DueNow(jobs)
    /\ launch' = [launch EXCEPT ![l] = [Idle EXCEPT !.pc = "due", !.job = jobs, !.at = clock]]
    /\ excused' = (excused \/ Busy)
    /\ UNCHANGED <<jobs, jobsFile, put, clock, daemons, tags, launches, edits, faults, intent, fired, twice, raced>>

\* A schedule of a peer that is offline only gets its next run; a launch that fails too.
\* Both write the whole copy back.
PutsOff(written) ==
    LET t == launch["tick"]
        j == [t.job EXCEPT !.next = NextRunFor(t.job.period, t.at)] IN
    /\ Fault(~written)
    /\ t.pc = "fail" \/ (t.pc = "due" /\ t.job.remote)
    /\ IF Found(jobs) THEN Save(Updated(jobs, j), written) ELSE UNCHANGED <<jobs, jobsFile>>
    /\ intent' = IF jobs # NoJob THEN SettingsOf(j) ELSE intent
    /\ launch' = [launch EXCEPT !["tick"] = Idle]
    /\ excused' = (excused \/ ~written \/ (Found(jobs) /\ SettingsOf(jobs) # SettingsOf(j)))
    /\ UNCHANGED <<put, clock, daemons, tags, launches, edits, fired, twice, raced>>

MakesRoom(l, failed) ==
    /\ Fault(failed # {})
    /\ launch[l].pc = "due"
    /\ IF launch[l].job.cap > 0 THEN Enforce(launch[l].job.cap - 1, failed)
                                ELSE failed = {} /\ UNCHANGED daemons
    /\ launch' = [launch EXCEPT ![l].pc = "create"]
    /\ excused' = (excused \/ failed # {})
    /\ UNCHANGED <<jobs, jobsFile, put, clock, tags, launches, edits, intent, fired, twice, raced>>

\* Service.Create.  A remote session is only asked for and never among the local daemons.
Launches(l) ==
    /\ launch[l].pc = "create" /\ launches < MaxLaunches
    /\ launches' = launches + 1
    /\ daemons' = IF launch[l].job.remote THEN daemons ELSE daemons \cup {launches'}
    /\ launch' = [launch EXCEPT ![l].pc = IF launch[l].job.remote THEN "mark" ELSE "tag", ![l].session = launches']
    /\ fired' = IF l = "tick" THEN fired \cup {launch[l].job.next} ELSE fired
    /\ twice' = (twice \/ (l = "tick" /\ launch[l].job.next \in fired))
    /\ UNCHANGED <<jobs, jobsFile, put, clock, tags, edits, faults, intent, raced, excused>>

LaunchFails(l) ==
    /\ Fault(TRUE)
    /\ launch[l].pc = "create"
    /\ launch' = [launch EXCEPT ![l] = IF l = "tick" THEN [@ EXCEPT !.pc = "fail"] ELSE Idle]
    /\ UNCHANGED <<jobs, jobsFile, put, clock, daemons, tags, launches, edits, intent, fired, twice, raced, excused>>

\* createLocal records the owner only after the daemon is up.
Tags(l) ==
    /\ launch[l].pc = "tag"
    /\ tags' = [o \in DOMAIN tags \cup {launch[l].session} |-> IF o = launch[l].session THEN clock ELSE tags[o]]
    /\ launch' = [launch EXCEPT ![l].pc = "mark"]
    /\ UNCHANGED <<jobs, jobsFile, put, clock, daemons, launches, edits, faults, intent, fired, twice, raced, excused>>

\* MarkRan.  The manual run writes back the next run it read before the launch.
NextAfter(l) == IF l = "tick" THEN NextRunFor(launch[l].job.period, launch[l].at) ELSE launch[l].job.next

MarkRan(l, written) ==
    /\ Fault(~written)
    /\ launch[l].pc = "mark"
    /\ IF jobs = NoJob THEN UNCHANGED <<jobs, jobsFile, raced>>
       ELSE /\ Save([jobs EXCEPT !.next = NextAfter(l), !.runs = @ + 1], written)
            /\ raced' = (raced \/ (l = "run" /\ Repeats([jobs EXCEPT !.next = NextAfter(l)])))
    /\ launch' = [launch EXCEPT ![l] = Idle]
    /\ UNCHANGED <<put, clock, daemons, tags, launches, edits, intent, fired, twice, excused>>

-----------------------------------------------------------------------------
\* reconcileNextRuns, run once when the runner starts.
Reconciled_KeepsPast(j) == j

Reconciled(j) == IF j.enabled THEN WithNext(j, clock) ELSE j

\* The server dies and comes back: it has only the file, and the daemons live on.
Restart(written) ==
    /\ Fault(TRUE)
    /\ launch' = [l \in Launchers |-> Idle] /\ put' = NoPut
    /\ jobs' = Reconciled(jobsFile)
    /\ jobsFile' = IF written THEN jobs' ELSE jobsFile
    /\ intent' = SettingsOf(jobsFile)
    /\ excused' = (excused \/ Busy)
    /\ UNCHANGED <<clock, daemons, tags, launches, edits, fired, twice, raced>>

SessionEnds(s) ==
    /\ s \in daemons
    /\ daemons' = daemons \ {s}
    /\ UNCHANGED <<jobs, jobsFile, launch, put, clock, tags, launches, edits, faults, intent, fired, twice, raced, excused>>

\* Store.Prune takes a scheduled session that is neither hidden nor in the background for
\* a tombstone, and drops the record that names its schedule when it is old enough.
PrunesTag(s) ==
    /\ s \in DOMAIN tags /\ clock > tags[s] + TagTTL
    /\ tags' = [o \in DOMAIN tags \ {s} |-> tags[o]]
    /\ UNCHANGED <<jobs, jobsFile, launch, put, clock, daemons, launches, edits, faults, intent, fired, twice, raced, excused>>

SchedulerTick ==
    /\ ClockAdvances
    /\ UNCHANGED <<jobs, jobsFile, launch, put, daemons, tags, launches, edits, faults, intent, fired, twice, raced, excused>>

SchedulerNext ==
    \/ \E written \in BOOLEAN :
          \/ \E s \in Settings : Add(s, written)
          \/ RemoveSchedule(written) \/ PutWrites(written) \/ PutsOff(written) \/ Restart(written)
          \/ \E l \in Launchers : MarkRan(l, written)
    \/ \E s \in Settings : PutReads(s)
    \/ \E failed \in SUBSET daemons :
          PutCaps(failed) \/ \E l \in Launchers : MakesRoom(l, failed)
    \/ \E l \in Launchers : Picks(l) \/ Launches(l) \/ LaunchFails(l) \/ Tags(l)
    \/ \E s \in 1 .. launches : SessionEnds(s) \/ PrunesTag(s)
    \/ SchedulerTick

SchedulerSpec == SchedulerInit /\ [][SchedulerNext]_<<schVars, clock>>

-----------------------------------------------------------------------------
(* The tick launches at most once for one instant of the schedule, through   *)
(* slow launches, failed saves and restarts: runOnce moves the next run on    *)
(* and reconcileNextRuns skips the instants missed.  (A manual run or an edit *)
(* that spans a tick puts back a next run the tick has launched for.)         *)
OncePerInstant == twice => raced

(* What the user last had accepted is what the store holds, whatever launch   *)
(* was under way: a removed schedule does not come back with a late write,    *)
(* and a finished launch writes only the run it made.  (PutsOff writes the    *)
(* whole copy the tick took, and with it settings edited since: intent        *)
(* follows that overwrite.)                                                   *)
IntentKept == SettingsOf(jobs) = intent

(* Between launches a schedule owns at most max_concurrency tagged local      *)
(* sessions, whoever launched them: EnforceScheduleCap leaves room for one    *)
(* before every launch and an edit that lowers the cap prunes at once.        *)
(* (A schedule posted under the id of a removed one takes its sessions over,  *)
(* and nothing prunes them before its first launch.)                          *)
CapKept == (~Busy /\ jobs # NoJob /\ jobs.cap > 0 /\ ~excused) => Cardinality(Tagged) <= jobs.cap

(* A schedule runs once per instant, as its user last set it, within its cap.  *)
SchedulerInv == OncePerInstant /\ IntentKept /\ CapKept
=============================================================================
