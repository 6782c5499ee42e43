----------------------------- MODULE GroupNaming -----------------------------
(***************************************************************************)
(* groupNamingCoordinator for one group.  A change of membership starts a   *)
(* debounced job, whose timer runs one automatic attempt in a goroutine of  *)
(* its own; an attempt that the gate turns away waits in a timer that        *)
(* nothing cancels.  A membership stands for its fingerprint, and a          *)
(* generated name for the membership it was generated from.                  *)
(***************************************************************************)
EXTENDS NameGate

CONSTANTS
    Fingerprints,    \* memberships of two sessions or more
    Editors,         \* requests that change the tree, at once
    Attempts,        \* goroutines and retry timers, at once
    MaxTreeEdits,    \* bound on changes of the tree
    MaxNameCommands  \* bound on what users do with the name

None == "none"
User == "user"

VARIABLES
    group,      \* the record in the group store
    job,        \* jobs[id]: the wanted membership and whether its timer is armed
    edit,       \* per editor, what is left of its request
    attempt,    \* runGeneration and scheduleRetry
    force,      \* the explicit rename in progress
    groupGate,
    typed,      \* history: the user's last word on the name was one of their own
    beaten,      \* history: it was said while a checked result was being stored
    overtaken,  \* history: the last edit was not observed, as its save failed, or was
                \* observed after, or compared with, another
    settled,    \* history: this membership was named, given up, or left to the user
    treeEdits, commands

groupNamingVars == <<group, job, edit, attempt, force, groupGate, typed, beaten, overtaken, settled, treeEdits, commands>>

NoRun == [pc |-> "idle", fp |-> None, at |-> 0, reset |-> FALSE]
NoEdit == [pc |-> "idle", before |-> None, after |-> None, mode |-> "auto"]
NoNaming == [fp |-> None, armed |-> FALSE]

NamingTypeOK ==
    /\ group \in [fp : Fingerprints \cup {None}, name : Fingerprints \cup {None, User},
                  mode : {"auto", "manual"}, live : BOOLEAN]
    /\ job \in [fp : Fingerprints \cup {None}, armed : BOOLEAN]
    /\ \A e \in Editors : edit[e].pc \in {"idle", "read", "observe", "cancel"}
    /\ \A r \in Attempts : attempt[r].pc \in {"idle", "begin", "blocked", "retry", "generating", "apply"}
    /\ force.pc \in {"idle", "generating", "apply"}
    /\ groupGate \in GateStates
    /\ {typed, beaten, overtaken, settled} \subseteq BOOLEAN
    /\ treeEdits \in 0 .. MaxTreeEdits /\ commands \in 0 .. MaxNameCommands

NamingInit ==
    /\ group = [fp |-> None, name |-> None, mode |-> "auto", live |-> TRUE]
    /\ job = NoNaming /\ edit = [e \in Editors |-> NoEdit]
    /\ attempt = [r \in Attempts |-> NoRun] /\ force = NoRun
    /\ groupGate = NoState /\ moment = 1
    /\ typed = FALSE /\ beaten = FALSE /\ overtaken = FALSE /\ settled = TRUE
    /\ treeEdits = 0 /\ commands = 0

Step(r, record) == attempt' = [attempt EXCEPT ![r] = record]

-----------------------------------------------------------------------------
(* POST /groups: Get, SetTree and ObserveTreeMutation, each with the lock of *)
(* its own store.                                                            *)

EditReads(e) ==
    /\ edit[e].pc = "idle" /\ group.live /\ treeEdits < MaxTreeEdits
    /\ treeEdits' = treeEdits + 1
    /\ edit' = [edit EXCEPT ![e] = [NoEdit EXCEPT !.pc = "read", !.before = group.fp]]
    /\ UNCHANGED <<group, job, attempt, force, groupGate, typed, beaten, overtaken, settled, commands, moment>>

\* A store method changes the record in memory whether or not its save
\* succeeds; the handler goes on only if it does.
EditWrites(e, m, saved) ==
    /\ edit[e].pc = "read"
    /\ IF group.live
       THEN /\ group' = [group EXCEPT !.fp = m]
            /\ edit' = [edit EXCEPT ![e] = IF saved THEN [@ EXCEPT !.pc = "observe", !.after = m, !.mode = group.mode]
                                           ELSE NoEdit]
            /\ overtaken' = (overtaken \/ ~saved \/ edit[e].before # group.fp)
            /\ settled' = (settled /\ m = group.fp)
       ELSE /\ edit' = [edit EXCEPT ![e] = NoEdit]
            /\ UNCHANGED <<group, overtaken, settled>>
    /\ UNCHANGED <<job, attempt, force, groupGate, typed, beaten, treeEdits, commands, moment>>

\* startJob
Started(m) == [fp |-> m, armed |-> TRUE]

EditObserves(e) ==
    LET o == edit[e]
        inOrder == o.after = group.fp
    IN
    /\ o.pc = "observe"
    /\ edit' = [edit EXCEPT ![e] = NoEdit]
    /\ IF o.before = o.after
       THEN UNCHANGED <<job, settled>> /\ overtaken' = (overtaken \/ ~inOrder)
       ELSE /\ job' = IF o.mode = "manual" THEN NoNaming ELSE Started(o.after)
            /\ settled' = (settled \/ o.mode = "manual")
            /\ overtaken' = ~inOrder
    /\ UNCHANGED <<group, attempt, force, groupGate, typed, beaten, treeEdits, commands, moment>>

\* An edit of another group takes this one's members, which dissolves it.
Dissolved(e, saved) ==
    /\ edit[e].pc = "idle" /\ group.live /\ group.fp # None /\ treeEdits < MaxTreeEdits
    /\ treeEdits' = treeEdits + 1
    /\ group' = [group EXCEPT !.live = FALSE]
    /\ edit' = IF saved THEN [edit EXCEPT ![e] = [NoEdit EXCEPT !.pc = "cancel"]] ELSE edit
    /\ UNCHANGED <<job, attempt, force, groupGate, typed, beaten, overtaken, settled, commands, moment>>

Cancel(e) ==
    /\ edit[e].pc = "cancel"
    /\ job' = NoNaming /\ edit' = [edit EXCEPT ![e] = NoEdit]
    /\ UNCHANGED <<group, attempt, force, groupGate, typed, beaten, overtaken, settled, treeEdits, commands, moment>>

-----------------------------------------------------------------------------
(* What users do with the name: type one, clear it, ask for one, delete the  *)
(* group.  None of these touches a pending job.                              *)

Commanded == commands < MaxNameCommands /\ commands' = commands + 1

UserNames(mode) ==
    /\ Commanded /\ group.fp # None
    /\ group' = [group EXCEPT !.name = User, !.mode = mode]
    /\ typed' = (mode = "manual")
    /\ beaten' = (force.pc # "idle" \/ \E r \in Attempts : attempt[r].pc = "apply")
    /\ settled' = TRUE
    /\ UNCHANGED <<job, edit, attempt, force, groupGate, overtaken, treeEdits, moment>>

DeleteGroup ==
    /\ Commanded /\ group.live /\ group.fp # None
    /\ group' = [group EXCEPT !.live = FALSE]
    /\ UNCHANGED <<job, edit, attempt, force, groupGate, typed, beaten, overtaken, settled, treeEdits, moment>>

ForceStarts ==
    /\ force.pc = "idle" /\ Commanded /\ group.live /\ group.fp # None
    /\ force' = [NoRun EXCEPT !.pc = "generating", !.fp = group.fp, !.at = moment]
    /\ UNCHANGED <<group, job, edit, attempt, groupGate, typed, beaten, overtaken, settled, treeEdits, moment>>

\* The namer fails, or the group it named is not there any more.
ForceChecks(ok) ==
    /\ force.pc = "generating"
    /\ force' = IF ok /\ group.live /\ group.fp = force.fp THEN [force EXCEPT !.pc = "apply"] ELSE NoRun
    /\ UNCHANGED <<group, job, edit, attempt, groupGate, typed, beaten, overtaken, settled, treeEdits, commands, moment>>

ForceWrites(saved) ==
    /\ force.pc = "apply"
    /\ group' = [group EXCEPT !.name = force.fp, !.mode = "auto"]
    /\ IF saved
       THEN /\ groupGate' = NoState
            /\ attempt' = [r \in Attempts |-> [attempt[r] EXCEPT !.reset = attempt[r].pc \in {"generating", "apply"}]]
       ELSE UNCHANGED <<groupGate, attempt>>
    /\ settled' = (settled \/ group.fp = force.fp)
    /\ typed' = FALSE
    /\ force' = NoRun
    /\ UNCHANGED <<job, edit, beaten, overtaken, treeEdits, commands, moment>>

-----------------------------------------------------------------------------
(* runGeneration                                                             *)

DebounceFires ==
    LET free == {r \in Attempts : attempt[r].pc = "idle"} IN
    /\ job.armed /\ free # {}
    /\ job' = [job EXCEPT !.armed = FALSE]
    /\ Step(CHOOSE r \in free : TRUE, [NoRun EXCEPT !.pc = "begin", !.fp = job.fp])
    /\ UNCHANGED <<group, edit, force, groupGate, typed, beaten, overtaken, settled, treeEdits, commands, moment>>

Begins(r) ==
    /\ attempt[r].pc = "begin"
    /\ IF MayBegin(groupGate)
       THEN /\ groupGate' = Begun(groupGate)
            /\ Step(r, [attempt[r] EXCEPT !.pc = "generating", !.at = moment])
       ELSE Step(r, [attempt[r] EXCEPT !.pc = "blocked"]) /\ UNCHANGED groupGate
    /\ UNCHANGED <<group, job, edit, force, typed, beaten, overtaken, settled, treeEdits, commands, moment>>

\* scheduleRetry reads the gate again, which may have changed meanwhile.
SchedulesRetry_Never(r) ==
    /\ attempt[r].pc = "blocked" /\ Step(r, NoRun)
    /\ UNCHANGED <<group, job, edit, force, groupGate, typed, beaten, overtaken, settled, treeEdits, commands, moment>>

SchedulesRetry(r) ==
    /\ attempt[r].pc = "blocked"
    /\ Step(r, [attempt[r] EXCEPT !.pc = "retry", !.at = NextEligible(groupGate)])
    /\ UNCHANGED <<group, job, edit, force, groupGate, typed, beaten, overtaken, settled, treeEdits, commands, moment>>

RetryFires(r) ==
    /\ attempt[r].pc = "retry" /\ moment >= attempt[r].at
    /\ Step(r, IF job.fp = attempt[r].fp THEN [attempt[r] EXCEPT !.pc = "begin"] ELSE NoRun)
    /\ UNCHANGED <<group, job, edit, force, groupGate, typed, beaten, overtaken, settled, treeEdits, commands, moment>>

GenerationFails(r) ==
    /\ attempt[r].pc = "generating"
    /\ groupGate' = Failed(groupGate)
    /\ settled' = (settled \/ attempt[r].fp = group.fp)
    /\ Step(r, NoRun)
    /\ UNCHANGED <<group, job, edit, force, typed, beaten, overtaken, treeEdits, commands, moment>>

\* applyGeneratedName: whether the result is still wanted.
Wanted(m) == group.live /\ group.mode = "auto" /\ group.fp = m

GenerationReturns(r) ==
    /\ attempt[r].pc = "generating"
    /\ IF Wanted(attempt[r].fp)
       THEN Step(r, [attempt[r] EXCEPT !.pc = "apply"]) /\ UNCHANGED <<groupGate, settled>>
       ELSE /\ Step(r, NoRun) /\ groupGate' = Succeeded(groupGate)
            /\ settled' = (settled \/ attempt[r].fp = group.fp)
    /\ UNCHANGED <<group, job, edit, force, typed, beaten, overtaken, treeEdits, commands, moment>>

StoresName(r, saved) ==
    /\ attempt[r].pc = "apply"
    /\ group' = [group EXCEPT !.name = attempt[r].fp, !.mode = "auto"]
    /\ groupGate' = IF saved THEN Succeeded(groupGate) ELSE Failed(groupGate)
    /\ settled' = (settled \/ attempt[r].fp = group.fp)
    /\ Step(r, NoRun)
    /\ UNCHANGED <<job, edit, force, typed, beaten, overtaken, treeEdits, commands, moment>>

\* Requests and callbacks take no time; a request to the namer has its deadline.
Resting(x) ==
    \/ x.pc = "idle"
    \/ x.pc = "retry" /\ moment < x.at
    \/ x.pc = "generating" /\ moment < x.at + GenerateTimeout

NamingTick ==
    /\ moment < MaxMoment /\ moment' = moment + 1
    /\ ~job.armed /\ Resting(force)
    /\ \A r \in Attempts : Resting(attempt[r])
    /\ \A e \in Editors : edit[e].pc = "idle"
    /\ UNCHANGED <<group, job, edit, attempt, force, groupGate, typed, beaten, overtaken, settled, treeEdits, commands>>

NamingNext ==
    \/ \E e \in Editors : EditReads(e) \/ EditObserves(e) \/ Cancel(e)
    \/ \E e \in Editors, saved \in BOOLEAN : \/ Dissolved(e, saved)
                                         \/ \E m \in Fingerprints : EditWrites(e, m, saved)
    \/ \E mode \in {"auto", "manual"} : UserNames(mode)
    \/ DeleteGroup \/ DebounceFires \/ ForceStarts \/ NamingTick
    \/ \E ok \in BOOLEAN : ForceChecks(ok) \/ ForceWrites(ok)
    \/ \E r \in Attempts : \/ Begins(r) \/ SchedulesRetry(r) \/ RetryFires(r)
                           \/ GenerationFails(r) \/ GenerationReturns(r)
    \/ \E r \in Attempts, saved \in BOOLEAN : StoresName(r, saved)

NamingSpec == NamingInit /\ [][NamingNext]_<<groupNamingVars, moment>>

-----------------------------------------------------------------------------
(* No membership is forgotten: until a live group's membership has been      *)
(* named, given up after an error or left to the user, its job is the        *)
(* current one and a timer or an attempt of that job is on its way, however   *)
(* edits, retries, stale results and explicit renames interleave.  (An edit  *)
(* whose save fails, and two edits of one group that overtake each other     *)
(* between SetTree and ObserveTreeMutation, do lose it, until the next edit.) *)
NamingOwed ==
    (group.live /\ ~settled /\ ~overtaken /\ \A e \in Editors : edit[e].pc = "idle") =>
        /\ job.fp = group.fp
        /\ job.armed \/ \E r \in Attempts : attempt[r].fp = group.fp

(* A name typed by a user is not replaced by a generated one, unless it was   *)
(* typed while an explicit rename ran, or between applyGeneratedName's check  *)
(* and its SetName.                                                           *)
ManualKept == (typed /\ ~beaten) => group.name = User /\ group.mode = "manual"

(* The gate serialises automatic attempts: two requests to the namer are out  *)
(* at once only if an explicit rename reset the gate between their starts.    *)
OneAttempt ==
    Cardinality({r \in Attempts : attempt[r].pc \in {"generating", "apply"} /\ ~attempt[r].reset}) <= 1

(* Every membership is named once, by one attempt at a time, and not over the  *)
(* user's own name.                                                           *)
NamingInv == NamingOwed /\ ManualKept /\ OneAttempt
=============================================================================
