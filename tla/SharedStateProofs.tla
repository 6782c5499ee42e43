------------------------- MODULE SharedStateProofs -------------------------
(***************************************************************************)
(* Proofs about what servers and agents share: the names of groups, the    *)
(* labels of sessions, and what two servers know of each other's sessions. *)
(***************************************************************************)
EXTENDS GroupNaming, SessionNames, SessionMesh, FiniteSetTheorems, TLAPS

-----------------------------------------------------------------------------
(* GroupNaming.  NamingOwed says nothing while an edit is under way, so the
   invariant has an observation on its way instead of the job; a group whose
   cancellation is on its way is dead.  ManualKept needs that no checked result
   is left once the user has typed a name, and OneAttempt that the gate
   remembers the start of the one attempt that counts, whose deadline is over
   before the gate lets another in. *)

Memberships == Fingerprints \cup {None}
EditRecord == [pc : {"idle", "read", "observe", "cancel"}, before : Memberships, after : Memberships,
               mode : {"auto", "manual"}]
RunRecord == [pc : {"idle", "begin", "blocked", "retry", "generating", "apply"}, fp : Memberships,
              at : Nat, reset : BOOLEAN]
GateRecord == [lastAttempt : Nat, lastSuccess : Nat, failures : Nat]

NamingTypes ==
  /\ group \in [fp : Memberships, name : Memberships \cup {User}, mode : {"auto", "manual"}, live : BOOLEAN]
  /\ job \in [fp : Memberships, armed : BOOLEAN]
  /\ edit \in [Editors -> EditRecord] /\ attempt \in [Attempts -> RunRecord] /\ force \in RunRecord
  /\ groupGate \in GateRecord
  /\ typed \in BOOLEAN /\ beaten \in BOOLEAN /\ overtaken \in BOOLEAN /\ settled \in BOOLEAN
  /\ moment \in Nat \ {0}

\* An edit that its handler still has to report to the coordinator.
Unobserved(x, fp) == x.pc = "observe" /\ x.after = fp /\ x.before # x.after

\* The coordinator's job for a membership has a timer or an attempt.
OnItsWay(j, runs, fp) == j.fp = fp /\ (j.armed \/ \E r \in Attempts : runs[r].fp = fp)

NamingDue ==
  group.live /\ ~ settled /\ ~ overtaken =>
    OnItsWay(job, attempt, group.fp) \/ \E e \in Editors : Unobserved(edit[e], group.fp)

CancelsDead == \A e \in Editors : edit[e].pc = "cancel" => ~ group.live

TypedStays ==
  typed /\ ~ beaten =>
    group.name = User /\ group.mode = "manual" /\ \A r \in Attempts : attempt[r].pc # "apply"

\* A request to the namer that the gate has not forgotten.
Counts(x) == x.pc \in {"generating", "apply"} /\ ~ x.reset

\* The gate g knows of x, which is within its deadline.
HeldBy(x, g, now) == x.at = g.lastAttempt /\ x.at # 0 /\ now <= x.at + GenerateTimeout

GateHolds == \A r \in Attempts : Counts(attempt[r]) => HeldBy(attempt[r], groupGate, moment)
OneCounts == \A r, q \in Attempts : Counts(attempt[r]) /\ Counts(attempt[q]) => r = q

NamingIInv ==
  NamingTypes /\ NamingDue /\ CancelsDead /\ TypedStays /\ GateHolds /\ OneCounts

\* The gate's intervals are longer than a request to the namer.
LEMMA BackoffLong ==
  ASSUME NEW n \in Nat
  PROVE  Backoff(n) \in Nat /\ GenerateTimeout < Backoff(n) /\ GenerateTimeout \in Nat
         /\ NormalInterval \in Nat
<1>1. Len(BackoffSteps) \in Nat \ {0} /\ DOMAIN BackoffSteps = 1 .. Len(BackoffSteps)
      /\ \A i \in 1 .. Len(BackoffSteps) : BackoffSteps[i] \in Nat /\ GenerateTimeout < BackoffSteps[i]
  BY GateAssumption
<1> DEFINE i == IF n > Len(BackoffSteps) THEN Len(BackoffSteps) ELSE n
<1>2. CASE n = 0
  BY <1>2, GateAssumption DEF Backoff
<1>3. CASE n # 0
  <2>1. i \in 1 .. Len(BackoffSteps)
    BY <1>1, <1>3
  <2>2. Backoff(n) = BackoffSteps[i]
    BY <1>3 DEF Backoff
  <2> QED  BY <1>1, <2>1, <2>2, GateAssumption
<1> QED  BY <1>2, <1>3

\* The gate's records.
LEMMA GateRecords ==
  ASSUME NEW g \in GateRecord, moment \in Nat
  PROVE  /\ Begun(g) \in GateRecord /\ Begun(g).lastAttempt = moment
         /\ Succeeded(g) \in GateRecord /\ Succeeded(g).lastAttempt = g.lastAttempt
         /\ Failed(g) \in GateRecord /\ Failed(g).lastAttempt = g.lastAttempt
         /\ NextEligible(g) \in Nat
         /\ NoState \in GateRecord
<1>1. Backoff(g.failures) \in Nat /\ NormalInterval \in Nat
  BY BackoffLong DEF GateRecord
<1>2. NextEligible(g) \in Nat
  BY <1>1 DEF NextEligible, GateRecord
<1>3. Begun(g) \in GateRecord /\ Begun(g).lastAttempt = moment
  BY DEF Begun, GateRecord
<1>4. Succeeded(g) \in GateRecord /\ Succeeded(g).lastAttempt = g.lastAttempt
  BY DEF Succeeded, GateRecord
<1>5. Failed(g) \in GateRecord /\ Failed(g).lastAttempt = g.lastAttempt
  BY DEF Failed, GateRecord
<1>6. NoState \in GateRecord
  BY DEF NoState, GateRecord
<1> QED  BY <1>2, <1>3, <1>4, <1>5, <1>6

\* While a request counts the gate lets nobody in.
LEMMA GateClosed ==
  ASSUME NEW x, NEW g \in GateRecord, moment \in Nat, x.at \in Nat, HeldBy(x, g, moment)
  PROVE  ~ MayBegin(g)
<1>1. Backoff(g.failures) \in Nat /\ GenerateTimeout < Backoff(g.failures) /\ GenerateTimeout \in Nat
  BY BackoffLong DEF GateRecord
<1> QED  BY <1>1 DEF HeldBy, MayBegin

\* The constants of a run and of an edit.
LEMMA NamingRecords ==
  /\ NoRun \in RunRecord /\ NoRun.pc = "idle" /\ ~ NoRun.reset
  /\ NoEdit \in EditRecord /\ NoEdit.pc = "idle"
  /\ NoNaming \in [fp : Memberships, armed : BOOLEAN]
  BY DEF NoRun, NoEdit, NoNaming, RunRecord, EditRecord, Memberships

-----------------------------------------------------------------------------
\* The steps of the requests that change the tree.
LEMMA EditsKeep ==
  ASSUME NamingIInv, NEW e \in Editors, NEW rec \in EditRecord,
         edit' = [edit EXCEPT ![e] = rec],
         UNCHANGED <<attempt, force, groupGate, typed, beaten, moment>>,
         group' \in [fp : Memberships, name : Memberships \cup {User}, mode : {"auto", "manual"}, live : BOOLEAN],
         group'.name = group.name, group'.mode = group.mode,
         job' \in [fp : Memberships, armed : BOOLEAN],
         overtaken' \in BOOLEAN, settled' \in BOOLEAN,
         rec.pc = "cancel" => ~ group'.live, group'.live => group.live,
         NamingDue'
  PROVE  NamingIInv'
<1>1. edit' \in [Editors -> EditRecord] /\ edit'[e] = rec /\ \A o \in Editors \ {e} : edit'[o] = edit[o]
  BY DEF NamingIInv, NamingTypes
<1>2. NamingTypes'
  BY <1>1 DEF NamingIInv, NamingTypes
<1>3. CancelsDead'
  BY <1>1, <1>2 DEF NamingIInv, CancelsDead, NamingTypes
<1>4. TypedStays' /\ GateHolds' /\ OneCounts'
  BY DEF NamingIInv, TypedStays, GateHolds, OneCounts
<1> QED  BY <1>2, <1>3, <1>4 DEF NamingIInv

LEMMA EditReadsKeeps ==
  ASSUME NamingIInv, NEW e \in Editors, EditReads(e)
  PROVE  NamingIInv'
<1> DEFINE rec == [NoEdit EXCEPT !.pc = "read", !.before = group.fp]
<1>1. rec \in EditRecord /\ rec.pc = "read"
  BY NamingRecords DEF EditRecord, NamingIInv, NamingTypes
<1>2. edit' = [edit EXCEPT ![e] = rec] /\ edit[e].pc = "idle"
  BY DEF EditReads
<1> HIDE DEF rec
<1>3. UNCHANGED <<group, job, attempt, force, groupGate, typed, beaten, overtaken, settled, moment>>
  BY DEF EditReads
<1>4. \A o \in Editors \ {e} : edit'[o] = edit[o]
  BY <1>2 DEF NamingIInv, NamingTypes
<1>5. NamingDue'
  BY <1>2, <1>3, <1>4 DEF NamingIInv, NamingDue, Unobserved
<1> QED  BY <1>1, <1>2, <1>3, <1>5, EditsKeep DEF NamingIInv, NamingTypes

LEMMA EditWritesKeeps ==
  ASSUME NamingIInv, NEW e \in Editors, NEW m \in Fingerprints, NEW saved \in BOOLEAN,
         EditWrites(e, m, saved)
  PROVE  NamingIInv'
<1> DEFINE seen == [edit[e] EXCEPT !.pc = "observe", !.after = m, !.mode = group.mode]
<1>1. /\ seen \in EditRecord /\ seen.pc = "observe" /\ seen.after = m /\ seen.before = edit[e].before
  <2>1. edit[e] \in EditRecord /\ m \in Memberships /\ group.mode \in {"auto", "manual"}
    BY DEF NamingIInv, NamingTypes, Memberships
  <2> QED  BY <2>1 DEF EditRecord
<1>2. /\ UNCHANGED <<job, attempt, force, groupGate, typed, beaten, moment>>
      /\ edit[e].pc = "read" /\ edit \in [Editors -> EditRecord]
  BY DEF EditWrites, NamingIInv, NamingTypes
<1>3. CASE ~ group.live
  <2>1. edit' = [edit EXCEPT ![e] = NoEdit] /\ UNCHANGED <<group, overtaken, settled>>
    BY <1>3 DEF EditWrites
  <2>2. NamingDue'
    BY <1>3, <2>1 DEF NamingDue
  <2> QED  BY <1>2, <1>3, <2>1, <2>2, EditsKeep, NamingRecords DEF NamingIInv, NamingTypes
<1>4. CASE group.live
  <2> DEFINE rec == IF saved THEN seen ELSE NoEdit
  <2>1. /\ group' = [group EXCEPT !.fp = m]
        /\ overtaken' = (overtaken \/ ~ saved \/ edit[e].before # group.fp)
        /\ settled' = (settled /\ m = group.fp)
        /\ edit' = [edit EXCEPT ![e] = rec]
    BY <1>4 DEF EditWrites
  <2>2. /\ group' \in [fp : Memberships, name : Memberships \cup {User}, mode : {"auto", "manual"}, live : BOOLEAN]
        /\ group'.name = group.name /\ group'.mode = group.mode /\ group'.live = group.live /\ group'.fp = m
    BY <2>1 DEF NamingIInv, NamingTypes, Memberships
  <2>3. rec \in EditRecord /\ rec.pc # "cancel" /\ (saved => rec = seen)
    BY <1>1, NamingRecords
  <2> HIDE DEF rec, seen
  <2>4. edit'[e] = rec /\ \A o \in Editors \ {e} : edit'[o] = edit[o]
    BY <1>2, <2>1
  <2>5. NamingDue'
    <3> SUFFICES ASSUME ~ settled', ~ overtaken'
                 PROVE  OnItsWay(job, attempt, m) \/ \E o \in Editors : Unobserved(edit'[o], m)
      BY <1>2, <2>2 DEF NamingDue
    <3>1. ~ overtaken /\ saved /\ edit[e].before = group.fp
      BY <2>1
    <3>2. CASE m # group.fp
      BY <1>1, <2>3, <2>4, <3>1, <3>2 DEF Unobserved
    <3>3. CASE m = group.fp
      <4>1. OnItsWay(job, attempt, m) \/ \E o \in Editors : Unobserved(edit[o], m)
        BY <1>4, <2>1, <3>1, <3>3 DEF NamingIInv, NamingDue
      <4> QED  BY <1>2, <2>4, <4>1 DEF Unobserved
    <3> QED  BY <3>2, <3>3
  <2>6. overtaken' \in BOOLEAN /\ settled' \in BOOLEAN
    BY <2>1 DEF NamingIInv, NamingTypes
  <2> QED  BY <1>2, <1>4, <2>1, <2>2, <2>3, <2>5, <2>6, EditsKeep DEF NamingIInv, NamingTypes
<1> QED  BY <1>3, <1>4

LEMMA EditObservesKeeps ==
  ASSUME NamingIInv, NEW e \in Editors, EditObserves(e)
  PROVE  NamingIInv'
<1>1. /\ UNCHANGED <<group, attempt, force, groupGate, typed, beaten, moment>>
      /\ edit[e].pc = "observe" /\ edit[e] \in EditRecord /\ edit' = [edit EXCEPT ![e] = NoEdit]
  BY DEF EditObserves, NamingIInv, NamingTypes
<1>2. \A o \in Editors \ {e} : edit'[o] = edit[o]
  BY <1>1 DEF NamingIInv, NamingTypes
<1>3. CASE edit[e].before = edit[e].after
  <2>1. UNCHANGED <<job, settled>> /\ overtaken' = (overtaken \/ edit[e].after # group.fp)
    BY <1>3 DEF EditObserves
  <2>2. NamingDue'
    <3> SUFFICES ASSUME group.live, ~ settled, ~ overtaken
                 PROVE  OnItsWay(job, attempt, group.fp) \/ \E o \in Editors : Unobserved(edit'[o], group.fp)
      BY <1>1, <2>1 DEF NamingDue
    <3>1. OnItsWay(job, attempt, group.fp) \/ \E o \in Editors : Unobserved(edit[o], group.fp)
      BY DEF NamingIInv, NamingDue
    <3>2. ~ Unobserved(edit[e], group.fp)
      BY <1>3 DEF Unobserved
    <3> QED  BY <1>2, <3>1, <3>2
  <2>3. overtaken' \in BOOLEAN
    BY <2>1 DEF NamingIInv, NamingTypes
  <2> QED  BY <1>1, <2>1, <2>2, <2>3, EditsKeep, NamingRecords DEF NamingIInv, NamingTypes
<1>4. CASE edit[e].before # edit[e].after
  <2>1. /\ job' = IF edit[e].mode = "manual" THEN NoNaming ELSE Started(edit[e].after)
        /\ settled' = (settled \/ edit[e].mode = "manual")
        /\ overtaken' = ~ (edit[e].after = group.fp)
    BY <1>4 DEF EditObserves
  <2>2. Started(edit[e].after) \in [fp : Memberships, armed : BOOLEAN]
    BY <1>1 DEF Started, EditRecord
  <2>3. job' \in [fp : Memberships, armed : BOOLEAN]
    BY <2>1, <2>2, NamingRecords
  <2>4. NamingDue'
    BY <1>1, <2>1 DEF NamingDue, OnItsWay, Started
  <2>5. overtaken' \in BOOLEAN /\ settled' \in BOOLEAN
    BY <2>1 DEF NamingIInv, NamingTypes
  <2> QED  BY <1>1, <2>3, <2>4, <2>5, EditsKeep, NamingRecords DEF NamingIInv, NamingTypes
<1> QED  BY <1>3, <1>4

LEMMA DissolvedKeeps ==
  ASSUME NamingIInv, NEW e \in Editors, NEW saved \in BOOLEAN, Dissolved(e, saved)
  PROVE  NamingIInv'
<1> DEFINE rec == IF saved THEN [NoEdit EXCEPT !.pc = "cancel"] ELSE edit[e]
<1>1. rec \in EditRecord
  BY NamingRecords DEF EditRecord, NamingIInv, NamingTypes
<1>2. edit' = [edit EXCEPT ![e] = rec]
  BY DEF Dissolved, NamingIInv, NamingTypes
<1> HIDE DEF rec
<1>3. /\ UNCHANGED <<job, attempt, force, groupGate, typed, beaten, overtaken, settled, moment>>
      /\ group' = [group EXCEPT !.live = FALSE]
  BY DEF Dissolved
<1>4. /\ group' \in [fp : Memberships, name : Memberships \cup {User}, mode : {"auto", "manual"}, live : BOOLEAN]
      /\ group'.name = group.name /\ group'.mode = group.mode /\ ~ group'.live
  BY <1>3 DEF NamingIInv, NamingTypes
<1>5. NamingDue'
  BY <1>4 DEF NamingDue
<1> QED  BY <1>1, <1>2, <1>3, <1>4, <1>5, EditsKeep DEF NamingIInv, NamingTypes

LEMMA CancelKeeps ==
  ASSUME NamingIInv, NEW e \in Editors, Cancel(e)
  PROVE  NamingIInv'
<1>1. /\ UNCHANGED <<group, attempt, force, groupGate, typed, beaten, overtaken, settled, moment>>
      /\ edit[e].pc = "cancel" /\ job' = NoNaming /\ edit' = [edit EXCEPT ![e] = NoEdit]
  BY DEF Cancel
<1>2. ~ group.live
  BY <1>1 DEF NamingIInv, CancelsDead
<1>3. NamingDue'
  BY <1>1, <1>2 DEF NamingDue
<1> QED  BY <1>1, <1>2, <1>3, EditsKeep, NamingRecords DEF NamingIInv, NamingTypes

-----------------------------------------------------------------------------
\* A step of one attempt that does not start a request to the namer.
LEMMA RunsKeep ==
  ASSUME NamingIInv, NEW r \in Attempts, NEW rec \in RunRecord, Step(r, rec),
         UNCHANGED <<edit, force, typed, beaten, overtaken, moment>>,
         group' \in [fp : Memberships, name : Memberships \cup {User}, mode : {"auto", "manual"}, live : BOOLEAN],
         group'.live = group.live, group'.fp = group.fp,
         typed /\ ~ beaten => rec.pc # "apply" /\ group'.name = User /\ group'.mode = "manual",
         job' \in [fp : Memberships, armed : BOOLEAN], job'.fp = job.fp,
         groupGate' \in GateRecord, groupGate'.lastAttempt = groupGate.lastAttempt,
         settled' \in BOOLEAN, settled => settled',
         Counts(rec) => Counts(attempt[r]) /\ rec.at = attempt[r].at,
         job.armed => job'.armed \/ rec.fp = job.fp,
         attempt[r].fp = group.fp /\ job.fp = group.fp => settled' \/ rec.fp = group.fp \/ ~ group.live
  PROVE  NamingIInv'
<1>1. attempt' \in [Attempts -> RunRecord] /\ attempt'[r] = rec /\ \A q \in Attempts \ {r} : attempt'[q] = attempt[q]
  BY DEF Step, NamingIInv, NamingTypes
<1>2. NamingTypes'
  BY <1>1 DEF NamingIInv, NamingTypes
<1>3. NamingDue'
  <2> SUFFICES ASSUME group.live, ~ settled', ~ overtaken
               PROVE  OnItsWay(job', attempt', group.fp) \/ \E e \in Editors : Unobserved(edit[e], group.fp)
    BY DEF NamingDue
  <2>1. OnItsWay(job, attempt, group.fp) \/ \E e \in Editors : Unobserved(edit[e], group.fp)
    BY DEF NamingIInv, NamingDue
  <2>2. ASSUME OnItsWay(job, attempt, group.fp)
        PROVE  OnItsWay(job', attempt', group.fp)
    BY <1>1, <2>2 DEF OnItsWay
  <2> QED  BY <2>1, <2>2
<1>4. CancelsDead'
  BY DEF NamingIInv, CancelsDead
<1>5. TypedStays'
  BY <1>1 DEF NamingIInv, TypedStays
<1>6. \A q \in Attempts : Counts(attempt'[q]) => Counts(attempt[q]) /\ attempt'[q].at = attempt[q].at
  BY <1>1
<1>7. GateHolds'
  BY <1>6 DEF NamingIInv, GateHolds, HeldBy
<1>8. OneCounts'
  BY <1>6 DEF NamingIInv, OneCounts
<1> QED  BY <1>2, <1>3, <1>4, <1>5, <1>7, <1>8 DEF NamingIInv

LEMMA DebounceKeeps ==
  ASSUME NamingIInv, DebounceFires
  PROVE  NamingIInv'
<1> DEFINE rec == [NoRun EXCEPT !.pc = "begin", !.fp = job.fp]
<1>1. rec \in RunRecord /\ rec.pc = "begin" /\ rec.fp = job.fp /\ ~ Counts(rec)
  BY NamingRecords DEF RunRecord, NamingIInv, NamingTypes, Counts
<1>2. PICK r \in Attempts : attempt[r].pc = "idle" /\ Step(r, rec)
  BY DEF DebounceFires
<1> HIDE DEF rec
<1>3. /\ UNCHANGED <<group, edit, force, groupGate, typed, beaten, overtaken, settled, moment>>
      /\ job.armed /\ job' = [job EXCEPT !.armed = FALSE]
  BY DEF DebounceFires
<1>4. job' \in [fp : Memberships, armed : BOOLEAN] /\ job'.fp = job.fp
  BY <1>3 DEF NamingIInv, NamingTypes
<1> QED  BY <1>1, <1>2, <1>3, <1>4, RunsKeep DEF NamingIInv, NamingTypes, TypedStays

\* An attempt begins: the gate was open, so no other counts.
LEMMA BeginsKeeps ==
  ASSUME NamingIInv, NEW r \in Attempts, Begins(r)
  PROVE  NamingIInv'
<1>1. /\ UNCHANGED <<group, job, edit, force, typed, beaten, overtaken, settled, moment>>
      /\ attempt[r].pc = "begin" /\ attempt[r] \in RunRecord /\ groupGate \in GateRecord
      /\ moment \in Nat \ {0}
  BY DEF Begins, NamingIInv, NamingTypes
<1>2. CASE ~ MayBegin(groupGate)
  <2> DEFINE rec == [attempt[r] EXCEPT !.pc = "blocked"]
  <2>1. rec \in RunRecord /\ rec.fp = attempt[r].fp /\ rec.pc = "blocked" /\ ~ Counts(rec)
    BY <1>1 DEF RunRecord, Counts
  <2>2. Step(r, rec) /\ UNCHANGED groupGate
    BY <1>2 DEF Begins
  <2> HIDE DEF rec
  <2> QED  BY <1>1, <2>1, <2>2, RunsKeep DEF NamingIInv, NamingTypes, TypedStays
<1>3. CASE MayBegin(groupGate)
  <2> DEFINE rec == [attempt[r] EXCEPT !.pc = "generating", !.at = moment]
  <2>1. rec \in RunRecord /\ rec.fp = attempt[r].fp /\ rec.pc = "generating" /\ rec.at = moment
    BY <1>1 DEF RunRecord
  <2>2. Step(r, rec) /\ groupGate' = Begun(groupGate)
    BY <1>3 DEF Begins
  <2> HIDE DEF rec
  <2>3. attempt' \in [Attempts -> RunRecord] /\ attempt'[r] = rec /\ \A q \in Attempts \ {r} : attempt'[q] = attempt[q]
    BY <2>1, <2>2 DEF Step, NamingIInv, NamingTypes
  <2>4. groupGate' \in GateRecord /\ groupGate'.lastAttempt = moment
    BY <1>1, <2>2, GateRecords
  <2>5. \A q \in Attempts : ~ Counts(attempt[q])
    BY <1>1, <1>3, GateClosed DEF NamingIInv, GateHolds, NamingTypes, RunRecord
  <2>6. NamingTypes'
    BY <1>1, <2>3, <2>4 DEF NamingIInv, NamingTypes
  <2>7. NamingDue'
    BY <1>1, <2>1, <2>3 DEF NamingIInv, NamingDue, OnItsWay
  <2>8. CancelsDead' /\ TypedStays'
    BY <1>1, <2>1, <2>3 DEF NamingIInv, CancelsDead, TypedStays
  <2>9. \A q \in Attempts : Counts(attempt'[q]) => q = r
    BY <2>3, <2>5
  <2>10. GateHolds'
    BY <1>1, <2>1, <2>3, <2>4, <2>9, GateAssumption DEF GateHolds, HeldBy
  <2>11. OneCounts'
    BY <2>9 DEF OneCounts
  <2> QED  BY <2>6, <2>7, <2>8, <2>10, <2>11 DEF NamingIInv
<1> QED  BY <1>2, <1>3

LEMMA RetriesKeep ==
  ASSUME NamingIInv, NEW r \in Attempts, SchedulesRetry(r) \/ RetryFires(r)
  PROVE  NamingIInv'
<1>1. /\ UNCHANGED <<group, job, edit, force, groupGate, typed, beaten, overtaken, settled, moment>>
      /\ attempt[r] \in RunRecord /\ groupGate \in GateRecord /\ moment \in Nat
  BY DEF SchedulesRetry, RetryFires, NamingIInv, NamingTypes
<1>2. CASE SchedulesRetry(r)
  <2> DEFINE rec == [attempt[r] EXCEPT !.pc = "retry", !.at = NextEligible(groupGate)]
  <2>1. rec \in RunRecord /\ rec.fp = attempt[r].fp /\ rec.pc = "retry" /\ ~ Counts(rec)
    BY <1>1, GateRecords DEF RunRecord, Counts
  <2>2. Step(r, rec)
    BY <1>2 DEF SchedulesRetry
  <2> HIDE DEF rec
  <2> QED  BY <1>1, <2>1, <2>2, RunsKeep DEF NamingIInv, NamingTypes, TypedStays
<1>3. CASE RetryFires(r) /\ job.fp = attempt[r].fp
  <2> DEFINE rec == [attempt[r] EXCEPT !.pc = "begin"]
  <2>1. rec \in RunRecord /\ rec.fp = attempt[r].fp /\ rec.pc = "begin" /\ ~ Counts(rec)
    BY <1>1 DEF RunRecord, Counts
  <2>2. Step(r, rec)
    BY <1>3 DEF RetryFires
  <2> HIDE DEF rec
  <2> QED  BY <1>1, <2>1, <2>2, RunsKeep DEF NamingIInv, NamingTypes, TypedStays
<1>4. CASE RetryFires(r) /\ job.fp # attempt[r].fp
  <2>1. Step(r, NoRun)
    BY <1>4 DEF RetryFires
  <2>2. ~ Counts(NoRun) /\ NoRun.pc # "apply"
    BY NamingRecords DEF Counts
  <2> QED  BY <1>1, <1>4, <2>1, <2>2, RunsKeep, NamingRecords DEF NamingIInv, NamingTypes, TypedStays
<1> QED  BY <1>2, <1>3, <1>4

LEMMA ResultsKeep ==
  ASSUME NamingIInv, NEW r \in Attempts, GenerationFails(r) \/ GenerationReturns(r)
  PROVE  NamingIInv'
<1>1. /\ UNCHANGED <<group, job, edit, force, typed, beaten, overtaken, moment>>
      /\ attempt[r].pc = "generating" /\ attempt[r] \in RunRecord /\ groupGate \in GateRecord
      /\ moment \in Nat
  BY DEF GenerationFails, GenerationReturns, NamingIInv, NamingTypes
<1>2. CASE GenerationReturns(r) /\ Wanted(attempt[r].fp)
  <2> DEFINE rec == [attempt[r] EXCEPT !.pc = "apply"]
  <2>1. /\ rec \in RunRecord /\ rec.fp = attempt[r].fp /\ rec.at = attempt[r].at
        /\ (Counts(rec) => Counts(attempt[r]))
    BY <1>1 DEF RunRecord, Counts
  <2>2. Step(r, rec) /\ UNCHANGED <<groupGate, settled>>
    BY <1>2 DEF GenerationReturns
  <2> HIDE DEF rec
  <2>3. ~ (typed /\ ~ beaten)
    BY <1>2 DEF Wanted, NamingIInv, TypedStays
  <2> QED  BY <1>1, <2>1, <2>2, <2>3, RunsKeep DEF NamingIInv, NamingTypes
<1>3. CASE GenerationFails(r) \/ (GenerationReturns(r) /\ ~ Wanted(attempt[r].fp))
  <2>1. Step(r, NoRun) /\ settled' = (settled \/ attempt[r].fp = group.fp)
    BY <1>3 DEF GenerationFails, GenerationReturns
  <2>2. groupGate' = Failed(groupGate) \/ groupGate' = Succeeded(groupGate)
    BY <1>3 DEF GenerationFails, GenerationReturns
  <2>3. groupGate' \in GateRecord /\ groupGate'.lastAttempt = groupGate.lastAttempt
    BY <1>1, <2>2, GateRecords
  <2>4. ~ Counts(NoRun) /\ NoRun.pc # "apply" /\ settled' \in BOOLEAN
    BY <2>1, NamingRecords DEF Counts, NamingIInv, NamingTypes
  <2> QED  BY <1>1, <2>1, <2>3, <2>4, RunsKeep, NamingRecords DEF NamingIInv, NamingTypes, TypedStays
<1> QED  BY <1>2, <1>3

\* A result is stored: had the user typed a name since the check, it would be
\* among the exceptions.
LEMMA StoresKeep ==
  ASSUME NamingIInv, NEW r \in Attempts, NEW saved \in BOOLEAN, StoresName(r, saved)
  PROVE  NamingIInv'
<1>1. /\ UNCHANGED <<job, edit, force, typed, beaten, overtaken, moment>>
      /\ attempt[r].pc = "apply" /\ attempt[r] \in RunRecord /\ groupGate \in GateRecord /\ moment \in Nat
      /\ group' = [group EXCEPT !.name = attempt[r].fp, !.mode = "auto"]
      /\ settled' = (settled \/ attempt[r].fp = group.fp) /\ Step(r, NoRun)
  BY DEF StoresName, NamingIInv, NamingTypes
<1>2. /\ group' \in [fp : Memberships, name : Memberships \cup {User}, mode : {"auto", "manual"}, live : BOOLEAN]
      /\ group'.live = group.live /\ group'.fp = group.fp
  BY <1>1 DEF NamingIInv, NamingTypes, RunRecord
<1>3. groupGate' = Failed(groupGate) \/ groupGate' = Succeeded(groupGate)
  BY DEF StoresName
<1>4. groupGate' \in GateRecord /\ groupGate'.lastAttempt = groupGate.lastAttempt
  BY <1>1, <1>3, GateRecords
<1>5. ~ Counts(NoRun) /\ settled' \in BOOLEAN
  BY <1>1, NamingRecords DEF Counts, NamingIInv, NamingTypes
<1>6. ~ (typed /\ ~ beaten)
  BY <1>1 DEF NamingIInv, TypedStays
<1> QED  BY <1>1, <1>2, <1>4, <1>5, <1>6, RunsKeep, NamingRecords DEF NamingIInv, NamingTypes

-----------------------------------------------------------------------------
\* What users do with the name.
LEMMA UserKeeps ==
  ASSUME NamingIInv, NEW mode \in {"auto", "manual"}, UserNames(mode)
  PROVE  NamingIInv'
<1>1. /\ UNCHANGED <<job, edit, attempt, force, groupGate, overtaken, moment>>
      /\ group' = [group EXCEPT !.name = User, !.mode = mode]
      /\ typed' = (mode = "manual")
      /\ beaten' = (force.pc # "idle" \/ \E r \in Attempts : attempt[r].pc = "apply")
      /\ settled' = TRUE
  BY DEF UserNames
<1>2. /\ group' \in [fp : Memberships, name : Memberships \cup {User}, mode : {"auto", "manual"}, live : BOOLEAN]
      /\ group'.live = group.live /\ group'.name = User /\ group'.mode = mode
  BY <1>1 DEF NamingIInv, NamingTypes
<1>3. typed' \in BOOLEAN /\ beaten' \in BOOLEAN /\ settled' \in BOOLEAN
  BY <1>1
<1>4. NamingTypes'
  BY <1>1, <1>2, <1>3 DEF NamingIInv, NamingTypes
<1>5. NamingDue'
  BY <1>1 DEF NamingDue
<1>6. CancelsDead'
  BY <1>1, <1>2 DEF NamingIInv, CancelsDead
<1>7. TypedStays'
  BY <1>1, <1>2 DEF TypedStays
<1>8. GateHolds' /\ OneCounts'
  BY <1>1 DEF NamingIInv, GateHolds, OneCounts
<1> QED  BY <1>4, <1>5, <1>6, <1>7, <1>8 DEF NamingIInv

LEMMA DeleteKeeps ==
  ASSUME NamingIInv, DeleteGroup
  PROVE  NamingIInv'
<1>1. /\ UNCHANGED <<job, edit, attempt, force, groupGate, typed, beaten, overtaken, settled, moment>>
      /\ group' = [group EXCEPT !.live = FALSE]
  BY DEF DeleteGroup
<1>2. /\ group' \in [fp : Memberships, name : Memberships \cup {User}, mode : {"auto", "manual"}, live : BOOLEAN]
      /\ ~ group'.live /\ group'.name = group.name /\ group'.mode = group.mode
  BY <1>1 DEF NamingIInv, NamingTypes
<1>3. NamingTypes'
  BY <1>1, <1>2 DEF NamingIInv, NamingTypes
<1>4. NamingDue' /\ CancelsDead'
  BY <1>2 DEF NamingDue, CancelsDead
<1>5. TypedStays' /\ GateHolds' /\ OneCounts'
  BY <1>1, <1>2 DEF NamingIInv, TypedStays, GateHolds, OneCounts
<1> QED  BY <1>3, <1>4, <1>5 DEF NamingIInv

\* The explicit rename asks the namer and checks its answer.
LEMMA ForceKeeps ==
  ASSUME NamingIInv, ForceStarts \/ \E ok \in BOOLEAN : ForceChecks(ok)
  PROVE  NamingIInv'
<1>1. UNCHANGED <<group, job, edit, attempt, groupGate, typed, beaten, overtaken, settled, moment>>
  BY DEF ForceStarts, ForceChecks
<1>2. force' \in RunRecord
  <2>1. CASE ForceStarts
    <3>1. force' = [NoRun EXCEPT !.pc = "generating", !.fp = group.fp, !.at = moment]
      BY <2>1 DEF ForceStarts
    <3> QED  BY <3>1, NamingRecords DEF RunRecord, NamingIInv, NamingTypes
  <2>2. CASE \E ok \in BOOLEAN : ForceChecks(ok)
    <3>1. force' = [force EXCEPT !.pc = "apply"] \/ force' = NoRun
      BY <2>2 DEF ForceChecks
    <3> QED  BY <3>1, NamingRecords DEF RunRecord, NamingIInv, NamingTypes
  <2> QED  BY <2>1, <2>2
<1>3. NamingTypes'
  BY <1>1, <1>2 DEF NamingIInv, NamingTypes
<1>4. NamingDue' /\ CancelsDead' /\ TypedStays'
  BY <1>1 DEF NamingIInv, NamingDue, CancelsDead, TypedStays
<1>5. GateHolds' /\ OneCounts'
  BY <1>1 DEF NamingIInv, GateHolds, OneCounts
<1> QED  BY <1>3, <1>4, <1>5 DEF NamingIInv

\* The explicit rename stores its name; it resets the gate, which forgets the
\* requests that are out.
LEMMA ForceWritesKeeps ==
  ASSUME NamingIInv, NEW saved \in BOOLEAN, ForceWrites(saved)
  PROVE  NamingIInv'
<1>1. /\ UNCHANGED <<job, edit, beaten, overtaken, moment>>
      /\ group' = [group EXCEPT !.name = force.fp, !.mode = "auto"]
      /\ settled' = (settled \/ group.fp = force.fp)
      /\ typed' = FALSE /\ force' = NoRun
  BY DEF ForceWrites
<1>2. /\ group' \in [fp : Memberships, name : Memberships \cup {User}, mode : {"auto", "manual"}, live : BOOLEAN]
      /\ group'.live = group.live /\ group'.fp = group.fp
  BY <1>1 DEF NamingIInv, NamingTypes, RunRecord
<1>3. typed' \in BOOLEAN /\ settled' \in BOOLEAN /\ force' \in RunRecord
  BY <1>1, NamingRecords DEF NamingIInv, NamingTypes
<1>4. /\ groupGate' \in GateRecord /\ attempt' \in [Attempts -> RunRecord]
      /\ \A r \in Attempts : attempt'[r].fp = attempt[r].fp
      /\ \A r \in Attempts : Counts(attempt'[r]) => attempt'[r] = attempt[r] /\ groupGate' = groupGate
  <2>1. CASE ~ saved
    BY <2>1 DEF ForceWrites, NamingIInv, NamingTypes
  <2>2. CASE saved
    <3>1. /\ groupGate' = NoState
          /\ attempt' = [r \in Attempts |-> [attempt[r] EXCEPT !.reset = attempt[r].pc \in {"generating", "apply"}]]
      BY <2>2 DEF ForceWrites
    <3>2. ASSUME NEW r \in Attempts
          PROVE  attempt'[r] \in RunRecord /\ attempt'[r].fp = attempt[r].fp /\ ~ Counts(attempt'[r])
      <4>1. attempt'[r] = [attempt[r] EXCEPT !.reset = attempt[r].pc \in {"generating", "apply"}]
        BY <3>1
      <4>2. attempt[r] \in RunRecord
        BY DEF NamingIInv, NamingTypes
      <4> DEFINE b == attempt[r].pc \in {"generating", "apply"}
      <4>3. b \in BOOLEAN /\ attempt'[r] = [attempt[r] EXCEPT !.reset = b]
        BY <4>1
      <4> HIDE DEF b
      <4>4. /\ attempt'[r] \in RunRecord /\ attempt'[r].fp = attempt[r].fp /\ attempt'[r].pc = attempt[r].pc
            /\ attempt'[r].reset = b
        BY <4>2, <4>3 DEF RunRecord
      <4> QED  BY <4>4 DEF Counts, b
    <3>3. attempt' \in [Attempts -> RunRecord]
      BY <3>1, <3>2
    <3> QED  BY <3>1, <3>2, <3>3, GateRecords DEF NamingIInv, NamingTypes
  <2> QED  BY <2>1, <2>2
<1>5. NamingTypes'
  BY <1>1, <1>2, <1>3, <1>4 DEF NamingIInv, NamingTypes
<1>6. NamingDue'
  BY <1>1, <1>2, <1>4 DEF NamingIInv, NamingDue, OnItsWay
<1>7. CancelsDead' /\ TypedStays'
  BY <1>1, <1>2 DEF NamingIInv, CancelsDead, TypedStays
<1>8. GateHolds' /\ OneCounts'
  BY <1>1, <1>4 DEF NamingIInv, GateHolds, OneCounts
<1> QED  BY <1>5, <1>6, <1>7, <1>8 DEF NamingIInv

\* Time passes only while no request to the namer is past its deadline.
LEMMA NamingTickKeeps ==
  ASSUME NamingIInv, NamingTick
  PROVE  NamingIInv'
<1>1. UNCHANGED <<group, job, edit, attempt, force, groupGate, typed, beaten, overtaken, settled>>
  BY DEF NamingTick
<1>2. moment' = moment + 1 /\ moment \in Nat /\ moment' \in Nat \ {0}
  BY DEF NamingTick, NamingIInv, NamingTypes
<1>3. NamingTypes'
  BY <1>1, <1>2 DEF NamingIInv, NamingTypes
<1>4. NamingDue' /\ CancelsDead' /\ TypedStays'
  BY <1>1 DEF NamingIInv, NamingDue, CancelsDead, TypedStays
<1>5. ASSUME NEW r \in Attempts, Counts(attempt[r])
      PROVE  HeldBy(attempt[r], groupGate, moment')
  <2>1. Resting(attempt[r]) /\ HeldBy(attempt[r], groupGate, moment) /\ attempt[r].at \in Nat
    BY <1>5 DEF NamingTick, NamingIInv, GateHolds, NamingTypes, RunRecord
  <2>2. moment < attempt[r].at + GenerateTimeout
    BY <1>5, <2>1 DEF Resting, Counts
  <2>3. GenerateTimeout \in Nat
    BY GateAssumption
  <2>4. moment' <= attempt[r].at + GenerateTimeout
    BY <1>2, <2>1, <2>2, <2>3
  <2> QED  BY <2>1, <2>4 DEF HeldBy
<1>6. GateHolds'
  BY <1>1, <1>5 DEF GateHolds
<1>7. OneCounts'
  BY <1>1 DEF NamingIInv, OneCounts
<1> QED  BY <1>3, <1>4, <1>6, <1>7 DEF NamingIInv

LEMMA NamingStarts == NamingInit => NamingIInv
<1> SUFFICES ASSUME NamingInit PROVE NamingIInv
  OBVIOUS
<1>1. /\ group = [fp |-> None, name |-> None, mode |-> "auto", live |-> TRUE]
      /\ job = NoNaming /\ edit = [e \in Editors |-> NoEdit]
      /\ attempt = [r \in Attempts |-> NoRun] /\ force = NoRun
      /\ groupGate = NoState /\ moment = 1
      /\ typed = FALSE /\ beaten = FALSE /\ overtaken = FALSE /\ settled = TRUE
  BY DEF NamingInit
<1>2. typed \in BOOLEAN /\ beaten \in BOOLEAN /\ overtaken \in BOOLEAN /\ settled \in BOOLEAN
  BY <1>1
<1>3. group \in [fp : Memberships, name : Memberships \cup {User}, mode : {"auto", "manual"}, live : BOOLEAN]
  BY <1>1 DEF Memberships
<1>4. NamingTypes
  BY <1>1, <1>2, <1>3, GateRecords, NamingRecords DEF NamingTypes, NoState, GateRecord
<1>5. \A r \in Attempts : ~ Counts(attempt[r])
  BY <1>1, NamingRecords DEF Counts
<1>6. \A e \in Editors : edit[e].pc = "idle"
  BY <1>1, NamingRecords
<1>7. NamingDue /\ CancelsDead /\ TypedStays
  BY <1>1, <1>6 DEF NamingDue, CancelsDead, TypedStays
<1> QED  BY <1>4, <1>5, <1>7 DEF NamingIInv, GateHolds, OneCounts

LEMMA NamingPromises == NamingIInv => NamingInv
<1> SUFFICES ASSUME NamingIInv PROVE NamingInv
  OBVIOUS
<1>1. NamingOwed
  BY DEF NamingIInv, NamingDue, OnItsWay, Unobserved, NamingOwed
<1>2. ManualKept
  BY DEF NamingIInv, TypedStays, ManualKept
<1>3. OneAttempt
  <2> DEFINE out == {r \in Attempts : attempt[r].pc \in {"generating", "apply"} /\ ~ attempt[r].reset}
  <2>1. \A r, q \in out : r = q
    BY DEF NamingIInv, OneCounts, Counts
  <2>2. CASE out = {}
    <3>1. Cardinality(out) = 0
      BY <2>2, FS_EmptySet
    <3> QED  BY <3>1 DEF OneAttempt
  <2>3. CASE out # {}
    <3>1. PICK r \in out : out = {r}
      BY <2>1, <2>3
    <3>2. Cardinality(out) = 1
      BY <3>1, FS_Singleton
    <3> QED  BY <3>2 DEF OneAttempt
  <2> QED  BY <2>2, <2>3
<1> QED  BY <1>1, <1>2, <1>3 DEF NamingInv

\* For any number of sessions, requests and attempts, and any intervals of the
\* gate that are longer than a request to the namer: no membership is forgotten
\* by the coordinator, no name typed by a user is lost to a generated one, and
\* the gate lets one request out at a time.
THEOREM MembershipsNamed == NamingSpec => []NamingInv
<1>1. NamingIInv /\ [NamingNext]_<<groupNamingVars, moment>> => NamingIInv'
  <2> SUFFICES ASSUME NamingIInv, [NamingNext]_<<groupNamingVars, moment>> PROVE NamingIInv'
    OBVIOUS
  <2>1. CASE \E e \in Editors : EditReads(e) \/ EditObserves(e) \/ Cancel(e)
    BY <2>1, EditReadsKeeps, EditObservesKeeps, CancelKeeps
  <2>2. CASE \E e \in Editors, saved \in BOOLEAN : \/ Dissolved(e, saved)
                                                  \/ \E m \in Fingerprints : EditWrites(e, m, saved)
    BY <2>2, DissolvedKeeps, EditWritesKeeps
  <2>3. CASE \E mode \in {"auto", "manual"} : UserNames(mode)
    BY <2>3, UserKeeps
  <2>4. CASE DeleteGroup \/ DebounceFires
    BY <2>4, DeleteKeeps, DebounceKeeps
  <2>5. CASE ForceStarts \/ \E ok \in BOOLEAN : ForceChecks(ok)
    BY <2>5, ForceKeeps
  <2>6. CASE \E ok \in BOOLEAN : ForceWrites(ok)
    BY <2>6, ForceWritesKeeps
  <2>7. CASE NamingTick
    BY <2>7, NamingTickKeeps
  <2>8. CASE \E r \in Attempts : Begins(r) \/ SchedulesRetry(r) \/ RetryFires(r)
    BY <2>8, BeginsKeeps, RetriesKeep
  <2>9. CASE \E r \in Attempts : GenerationFails(r) \/ GenerationReturns(r)
    BY <2>9, ResultsKeep
  <2>10. CASE \E r \in Attempts, saved \in BOOLEAN : StoresName(r, saved)
    BY <2>10, StoresKeep
  <2>11. CASE UNCHANGED <<groupNamingVars, moment>>
    BY <2>11 DEF groupNamingVars, NamingIInv, NamingTypes, NamingDue, CancelsDead, TypedStays, GateHolds, OneCounts
  <2> QED
    BY <2>1, <2>2, <2>3, <2>4, <2>5, <2>6, <2>7, <2>8, <2>9, <2>10, <2>11 DEF NamingNext
<1> QED  BY <1>1, NamingStarts, NamingPromises, PTL DEF NamingSpec

-----------------------------------------------------------------------------
(* SessionNames.  UserLabelKept speaks of the metadata, which a restart takes
   from the file: the file, and every save that may still reach it, has the
   user's label too, or a save is under way that will bring it there or be
   noticed.  LabelFollowsAgent needs that a label marked as the user's is no
   generated one, since the change of the agent session spares such labels.
   OneNaming rests on the gate, as OneAttempt does. *)

MetaRecord == [label : Labels, userSet : BOOLEAN, assigned : BOOLEAN, agent : BOOLEAN,
               id : AgentSessions \cup {NoAgent}, prompted : BOOLEAN, prompts : Nat, namedAt : Nat]
ListedRecord == [present : BOOLEAN, label : Labels, userSet : BOOLEAN]
FileRecord == [label : Labels, userSet : BOOLEAN, assigned : BOOLEAN, prompted : BOOLEAN]
SaveRecord == [pc : {"idle", "copy", "write"}, copy : FileRecord, stale : BOOLEAN, typed : BOOLEAN]
NamerRecord == [pc : {"idle", "read", "gate", "generating", "clear", "apply"}, for : Labels, at : Nat]

NamesTypes ==
  /\ meta \in MetaRecord /\ namesFile \in FileRecord
  /\ naming \in [Namers -> NamerRecord] /\ regen \in NamerRecord
  /\ saver \in [Savers -> SaveRecord]
  /\ nameGate \in GateRecord /\ moment \in Nat \ {0}
  /\ word \in {"none", "saving", "typed"} /\ disturbed \in BOOLEAN /\ crossed \in BOOLEAN

\* The user's label, in the metadata, in the file or in a copy.
IsTyped(m) == m.userSet /\ m.label = Typed

\* A save that will bring the user's label to the file, or be noticed.
Brings(x) == x.pc = "copy" \/ (x.pc = "write" /\ (x.stale \/ IsTyped(x.copy)))

OnDisk(saves, file) ==
  \/ IsTyped(file) /\ \A s \in Savers : saves[s].pc = "write" /\ ~ saves[s].stale => IsTyped(saves[s].copy)
  \/ \E s \in Savers : Brings(saves[s])

WordHeld ==
  word # "none" /\ ~ disturbed => IsTyped(meta) /\ OnDisk(saver, namesFile) /\ regen.pc # "apply"

\* The label of m is the user's or its agent session's.
OwnLabel(m) == (m.userSet => m.label \notin AgentSessions) /\ (m.label \in AgentSessions => m.label = m.id)

LabelOwned == crossed \/ OwnLabel(meta)

NamerHeld == \A r \in Namers : naming[r].pc = "generating" => HeldBy(naming[r], nameGate, moment)
OneOut == \A r, q \in Namers : naming[r].pc = "generating" /\ naming[q].pc = "generating" => r = q

NamesIInv == NamesTypes /\ WordHeld /\ LabelOwned /\ NamerHeld /\ OneOut

\* The constants of the module.
LEMMA NamesRecords ==
  /\ Zero \in MetaRecord /\ Blank \in FileRecord /\ IdleNaming \in NamerRecord /\ IdleNaming.pc = "idle"
  /\ IdleSave \in SaveRecord /\ IdleSave.pc = "idle" /\ ~ IdleSave.stale
  /\ OwnLabel(Zero)
<1>1. NoLabel \in Labels /\ NoLabel \notin AgentSessions
  BY NamesAssumption DEF Labels
<1>2. Zero \in MetaRecord
  BY <1>1 DEF Zero, MetaRecord
<1>3. Blank \in FileRecord
  BY <1>1 DEF Blank, FileRecord
<1>4. IdleNaming \in NamerRecord /\ IdleNaming.pc = "idle"
  BY <1>1 DEF IdleNaming, NamerRecord
<1>5. IdleSave \in SaveRecord /\ IdleSave.pc = "idle" /\ ~ IdleSave.stale
  BY <1>3 DEF IdleSave, SaveRecord
<1>6. OwnLabel(Zero)
  BY <1>1 DEF OwnLabel, Zero
<1> QED  BY <1>2, <1>3, <1>4, <1>5, <1>6

\* A call of saveNames begins.
LEMMA SavesBegin ==
  ASSUME NamesTypes, NEW b \in BOOLEAN, Saves(b)
  PROVE  saver' \in [Savers -> SaveRecord] /\ \A file : OnDisk(saver', file)
<1> DEFINE rec == [IdleSave EXCEPT !.pc = "copy", !.typed = b]
<1>1. rec \in SaveRecord /\ rec.pc = "copy"
  BY NamesRecords DEF SaveRecord
<1>2. PICK s \in Savers : saver' = [saver EXCEPT ![s] = rec]
  BY DEF Saves
<1> HIDE DEF rec
<1>3. saver' \in [Savers -> SaveRecord] /\ saver'[s] = rec
  BY <1>1, <1>2 DEF NamesTypes
<1>4. Brings(saver'[s])
  BY <1>1, <1>3 DEF Brings
<1> QED  BY <1>3, <1>4 DEF OnDisk

\* Steps that leave the namers alone, or stop some of them.
LEMMA NamersKeep ==
  ASSUME NamesIInv, moment' = moment, nameGate'.lastAttempt = nameGate.lastAttempt,
         \A r \in Namers : naming'[r].pc = "generating" => naming'[r] = naming[r]
  PROVE  NamerHeld' /\ OneOut'
<1>1. NamerHeld'
  BY DEF NamesIInv, NamerHeld, HeldBy
<1>2. OneOut'
  BY DEF NamesIInv, OneOut
<1> QED  BY <1>1, <1>2

\* A naming is started, or an existing one moves to another record.
LEMMA NamerMoves ==
  ASSUME NamesIInv, NEW r \in Namers, NEW rec \in NamerRecord, naming' = [naming EXCEPT ![r] = rec],
         rec.pc # "generating", moment' = moment, nameGate'.lastAttempt = nameGate.lastAttempt
  PROVE  naming' \in [Namers -> NamerRecord] /\ NamerHeld' /\ OneOut'
<1>1. naming' \in [Namers -> NamerRecord] /\ naming'[r] = rec /\ \A q \in Namers \ {r} : naming'[q] = naming[q]
  BY DEF NamesIInv, NamesTypes
<1>2. \A q \in Namers : naming'[q].pc = "generating" => naming'[q] = naming[q]
  BY <1>1
<1> QED  BY <1>1, <1>2, NamersKeep

LEMMA NamerStarts ==
  ASSUME NamesIInv, NEW shell \in BOOLEAN, Starts(shell), moment' = moment, nameGate' = nameGate
  PROVE  naming' \in [Namers -> NamerRecord] /\ NamerHeld' /\ OneOut'
<1> DEFINE rec == [IdleNaming EXCEPT !.pc = "read", !.for = IF shell THEN Shell ELSE NoLabel]
<1>1. rec \in NamerRecord /\ rec.pc = "read"
  BY NamesRecords DEF NamerRecord, Labels
<1>2. PICK r \in Namers : naming' = [naming EXCEPT ![r] = rec]
  BY DEF Starts
<1> HIDE DEF rec
<1> QED  BY <1>1, <1>2, NamerMoves

-----------------------------------------------------------------------------
(* The steps on the metadata. *)

\* The metadata after an event keeps a label of the user, and what it leaves
\* of a generated one belongs to the agent session of the event.
LEMMA AfterEventKeeps ==
  ASSUME NamesTypes, NEW i \in AgentSessions, NEW prompt \in BOOLEAN
  PROVE  LET m == AfterEvent(i, prompt) IN
         /\ m \in MetaRecord
         /\ IsTyped(meta) => IsTyped(m)
         /\ OwnLabel(meta) => OwnLabel(m)
         /\ m.label # meta.label => OwnLabel(m)
<1> DEFINE b == IF meta.id \notin {NoAgent, i} THEN ResetFor(i) ELSE meta
<1> DEFINE m == AfterEvent(i, prompt)
<1>0. NoLabel \in Labels /\ NoLabel \notin AgentSessions /\ NoAgent \notin AgentSessions
  BY NamesAssumption DEF Labels
<1>1. /\ ResetFor(i) \in MetaRecord /\ ResetFor(i).userSet = meta.userSet
      /\ ResetFor(i).label = IF meta.userSet THEN meta.label ELSE NoLabel
  <2> DEFINE as == meta.userSet /\ meta.assigned
             lb == IF meta.userSet THEN meta.label ELSE NoLabel
             na == IF meta.userSet THEN meta.namedAt ELSE 0
             no == FALSE
             y == [meta EXCEPT !.prompted = no, !.prompts = 0]
  <2>1. as \in BOOLEAN /\ lb \in Labels /\ na \in Nat /\ no \in BOOLEAN
    BY <1>0 DEF NamesTypes, MetaRecord
  <2>2. ResetFor(i) = [y EXCEPT !.label = lb, !.assigned = as, !.namedAt = na]
    BY DEF ResetFor, NamesTypes, MetaRecord
  <2> HIDE DEF as, na, lb, no, y
  <2>3. meta \in MetaRecord
    BY DEF NamesTypes
  <2>4. ResetFor(i).userSet = meta.userSet /\ ResetFor(i).label = lb
    BY <2>2, <2>3 DEF MetaRecord, y
  <2>5. y \in MetaRecord
    BY <2>1, <2>3 DEF MetaRecord, y
  <2>6. ResetFor(i) \in MetaRecord
    BY <2>1, <2>2, <2>5 DEF MetaRecord
  <2> QED  BY <2>4, <2>6 DEF lb
<1>2. b \in MetaRecord /\ b.userSet = meta.userSet
  BY <1>1 DEF NamesTypes
<1>3. m = [b EXCEPT !.agent = TRUE, !.id = i, !.prompted = b.prompted \/ prompt,
                    !.prompts = IF prompt THEN b.prompts + 1 ELSE b.prompts]
  BY DEF AfterEvent
<1>4. m \in MetaRecord /\ m.label = b.label /\ m.userSet = b.userSet /\ m.id = i
  <2> DEFINE pd == b.prompted \/ prompt
             pr == IF prompt THEN b.prompts + 1 ELSE b.prompts
  <2>1. pd \in BOOLEAN /\ pr \in Nat
    BY <1>2 DEF MetaRecord
  <2>2. m = [b EXCEPT !.agent = TRUE, !.id = i, !.prompted = pd, !.prompts = pr]
    BY <1>3
  <2> HIDE DEF pd, pr, b, m
  <2> QED  BY <1>2, <2>1, <2>2 DEF MetaRecord
<1>5. CASE meta.id \notin {NoAgent, i}
  <2>1. m.label = (IF meta.userSet THEN meta.label ELSE NoLabel) /\ m.userSet = meta.userSet
    BY <1>1, <1>4, <1>5
  <2> HIDE DEF b, m
  <2> QED  BY <1>0, <1>4, <2>1 DEF IsTyped, OwnLabel, m
<1>6. CASE meta.id \in {NoAgent, i}
  <2>1. m.label = meta.label /\ m.userSet = meta.userSet
    BY <1>4, <1>6
  <2> HIDE DEF b, m
  <2> QED  BY <1>0, <1>4, <1>6, <2>1 DEF IsTyped, OwnLabel, m
<1> QED  BY <1>5, <1>6

\* The user's word holds through a step that does not touch it, the file or a
\* save under way.
LEMMA WordKept ==
  ASSUME NamesIInv, word' # "none" /\ ~ disturbed' => word # "none" /\ ~ disturbed,
         IsTyped(meta) => IsTyped(meta'), namesFile' = namesFile,
         saver' = saver \/ \A file : OnDisk(saver', file),
         regen'.pc = "apply" => regen.pc = "apply"
  PROVE  WordHeld'
<1> SUFFICES ASSUME word' # "none", ~ disturbed'
             PROVE  IsTyped(meta') /\ OnDisk(saver', namesFile') /\ regen'.pc # "apply"
  BY DEF WordHeld
<1>1. IsTyped(meta) /\ OnDisk(saver, namesFile) /\ regen.pc # "apply"
  BY DEF NamesIInv, WordHeld
<1>2. OnDisk(saver', namesFile')
  BY <1>1
<1> QED  BY <1>1, <1>2

LEMMA AgentEventKeeps ==
  ASSUME NamesIInv, NEW i \in AgentSessions, NEW prompt \in BOOLEAN, NEW turnEnds \in BOOLEAN,
         AgentEvent(i, prompt, turnEnds)
  PROVE  NamesIInv'
<1> DEFINE m == AfterEvent(i, prompt)
<1>1. /\ meta' = m /\ crossed' = (crossed /\ m.label = meta.label)
      /\ UNCHANGED <<namesFile, regen, nameGate, word, disturbed, moment>>
      /\ \/ Starts(FALSE) /\ UNCHANGED saver
         \/ Saves(FALSE) /\ UNCHANGED naming
         \/ UNCHANGED <<saver, naming>>
  BY DEF AgentEvent
<1>2. /\ m \in MetaRecord /\ (IsTyped(meta) => IsTyped(m))
      /\ (OwnLabel(meta) => OwnLabel(m)) /\ (m.label # meta.label => OwnLabel(m))
  BY AfterEventKeeps DEF NamesIInv
<1> HIDE DEF m
<1>3. crossed' \in BOOLEAN
  BY <1>1
<1>4. LabelOwned'
  BY <1>1, <1>2 DEF NamesIInv, LabelOwned
<1>5. saver' \in [Savers -> SaveRecord] /\ (saver' = saver \/ \A file : OnDisk(saver', file))
  BY <1>1, SavesBegin DEF NamesIInv, NamesTypes
<1>6. naming' \in [Namers -> NamerRecord] /\ NamerHeld' /\ OneOut'
  <2>1. CASE Starts(FALSE)
    BY <1>1, <2>1, NamerStarts
  <2>2. CASE UNCHANGED naming
    BY <1>1, <2>2, NamersKeep DEF NamesIInv, NamesTypes
  <2> QED  BY <1>1, <2>1, <2>2
<1>7. WordHeld'
  BY <1>1, <1>2, <1>5, WordKept
<1>8. NamesTypes'
  BY <1>1, <1>2, <1>3, <1>5, <1>6 DEF NamesIInv, NamesTypes
<1> QED  BY <1>4, <1>6, <1>7, <1>8 DEF NamesIInv

\* Steps of the namers and of the listed session that leave the metadata alone.
LEMMA QuietKeeps ==
  ASSUME NamesIInv, UNCHANGED <<meta, namesFile, saver, word, disturbed, crossed, moment>>,
         naming' \in [Namers -> NamerRecord], NamerHeld', OneOut', nameGate' \in GateRecord,
         regen' \in NamerRecord, regen'.pc = "apply" => regen.pc = "apply"
  PROVE  NamesIInv'
<1>1. NamesTypes'
  BY DEF NamesIInv, NamesTypes
<1>2. WordHeld'
  BY WordKept
<1>3. LabelOwned'
  BY DEF NamesIInv, LabelOwned
<1> QED  BY <1>1, <1>2, <1>3 DEF NamesIInv

LEMMA ShellKeeps ==
  ASSUME NamesIInv, ShellCommand
  PROVE  NamesIInv'
<1>1. Starts(TRUE) /\ UNCHANGED <<meta, namesFile, regen, saver, nameGate, word, disturbed, crossed, moment>>
  BY DEF ShellCommand
<1>2. naming' \in [Namers -> NamerRecord] /\ NamerHeld' /\ OneOut'
  BY <1>1, NamerStarts
<1> QED  BY <1>1, <1>2, QuietKeeps DEF NamesIInv, NamesTypes

LEMMA NamingReadsKeeps ==
  ASSUME NamesIInv, NEW r \in Namers, NamingReads(r)
  PROVE  NamesIInv'
<1> DEFINE rec == [naming[r] EXCEPT !.pc = "gate", !.for = IF naming[r].for = Shell THEN Shell ELSE meta.id]
<1>1. UNCHANGED <<meta, namesFile, regen, saver, nameGate, word, disturbed, crossed, moment>>
  BY DEF NamingReads
<1>2. rec \in NamerRecord /\ rec.pc = "gate"
  BY DEF NamesIInv, NamesTypes, NamerRecord, MetaRecord, Labels
<1>3. naming' = [naming EXCEPT ![r] = rec] \/ naming' = [naming EXCEPT ![r] = IdleNaming]
  BY DEF NamingReads, NamesIInv, NamesTypes
<1> HIDE DEF rec
<1>4. naming' \in [Namers -> NamerRecord] /\ NamerHeld' /\ OneOut'
  BY <1>1, <1>2, <1>3, NamerMoves, NamesRecords
<1> QED  BY <1>1, <1>4, QuietKeeps DEF NamesIInv, NamesTypes

\* An automatic naming begins: the gate was open, so no other is out.
LEMMA NamingBeginsKeeps ==
  ASSUME NamesIInv, NEW r \in Namers, NamingBegins(r)
  PROVE  NamesIInv'
<1>1. /\ UNCHANGED <<meta, namesFile, regen, saver, word, disturbed, crossed, moment>>
      /\ naming[r] \in NamerRecord /\ nameGate \in GateRecord /\ moment \in Nat \ {0}
      /\ naming[r].pc = "gate"
  BY DEF NamingBegins, NamesIInv, NamesTypes
<1>2. CASE ~ MayBegin(nameGate)
  <2>1. naming' = [naming EXCEPT ![r] = IdleNaming] /\ UNCHANGED nameGate
    BY <1>2 DEF NamingBegins
  <2>2. naming' \in [Namers -> NamerRecord] /\ NamerHeld' /\ OneOut'
    BY <1>1, <2>1, NamerMoves, NamesRecords
  <2> QED  BY <1>1, <2>1, <2>2, QuietKeeps DEF NamesIInv, NamesTypes
<1>3. CASE MayBegin(nameGate)
  <2> DEFINE rec == [naming[r] EXCEPT !.pc = "generating", !.at = moment]
  <2>1. rec \in NamerRecord /\ rec.pc = "generating" /\ rec.at = moment
    BY <1>1 DEF NamerRecord
  <2>2. naming' = [naming EXCEPT ![r] = rec] /\ nameGate' = Begun(nameGate)
    BY <1>3 DEF NamingBegins, NamesIInv, NamesTypes
  <2> HIDE DEF rec
  <2>3. naming' \in [Namers -> NamerRecord] /\ naming'[r] = rec /\ \A q \in Namers \ {r} : naming'[q] = naming[q]
    BY <2>1, <2>2 DEF NamesIInv, NamesTypes
  <2>4. nameGate' \in GateRecord /\ nameGate'.lastAttempt = moment
    BY <1>1, <2>2, GateRecords
  <2>5. \A q \in Namers : naming[q].pc # "generating"
    BY <1>1, <1>3, GateClosed DEF NamesIInv, NamerHeld, NamesTypes, NamerRecord
  <2>6. \A q \in Namers : naming'[q].pc = "generating" => q = r
    BY <2>3, <2>5
  <2>7. GenerateTimeout \in Nat
    BY GateAssumption
  <2>8. NamerHeld'
    BY <1>1, <2>1, <2>3, <2>4, <2>6, <2>7 DEF NamerHeld, HeldBy
  <2>9. OneOut'
    BY <2>6 DEF OneOut
  <2> QED  BY <1>1, <2>3, <2>4, <2>8, <2>9, QuietKeeps DEF NamesIInv, NamesTypes
<1> QED  BY <1>2, <1>3

LEMMA NamingFailsKeeps ==
  ASSUME NamesIInv, NEW r \in Namers, NamingFails(r)
  PROVE  NamesIInv'
<1>1. /\ UNCHANGED <<meta, namesFile, regen, saver, word, disturbed, crossed, moment>>
      /\ naming' = [naming EXCEPT ![r] = IdleNaming] /\ nameGate' = Failed(nameGate)
  BY DEF NamingFails
<1>2. nameGate' \in GateRecord /\ nameGate'.lastAttempt = nameGate.lastAttempt
  BY <1>1, GateRecords DEF NamesIInv, NamesTypes
<1>3. naming' \in [Namers -> NamerRecord] /\ NamerHeld' /\ OneOut'
  BY <1>1, <1>2, NamerMoves, NamesRecords
<1> QED  BY <1>1, <1>2, <1>3, QuietKeeps DEF NamesIInv, NamesTypes

\* applyGeneratedName leaves the user's label alone.
LEMMA AppliedKeeps ==
  ASSUME NamesIInv, NEW for \in Labels, Applied(for)
  PROVE  /\ meta' \in MetaRecord /\ (IsTyped(meta) => IsTyped(meta'))
         /\ saver' \in [Savers -> SaveRecord] /\ (saver' = saver \/ \A file : OnDisk(saver', file))
         /\ crossed' \in BOOLEAN /\ LabelOwned'
         /\ nameGate' \in GateRecord /\ nameGate'.lastAttempt = nameGate.lastAttempt
<1>1. CASE Locked
  BY <1>1 DEF Applied, NamesIInv, NamesTypes, LabelOwned
<1>2. CASE ~ Locked
  <2> DEFINE yes == TRUE
  <2>1. /\ meta' = [meta EXCEPT !.label = for, !.assigned = yes, !.namedAt = moment]
        /\ nameGate' = Succeeded(nameGate)
        /\ Saves(FALSE) \/ UNCHANGED saver
        /\ crossed' = (for \in AgentSessions /\ for # meta.id)
    BY <1>2 DEF Applied
  <2>2. yes \in BOOLEAN
    OBVIOUS
  <2> HIDE DEF yes
  <2>3. meta' \in MetaRecord /\ meta'.label = for /\ meta'.userSet = meta.userSet /\ meta'.id = meta.id
    BY <2>1, <2>2 DEF NamesIInv, NamesTypes, MetaRecord
  <2>4. ~ meta.userSet
    BY <1>2 DEF Locked
  <2>5. saver' \in [Savers -> SaveRecord] /\ (saver' = saver \/ \A file : OnDisk(saver', file))
    BY <2>1, SavesBegin DEF NamesIInv, NamesTypes
  <2>6. nameGate' \in GateRecord /\ nameGate'.lastAttempt = nameGate.lastAttempt
    BY <2>1, GateRecords DEF NamesIInv, NamesTypes
  <2>7. crossed' \in BOOLEAN
    BY <2>1
  <2>8. LabelOwned'
    BY <2>1, <2>3, <2>4 DEF LabelOwned, OwnLabel
  <2> QED  BY <2>3, <2>4, <2>5, <2>6, <2>7, <2>8 DEF IsTyped
<1> QED  BY <1>1, <1>2

LEMMA NamingAppliesKeeps ==
  ASSUME NamesIInv, NEW r \in Namers, NamingApplies(r)
  PROVE  NamesIInv'
<1>1. /\ Applied(naming[r].for) /\ naming' = [naming EXCEPT ![r] = IdleNaming]
      /\ UNCHANGED <<namesFile, regen, word, disturbed, moment>>
  BY DEF NamingApplies
<1>2. naming[r].for \in Labels
  BY DEF NamesIInv, NamesTypes, NamerRecord
<1>3. /\ meta' \in MetaRecord /\ (IsTyped(meta) => IsTyped(meta'))
      /\ saver' \in [Savers -> SaveRecord] /\ (saver' = saver \/ \A file : OnDisk(saver', file))
      /\ crossed' \in BOOLEAN /\ LabelOwned'
      /\ nameGate' \in GateRecord /\ nameGate'.lastAttempt = nameGate.lastAttempt
  BY <1>1, <1>2, AppliedKeeps
<1>4. naming' \in [Namers -> NamerRecord] /\ NamerHeld' /\ OneOut'
  BY <1>1, <1>3, NamerMoves, NamesRecords
<1>5. WordHeld'
  BY <1>1, <1>3, WordKept
<1>6. NamesTypes'
  BY <1>1, <1>3, <1>4 DEF NamesIInv, NamesTypes
<1> QED  BY <1>3, <1>4, <1>5, <1>6 DEF NamesIInv

\* The user types a label or clears it.
LEMMA SetDisplayNameKeeps ==
  ASSUME NamesIInv, NEW clear \in BOOLEAN, SetDisplayName(clear)
  PROVE  NamesIInv'
<1> DEFINE lb == IF clear THEN NoLabel ELSE Typed
           us == ~ clear
           as == meta.assigned \/ ~ clear
<1>1. /\ meta' = [meta EXCEPT !.label = lb, !.userSet = us, !.assigned = as]
      /\ Saves(~ clear) /\ word' = (IF clear THEN "none" ELSE "saving")
      /\ disturbed' = (regen.pc # "idle") /\ crossed' = FALSE
      /\ UNCHANGED <<namesFile, naming, regen, nameGate, moment>>
  BY DEF SetDisplayName
<1>2. lb \in Labels \ AgentSessions /\ us \in BOOLEAN /\ as \in BOOLEAN
  BY NamesAssumption DEF Labels
<1> HIDE DEF lb, us, as
<1>3. meta' \in MetaRecord /\ meta'.label = lb /\ meta'.userSet = us
  BY <1>1, <1>2 DEF NamesIInv, NamesTypes, MetaRecord
<1>4. saver' \in [Savers -> SaveRecord] /\ \A file : OnDisk(saver', file)
  BY <1>1, SavesBegin DEF NamesIInv
<1>5. word' \in {"none", "saving", "typed"} /\ disturbed' \in BOOLEAN /\ crossed' \in BOOLEAN
  BY <1>1
<1>6. WordHeld'
  BY <1>1, <1>3, <1>4 DEF WordHeld, IsTyped, lb, us
<1>7. LabelOwned'
  BY <1>2, <1>3 DEF LabelOwned, OwnLabel
<1>8. NamerHeld' /\ OneOut'
  BY <1>1, NamersKeep
<1>9. NamesTypes'
  BY <1>1, <1>3, <1>4, <1>5 DEF NamesIInv, NamesTypes
<1> QED  BY <1>6, <1>7, <1>8, <1>9 DEF NamesIInv

LEMMA RegenKeeps ==
  ASSUME NamesIInv, RegenStarts \/ \E ok \in BOOLEAN : RegenReturns(ok)
  PROVE  NamesIInv'
<1>1. UNCHANGED <<meta, namesFile, naming, saver, nameGate, word, disturbed, crossed, moment>>
  BY DEF RegenStarts, RegenReturns
<1>2. regen' \in NamerRecord /\ regen'.pc # "apply"
  <2>1. CASE RegenStarts
    <3>1. regen' = [pc |-> "generating", for |-> IF meta.agent THEN meta.id ELSE Shell, at |-> moment]
      BY <2>1 DEF RegenStarts
    <3> QED  BY <3>1 DEF NamesIInv, NamesTypes, NamerRecord, MetaRecord, Labels
  <2>2. CASE \E ok \in BOOLEAN : RegenReturns(ok)
    <3>1. regen' = [regen EXCEPT !.pc = "clear"] \/ regen' = IdleNaming
      BY <2>2 DEF RegenReturns
    <3> QED  BY <3>1, NamesRecords DEF NamesIInv, NamesTypes, NamerRecord
  <2> QED  BY <2>1, <2>2
<1>3. NamerHeld' /\ OneOut'
  BY <1>1, NamersKeep
<1> QED  BY <1>1, <1>2, <1>3, QuietKeeps DEF NamesIInv, NamesTypes

\* The explicit rename takes back the user's word.
LEMMA ApplyAINameKeeps ==
  ASSUME NamesIInv, ApplyAIName
  PROVE  NamesIInv'
<1> DEFINE no == FALSE
           at == IF meta.agent THEN 1 ELSE 0
<1>1. /\ meta' = [meta EXCEPT !.assigned = no, !.userSet = no]
      /\ regen' = [regen EXCEPT !.pc = "apply", !.at = at] /\ word' = "none"
      /\ UNCHANGED <<namesFile, naming, saver, nameGate, disturbed, crossed, moment>>
  BY DEF ApplyAIName
<1>2. no \in BOOLEAN /\ at \in Nat
  OBVIOUS
<1> HIDE DEF no, at
<1>3. meta' \in MetaRecord /\ meta'.label = meta.label /\ meta'.userSet = no /\ meta'.id = meta.id
  BY <1>1, <1>2 DEF NamesIInv, NamesTypes, MetaRecord
<1>4. regen' \in NamerRecord
  BY <1>1, <1>2 DEF NamesIInv, NamesTypes, NamerRecord
<1>5. WordHeld'
  BY <1>1 DEF WordHeld
<1>6. LabelOwned'
  BY <1>1, <1>3 DEF NamesIInv, LabelOwned, OwnLabel, no
<1>7. NamerHeld' /\ OneOut'
  BY <1>1, NamersKeep
<1>8. NamesTypes'
  BY <1>1, <1>3, <1>4 DEF NamesIInv, NamesTypes
<1> QED  BY <1>5, <1>6, <1>7, <1>8 DEF NamesIInv

LEMMA RegenStoresKeeps ==
  ASSUME NamesIInv, RegenStores
  PROVE  NamesIInv'
<1>1. /\ regen.pc = "apply" /\ regen' = IdleNaming
      /\ UNCHANGED <<namesFile, naming, word, disturbed, moment>>
  BY DEF RegenStores
<1>2. regen.for \in Labels
  BY DEF NamesIInv, NamesTypes, NamerRecord
<1>3. /\ meta' \in MetaRecord
      /\ saver' \in [Savers -> SaveRecord]
      /\ crossed' \in BOOLEAN /\ LabelOwned'
      /\ nameGate' \in GateRecord /\ nameGate'.lastAttempt = nameGate.lastAttempt
  <2>1. CASE regen.at = 1
    BY <1>2, <2>1, AppliedKeeps DEF RegenStores
  <2>2. CASE regen.at # 1
    <3> DEFINE yes == TRUE
    <3>1. /\ meta' = [meta EXCEPT !.label = regen.for, !.assigned = yes]
          /\ Saves(FALSE) /\ UNCHANGED nameGate
          /\ crossed' = (meta.userSet \/ (regen.for \in AgentSessions /\ regen.for # meta.id))
      BY <2>2 DEF RegenStores
    <3>2. yes \in BOOLEAN /\ crossed' \in BOOLEAN
      BY <3>1
    <3> HIDE DEF yes
    <3>3. meta' \in MetaRecord /\ meta'.label = regen.for /\ meta'.userSet = meta.userSet /\ meta'.id = meta.id
      BY <1>2, <3>1, <3>2 DEF NamesIInv, NamesTypes, MetaRecord
    <3>4. LabelOwned'
      BY <3>1, <3>3 DEF LabelOwned, OwnLabel
    <3> QED  BY <3>1, <3>2, <3>3, <3>4, SavesBegin DEF NamesIInv, NamesTypes
  <2> QED  BY <2>1, <2>2
<1>4. WordHeld'
  BY <1>1 DEF NamesIInv, WordHeld
<1>5. NamerHeld' /\ OneOut'
  BY <1>1, <1>3, NamersKeep
<1>6. NamesTypes'
  BY <1>1, <1>3, NamesRecords DEF NamesIInv, NamesTypes
<1> QED  BY <1>3, <1>4, <1>5, <1>6 DEF NamesIInv

\* The session is listed, or an agent starts or exits in it.
LEMMA ListedKeeps ==
  ASSUME NamesIInv, AddSession \/ AgentStarts \/ AgentExits
  PROVE  NamesIInv'
<1>1. UNCHANGED <<meta, namesFile, naming, regen, saver, nameGate, word, disturbed, crossed, moment>>
  BY DEF AddSession, AgentStarts, AgentExits
<1>2. NamerHeld' /\ OneOut'
  BY <1>1, NamersKeep
<1> QED  BY <1>1, <1>2, QuietKeeps DEF NamesIInv, NamesTypes

LEMMA RemoveKeeps ==
  ASSUME NamesIInv, RemoveSession
  PROVE  NamesIInv'
<1>1. /\ meta' = Zero /\ Saves(FALSE) /\ word' = "none" /\ crossed' = FALSE
      /\ UNCHANGED <<namesFile, naming, regen, nameGate, disturbed, moment>>
  BY DEF RemoveSession
<1>2. saver' \in [Savers -> SaveRecord] /\ crossed' \in BOOLEAN
  BY <1>1, SavesBegin DEF NamesIInv
<1>3. NamesTypes'
  BY <1>1, <1>2, NamesRecords DEF NamesIInv, NamesTypes
<1>4. WordHeld' /\ LabelOwned'
  BY <1>1, NamesRecords DEF WordHeld, LabelOwned
<1>5. NamerHeld' /\ OneOut'
  BY <1>1, NamersKeep
<1> QED  BY <1>3, <1>4, <1>5 DEF NamesIInv

\* Enrichment clears stale agent data, and spares the user's label.
LEMMA EnrichKeeps ==
  ASSUME NamesIInv, Enrich
  PROVE  NamesIInv'
<1>1. /\ UNCHANGED <<namesFile, naming, regen, saver, nameGate, word, disturbed, moment>>
      /\ meta' = Cleared \/ meta' = meta
      /\ crossed' = (crossed /\ meta'.label # NoLabel)
  BY DEF Enrich
<1>2. Cleared \in MetaRecord /\ Cleared.userSet = meta.userSet /\ Cleared.id = meta.id
      /\ Cleared.label = IF meta.userSet THEN meta.label ELSE NoLabel
  <2> DEFINE no == FALSE
             lb == IF meta.userSet THEN meta.label ELSE NoLabel
  <2>1. no \in BOOLEAN /\ lb \in Labels
    BY DEF NamesIInv, NamesTypes, MetaRecord, Labels
  <2>2. Cleared = [meta EXCEPT !.agent = no, !.prompted = no, !.label = lb]
    BY DEF Cleared, NamesIInv, NamesTypes, MetaRecord
  <2> HIDE DEF no, lb
  <2>3. Cleared \in MetaRecord /\ Cleared.userSet = meta.userSet /\ Cleared.id = meta.id /\ Cleared.label = lb
    BY <2>1, <2>2 DEF NamesIInv, NamesTypes, MetaRecord
  <2> QED  BY <2>3 DEF lb
<1>3. NoLabel \notin AgentSessions
  BY NamesAssumption
<1>4. /\ meta' \in MetaRecord /\ meta'.userSet = meta.userSet /\ meta'.id = meta.id
      /\ meta'.label = meta.label \/ (~ meta.userSet /\ meta'.label = NoLabel)
  BY <1>1, <1>2 DEF NamesIInv, NamesTypes
<1>5. IsTyped(meta) => IsTyped(meta')
  BY <1>4 DEF IsTyped
<1>6. crossed' \in BOOLEAN
  BY <1>1
<1>7. LabelOwned'
  BY <1>1, <1>3, <1>4 DEF NamesIInv, LabelOwned, OwnLabel
<1>8. WordHeld'
  BY <1>1, <1>5, WordKept
<1>9. NamesTypes'
  BY <1>1, <1>4, <1>6 DEF NamesIInv, NamesTypes
<1>10. NamerHeld' /\ OneOut'
  BY <1>1, NamersKeep
<1> QED  BY <1>7, <1>8, <1>9, <1>10 DEF NamesIInv

-----------------------------------------------------------------------------
(* saveNames. *)

LEMMA CopiesKeep ==
  ASSUME NamesIInv, NEW s \in Savers, SaveNamesCopies(s)
  PROVE  NamesIInv'
<1>1. /\ UNCHANGED <<meta, namesFile, naming, regen, nameGate, word, disturbed, crossed, moment>>
      /\ saver[s].pc = "copy" /\ saver' = [saver EXCEPT ![s].pc = "write", ![s].copy = Copied]
  BY DEF SaveNamesCopies
<1>2. Copied \in FileRecord /\ (IsTyped(meta) => IsTyped(Copied))
  <2>1. CASE meta.label = NoLabel /\ ~ meta.userSet
    BY <2>1, NamesRecords DEF Copied, IsTyped
  <2>2. CASE ~ (meta.label = NoLabel /\ ~ meta.userSet)
    <3>1. Copied = [label |-> meta.label, userSet |-> meta.userSet, assigned |-> meta.assigned,
                    prompted |-> meta.prompted]
      BY <2>2 DEF Copied
    <3>2. Copied \in FileRecord
      BY <3>1 DEF FileRecord, NamesIInv, NamesTypes, MetaRecord
    <3>3. Copied.userSet = meta.userSet /\ Copied.label = meta.label
      BY <3>1
    <3> QED  BY <3>2, <3>3 DEF IsTyped
  <2> QED  BY <2>1, <2>2
<1> DEFINE rec == [saver[s] EXCEPT !.pc = "write", !.copy = Copied]
<1>3. rec \in SaveRecord /\ rec.pc = "write" /\ rec.copy = Copied
  BY <1>2 DEF NamesIInv, NamesTypes, SaveRecord
<1>4. saver' = [saver EXCEPT ![s] = rec]
  BY <1>1 DEF NamesIInv, NamesTypes
<1> HIDE DEF rec
<1>5. saver' \in [Savers -> SaveRecord] /\ saver'[s] = rec
  BY <1>3, <1>4 DEF NamesIInv, NamesTypes
<1>6. WordHeld'
  <2> SUFFICES ASSUME word # "none", ~ disturbed
               PROVE  IsTyped(meta) /\ OnDisk(saver', namesFile) /\ regen.pc # "apply"
    BY <1>1 DEF WordHeld
  <2>1. IsTyped(meta) /\ regen.pc # "apply"
    BY DEF NamesIInv, WordHeld
  <2>2. Brings(saver'[s])
    BY <1>2, <1>3, <1>5, <2>1 DEF Brings
  <2> QED  BY <2>1, <2>2 DEF OnDisk
<1>7. NamesTypes'
  BY <1>1, <1>5 DEF NamesIInv, NamesTypes
<1>8. LabelOwned'
  BY <1>1 DEF NamesIInv, LabelOwned
<1>9. NamerHeld' /\ OneOut'
  BY <1>1, NamersKeep
<1> QED  BY <1>6, <1>7, <1>8, <1>9 DEF NamesIInv

LEMMA WritesKeep ==
  ASSUME NamesIInv, NEW s \in Savers, SaveNamesWrites(s)
  PROVE  NamesIInv'
<1>1. /\ UNCHANGED <<meta, naming, regen, nameGate, crossed, moment>>
      /\ saver[s].pc = "write" /\ namesFile' = saver[s].copy
      /\ saver' = [o \in Savers |-> IF o = s THEN IdleSave
                                    ELSE [saver[o] EXCEPT !.stale = saver[o].pc = "write"]]
      /\ word' = IF saver[s].typed /\ word = "saving" THEN "typed" ELSE word
      /\ disturbed' = (disturbed \/ saver[s].stale)
  BY DEF SaveNamesWrites
<1>2. saver'[s] = IdleSave
  BY <1>1
<1>3. ASSUME NEW o \in Savers \ {s}
      PROVE  /\ saver'[o] \in SaveRecord /\ saver'[o].pc = saver[o].pc
             /\ (saver[o].pc = "write" => saver'[o].stale)
  <2> DEFINE b == saver[o].pc = "write"
  <2>1. saver'[o] = [saver[o] EXCEPT !.stale = b] /\ saver[o] \in SaveRecord /\ b \in BOOLEAN
    BY <1>1, <1>3 DEF NamesIInv, NamesTypes
  <2> HIDE DEF b
  <2>2. saver'[o] \in SaveRecord /\ saver'[o].pc = saver[o].pc /\ saver'[o].stale = b
    BY <2>1 DEF SaveRecord
  <2> QED  BY <2>2 DEF b
<1>4. saver' \in [Savers -> SaveRecord]
  <2>1. \A o \in Savers : saver'[o] \in SaveRecord
    BY <1>2, <1>3, NamesRecords
  <2>2. DOMAIN saver' = Savers /\ saver' = [o \in DOMAIN saver' |-> saver'[o]]
    BY <1>1
  <2> QED  BY <2>1, <2>2
<1>5. namesFile' \in FileRecord
  BY <1>1 DEF NamesIInv, NamesTypes, SaveRecord
<1>6. word' \in {"none", "saving", "typed"} /\ disturbed' \in BOOLEAN
  BY <1>1 DEF NamesIInv, NamesTypes
<1>7. WordHeld'
  <2> SUFFICES ASSUME word' # "none", ~ disturbed'
               PROVE  IsTyped(meta) /\ OnDisk(saver', namesFile') /\ regen.pc # "apply"
    BY <1>1 DEF WordHeld
  <2>1. word # "none" /\ ~ disturbed /\ ~ saver[s].stale
    BY <1>1
  <2>2. IsTyped(meta) /\ OnDisk(saver, namesFile) /\ regen.pc # "apply"
    BY <2>1 DEF NamesIInv, WordHeld
  <2>3. \A o \in Savers : ~ (saver'[o].pc = "write" /\ ~ saver'[o].stale)
    BY <1>2, <1>3, NamesRecords
  <2>4. CASE IsTyped(saver[s].copy)
    BY <1>1, <2>2, <2>3, <2>4 DEF OnDisk
  <2>5. CASE ~ IsTyped(saver[s].copy)
    <3>1. ~ Brings(saver[s])
      BY <1>1, <2>1, <2>5 DEF Brings
    <3>2. PICK o \in Savers : Brings(saver[o])
      BY <1>1, <2>1, <2>2, <2>5 DEF OnDisk
    <3>3. Brings(saver'[o])
      BY <1>3, <3>1, <3>2 DEF Brings
    <3> QED  BY <2>2, <3>3 DEF OnDisk
  <2> QED  BY <2>4, <2>5
<1>8. NamesTypes'
  BY <1>1, <1>4, <1>5, <1>6 DEF NamesIInv, NamesTypes
<1>9. LabelOwned'
  BY <1>1 DEF NamesIInv, LabelOwned
<1>10. NamerHeld' /\ OneOut'
  BY <1>1, NamersKeep
<1> QED  BY <1>7, <1>8, <1>9, <1>10 DEF NamesIInv

\* A restart finds in the file the label whose request was answered, unless a
\* save was cut off.
LEMMA ServerKeeps ==
  ASSUME NamesIInv, RestartServer
  PROVE  NamesIInv'
<1>1. /\ meta' = Loaded(namesFile)
      /\ naming' = [r \in Namers |-> IdleNaming] /\ regen' = IdleNaming
      /\ saver' = [s \in Savers |-> IdleSave] /\ nameGate' = NoState
      /\ word' = (IF word = "saving" THEN "none" ELSE word)
      /\ disturbed' = (disturbed \/ \E s \in Savers : saver[s].pc # "idle")
      /\ crossed' = TRUE
      /\ UNCHANGED <<namesFile, moment>>
  BY DEF RestartServer
<1>2. meta' \in MetaRecord /\ meta'.label = namesFile.label /\ meta'.userSet = namesFile.userSet
  <2>1. namesFile.label \in Labels /\ namesFile.userSet \in BOOLEAN /\ namesFile.assigned \in BOOLEAN
        /\ namesFile.prompted \in BOOLEAN
    BY DEF NamesIInv, NamesTypes, FileRecord
  <2>2. meta' = [Zero EXCEPT !.label = namesFile.label, !.userSet = namesFile.userSet,
                             !.assigned = namesFile.assigned, !.prompted = namesFile.prompted]
    BY <1>1 DEF Loaded
  <2> QED  BY <2>1, <2>2, NamesRecords DEF MetaRecord
<1>3. crossed' \in BOOLEAN /\ disturbed' \in BOOLEAN /\ word' \in {"none", "saving", "typed"}
  BY <1>1 DEF NamesIInv, NamesTypes
<1>4. NoState \in GateRecord
  BY DEF NoState, GateRecord
<1>5. NamesTypes'
  BY <1>1, <1>2, <1>3, <1>4, NamesRecords DEF NamesIInv, NamesTypes
<1>6. WordHeld'
  <2> SUFFICES ASSUME word' # "none", ~ disturbed'
               PROVE  IsTyped(meta') /\ OnDisk(saver', namesFile) /\ regen'.pc # "apply"
    BY <1>1 DEF WordHeld
  <2>1. word # "none" /\ ~ disturbed /\ \A s \in Savers : saver[s].pc = "idle"
    BY <1>1
  <2>2. IsTyped(namesFile)
    BY <2>1 DEF NamesIInv, WordHeld, OnDisk, Brings
  <2>3. OnDisk(saver', namesFile)
    BY <1>1, <2>2, NamesRecords DEF OnDisk
  <2> QED  BY <1>1, <1>2, <2>2, <2>3, NamesRecords DEF IsTyped
<1>7. LabelOwned'
  BY <1>1 DEF LabelOwned
<1>8. \A r \in Namers : naming'[r].pc # "generating"
  BY <1>1, NamesRecords
<1>9. NamerHeld' /\ OneOut'
  BY <1>8 DEF NamerHeld, OneOut
<1> QED  BY <1>5, <1>6, <1>7, <1>9 DEF NamesIInv

\* Time passes only while no naming is past its deadline.
LEMMA NamesTickKeeps ==
  ASSUME NamesIInv, NamesTick
  PROVE  NamesIInv'
<1>1. UNCHANGED <<meta, namesFile, naming, regen, saver, nameGate, word, disturbed, crossed>>
  BY DEF NamesTick
<1>2. moment' = moment + 1 /\ moment \in Nat /\ moment' \in Nat \ {0}
  BY DEF NamesTick, NamesIInv, NamesTypes
<1>3. NamesTypes'
  BY <1>1, <1>2 DEF NamesIInv, NamesTypes
<1>4. WordHeld' /\ LabelOwned' /\ OneOut'
  BY <1>1 DEF NamesIInv, WordHeld, LabelOwned, OneOut
<1>5. ASSUME NEW r \in Namers, naming[r].pc = "generating"
      PROVE  HeldBy(naming[r], nameGate, moment')
  <2>1. Quick(naming[r]) /\ HeldBy(naming[r], nameGate, moment) /\ naming[r].at \in Nat
    BY <1>5 DEF NamesTick, NamesIInv, NamerHeld, NamesTypes, NamerRecord
  <2>2. moment < naming[r].at + GenerateTimeout
    BY <1>5, <2>1 DEF Quick
  <2>3. GenerateTimeout \in Nat
    BY GateAssumption
  <2>4. moment' <= naming[r].at + GenerateTimeout
    BY <1>2, <2>1, <2>2, <2>3
  <2> QED  BY <2>1, <2>4 DEF HeldBy
<1>6. NamerHeld'
  BY <1>1, <1>5 DEF NamerHeld
<1> QED  BY <1>3, <1>4, <1>6 DEF NamesIInv

LEMMA NamesStart == NamesInit => NamesIInv
<1> SUFFICES ASSUME NamesInit PROVE NamesIInv
  OBVIOUS
<1>1. /\ meta = Zero /\ namesFile = Blank /\ naming = [r \in Namers |-> IdleNaming] /\ regen = IdleNaming
      /\ saver = [s \in Savers |-> IdleSave] /\ nameGate = NoState /\ moment = 1
      /\ word = "none" /\ disturbed = FALSE /\ crossed = FALSE
  BY DEF NamesInit
<1>2. disturbed \in BOOLEAN /\ crossed \in BOOLEAN
  BY <1>1
<1>3. NoState \in GateRecord
  BY DEF NoState, GateRecord
<1>4. NamesTypes
  BY <1>1, <1>2, <1>3, NamesRecords DEF NamesTypes
<1>5. WordHeld /\ LabelOwned
  BY <1>1, NamesRecords DEF WordHeld, LabelOwned
<1>6. \A r \in Namers : naming[r].pc # "generating"
  BY <1>1, NamesRecords
<1> QED  BY <1>4, <1>5, <1>6 DEF NamesIInv, NamerHeld, OneOut

LEMMA NamesPromise == NamesIInv => NamesInv
<1> SUFFICES ASSUME NamesIInv PROVE NamesInv
  OBVIOUS
<1>1. UserLabelKept
  BY DEF NamesIInv, WordHeld, IsTyped, UserLabelKept
<1>2. LabelFollowsAgent
  BY DEF NamesIInv, LabelOwned, OwnLabel, LabelFollowsAgent
<1>3. OneNaming
  <2> DEFINE out == {r \in Namers : naming[r].pc = "generating"}
  <2>1. \A r, q \in out : r = q
    BY DEF NamesIInv, OneOut
  <2>2. CASE out = {}
    <3>1. Cardinality(out) = 0
      BY <2>2, FS_EmptySet
    <3> QED  BY <3>1 DEF OneNaming
  <2>3. CASE out # {}
    <3>1. PICK r \in out : out = {r}
      BY <2>1, <2>3
    <3>2. Cardinality(out) = 1
      BY <3>1, FS_Singleton
    <3> QED  BY <3>2 DEF OneNaming
  <2> QED  BY <2>2, <2>3
<1> QED  BY <1>1, <1>2, <1>3 DEF NamesInv

\* For any agent sessions, namings and saves at once: a label the user typed
\* and had confirmed stays, in memory and across restarts; a generated label is
\* the running agent session's; and one automatic request to the namer is out
\* at a time.
THEOREM LabelsKept == NamesSpec => []NamesInv
<1>1. NamesIInv /\ [NamesNext]_<<sessionNamesVars, moment>> => NamesIInv'
  <2> SUFFICES ASSUME NamesIInv, [NamesNext]_<<sessionNamesVars, moment>> PROVE NamesIInv'
    OBVIOUS
  <2>1. CASE \E i \in AgentSessions : AgentEvent(i, TRUE, FALSE) \/ AgentEvent(i, FALSE, TRUE) \/ AgentEvent(i, FALSE, FALSE)
    BY <2>1, AgentEventKeeps
  <2>2. CASE ShellCommand \/ RegenStarts \/ ApplyAIName \/ RegenStores
    BY <2>2, ShellKeeps, RegenKeeps, ApplyAINameKeeps, RegenStoresKeeps
  <2>3. CASE \E r \in Namers : NamingReads(r) \/ NamingBegins(r) \/ NamingFails(r) \/ NamingApplies(r)
    BY <2>3, NamingReadsKeeps, NamingBeginsKeeps, NamingFailsKeeps, NamingAppliesKeeps
  <2>4. CASE \E b \in BOOLEAN : SetDisplayName(b) \/ RegenReturns(b)
    BY <2>4, SetDisplayNameKeeps, RegenKeeps
  <2>5. CASE AddSession \/ AgentStarts \/ AgentExits
    BY <2>5, ListedKeeps
  <2>6. CASE RemoveSession \/ Enrich
    BY <2>6, RemoveKeeps, EnrichKeeps
  <2>7. CASE \E s \in Savers : SaveNamesCopies(s) \/ SaveNamesWrites(s)
    BY <2>7, CopiesKeep, WritesKeep
  <2>8. CASE RestartServer \/ NamesTick
    BY <2>8, ServerKeeps, NamesTickKeeps
  <2>9. CASE UNCHANGED <<sessionNamesVars, moment>>
    BY <2>9 DEF sessionNamesVars, NamesIInv, NamesTypes, WordHeld, LabelOwned, NamerHeld, OneOut
  <2> QED
    BY <2>1, <2>2, <2>3, <2>4, <2>5, <2>6, <2>7, <2>8, <2>9 DEF NamesNext
<1> QED  BY <1>1, NamesStart, NamesPromise, PTL DEF NamesSpec

-----------------------------------------------------------------------------
(* SessionMesh.  Both parts of SharedInv speak of a link that has fallen quiet,
   so the invariant says what the lanes still owe.  For the list: the last list
   in the lane shows the session as it is, or an event that will send another
   is due.  For bits and ranks: a record that is newer at one end is in that
   end's lane; an expired tombstone is the exception, and there nothing of the
   kind is in flight.  That a stamp tells its record apart, and that a lane
   holds nothing newer than its sender's store, carries this through merges. *)

StampRecord == [on : BOOLEAN, at : Nat]
Frame == [type : {"state"}, live : BOOLEAN] \cup [type : Kinds, record : StampRecord]

SharedTypes ==
  /\ alive \in BOOLEAN /\ cache \in BOOLEAN /\ managerDue \in BOOLEAN /\ updateDue \in BOOLEAN
  /\ peerDue \in BOOLEAN /\ linked \in BOOLEAN /\ subscribed \in BOOLEAN /\ view \in BOOLEAN
  /\ lossy \in BOOLEAN /\ missed \in BOOLEAN
  /\ store \in [Ends -> [Kinds -> StampRecord]]
  /\ lane \in [Ends -> Seq(Frame)]
  /\ clock \in Nat

Queued(q, m) == \E i \in 1 .. Len(q) : q[i] = m

\* The viewer's list once it has read q is b, if it is v now.
Shows(q, v, b) ==
  \/ v = b /\ \A j \in 1 .. Len(q) : q[j].type # "state"
  \/ \E i \in 1 .. Len(q) : q[i].type = "state" /\ q[i].live = b
                             /\ \A j \in 1 .. Len(q) : j > i => q[j].type # "state"

LinkSound ==
  /\ subscribed => linked
  /\ updateDue \/ peerDue => subscribed
  /\ ~ linked => \A e \in Ends : lane[e] = <<>>
  /\ \A m \in Frame : Queued(lane["viewer"], m) => m.type # "state"

ListFresh ==
  linked /\ ~ lossy /\ ~ missed =>
    /\ managerDue \/ cache = alive
    /\ \/ Shows(lane["owner"], view, alive)
       \/ updateDue \/ (subscribed /\ managerDue) \/ (peerDue /\ cache = alive)

\* A record of kind k somewhere in the two stores st or the two lanes ln.
Somewhere(st, ln, k, r) == \E e \in Ends : st[e][k] = r \/ Queued(ln[e], Delta(k, r))

StampsTell ==
  \A k \in Kinds, r, s \in StampRecord :
    Somewhere(store, lane, k, r) =>
      /\ r.at <= clock /\ (r.at = 0 => ~ r.on)
      /\ Somewhere(store, lane, k, s) /\ r.at = s.at => r = s

SentOlder ==
  \A e \in Ends, k \in Kinds, r \in StampRecord : Queued(lane[e], Delta(k, r)) => r.at <= store[e][k].at

Quiet(ln, k) == \A e \in Ends, r \in StampRecord : ~ Queued(ln[e], Delta(k, r))

\* What end e has of kind k has reached the other end, or will.
Reaches(st, ln, e, k) ==
  \/ st[e][k].at <= st[Other(e)][k].at
  \/ Queued(ln[e], Delta(k, st[e][k]))
  \/ ~ st["owner"][k].on /\ ~ st["viewer"][k].on /\ Quiet(ln, k)

AllReaches == linked /\ ~ lossy => \A e \in Ends, k \in Kinds : Reaches(store, lane, e, k)

SharedIInv == SharedTypes /\ LinkSound /\ ListFresh /\ StampsTell /\ SentOlder /\ AllReaches

\* The ends of a link and the frames on it.
LEMMA EndsAndFrames ==
  /\ "owner" \in Ends /\ "viewer" \in Ends
  /\ \A e \in Ends : Other(e) \in Ends /\ Other(e) # e /\ Other(Other(e)) = e
  /\ \A e, o \in Ends : o = e \/ o = Other(e)
  /\ \A b \in BOOLEAN : State(b) \in Frame /\ State(b).type = "state" /\ State(b).live = b
  /\ \A k \in Kinds, r \in StampRecord :
       Delta(k, r) \in Frame /\ Delta(k, r).type = k /\ Delta(k, r).record = r /\ Delta(k, r).type # "state"
  /\ \A m \in Frame : \/ m.type = "state" /\ m.live \in BOOLEAN
                      \/ m.type \in Kinds /\ m.record \in StampRecord /\ m = Delta(m.type, m.record)
  /\ Absent \in StampRecord /\ Absent.at = 0 /\ ~ Absent.on
<1>1. /\ "owner" \in Ends /\ "viewer" \in Ends
      /\ \A e \in Ends : Other(e) \in Ends /\ Other(e) # e /\ Other(Other(e)) = e
      /\ \A e, o \in Ends : o = e \/ o = Other(e)
  BY DEF Ends, Other
<1>2. \A b \in BOOLEAN : State(b) \in Frame /\ State(b).type = "state" /\ State(b).live = b
  BY DEF State, Frame
<1>3. \A k \in Kinds, r \in StampRecord :
        Delta(k, r) \in Frame /\ Delta(k, r).type = k /\ Delta(k, r).record = r /\ Delta(k, r).type # "state"
  BY DEF Delta, Frame, Kinds
<1>4. ASSUME NEW m \in Frame
      PROVE  \/ m.type = "state" /\ m.live \in BOOLEAN
             \/ m.type \in Kinds /\ m.record \in StampRecord /\ m = Delta(m.type, m.record)
  BY DEF Frame, Delta
<1>5. Absent \in StampRecord /\ Absent.at = 0 /\ ~ Absent.on
  BY DEF Absent, StampRecord
<1> QED  BY <1>1, <1>2, <1>3, <1>4, <1>5

\* What a lane holds after a frame is put in, taken out, or a lane is filled.
LEMMA QueuedAppend ==
  ASSUME NEW q \in Seq(Frame), NEW f \in Frame
  PROVE  /\ Append(q, f) \in Seq(Frame)
         /\ \A m : Queued(Append(q, f), m) <=> Queued(q, m) \/ m = f
<1>1. Append(q, f) \in Seq(Frame) /\ Len(Append(q, f)) = Len(q) + 1 /\ Len(q) \in Nat
  OBVIOUS
<1>2. \A i \in 1 .. Len(q) : Append(q, f)[i] = q[i]
  OBVIOUS
<1>3. Append(q, f)[Len(q) + 1] = f
  OBVIOUS
<1>4. 1 .. (Len(q) + 1) = (1 .. Len(q)) \cup {Len(q) + 1}
  BY <1>1
<1> QED  BY <1>1, <1>2, <1>3, <1>4 DEF Queued

LEMMA QueuedTail ==
  ASSUME NEW q \in Seq(Frame), q # <<>>
  PROVE  /\ Tail(q) \in Seq(Frame) /\ Head(q) \in Frame /\ Queued(q, Head(q))
         /\ \A m : Queued(q, m) <=> m = Head(q) \/ Queued(Tail(q), m)
<1>1. Tail(q) \in Seq(Frame) /\ Head(q) \in Frame /\ Len(Tail(q)) = Len(q) - 1 /\ Len(q) \in Nat \ {0}
      /\ Head(q) = q[1]
  OBVIOUS
<1>2. \A i \in 1 .. Len(Tail(q)) : Tail(q)[i] = q[i + 1]
  OBVIOUS
<1>3. Queued(q, Head(q))
  BY <1>1 DEF Queued
<1>4. ASSUME NEW m, Queued(q, m)
      PROVE  m = Head(q) \/ Queued(Tail(q), m)
  <2>1. PICK i \in 1 .. Len(q) : q[i] = m
    BY <1>4 DEF Queued
  <2>2. CASE i = 1
    BY <1>1, <2>1, <2>2
  <2>3. CASE i # 1
    <3>1. i - 1 \in 1 .. Len(Tail(q)) /\ Tail(q)[i - 1] = m
      BY <1>1, <1>2, <2>1, <2>3
    <3> QED  BY <3>1 DEF Queued
  <2> QED  BY <2>2, <2>3
<1>5. ASSUME NEW m, Queued(Tail(q), m)
      PROVE  Queued(q, m)
  <2>1. PICK i \in 1 .. Len(Tail(q)) : Tail(q)[i] = m
    BY <1>5 DEF Queued
  <2>2. i + 1 \in 1 .. Len(q) /\ q[i + 1] = m
    BY <1>1, <1>2, <2>1
  <2> QED  BY <2>2 DEF Queued
<1> QED  BY <1>1, <1>3, <1>4, <1>5

LEMMA QueuedConcat ==
  ASSUME NEW p \in Seq(Frame), NEW q \in Seq(Frame)
  PROVE  /\ p \o q \in Seq(Frame)
         /\ \A m : Queued(p \o q, m) <=> Queued(p, m) \/ Queued(q, m)
<1>1. p \o q \in Seq(Frame) /\ Len(p \o q) = Len(p) + Len(q) /\ Len(p) \in Nat /\ Len(q) \in Nat
  OBVIOUS
<1>2. \A i \in 1 .. Len(p) : (p \o q)[i] = p[i]
  OBVIOUS
<1>3. \A i \in 1 .. Len(q) : (p \o q)[Len(p) + i] = q[i]
  OBVIOUS
<1>4. ASSUME NEW m, Queued(p \o q, m)
      PROVE  Queued(p, m) \/ Queued(q, m)
  <2>1. PICK i \in 1 .. Len(p \o q) : (p \o q)[i] = m
    BY <1>4 DEF Queued
  <2>2. CASE i <= Len(p)
    <3>1. i \in 1 .. Len(p) /\ p[i] = m
      BY <1>1, <1>2, <2>1, <2>2
    <3> QED  BY <3>1 DEF Queued
  <2>3. CASE i > Len(p)
    <3>1. i - Len(p) \in 1 .. Len(q) /\ i = Len(p) + (i - Len(p))
      BY <1>1, <2>1, <2>3
    <3>2. q[i - Len(p)] = m
      BY <1>3, <2>1, <3>1
    <3> QED  BY <3>1, <3>2 DEF Queued
  <2> QED  BY <1>1, <2>2, <2>3
<1>5. ASSUME NEW m, Queued(p, m)
      PROVE  Queued(p \o q, m)
  <2>1. PICK i \in 1 .. Len(p) : p[i] = m
    BY <1>5 DEF Queued
  <2>2. i \in 1 .. Len(p \o q) /\ (p \o q)[i] = m
    BY <1>1, <1>2, <2>1
  <2> QED  BY <2>2 DEF Queued
<1>6. ASSUME NEW m, Queued(q, m)
      PROVE  Queued(p \o q, m)
  <2>1. PICK i \in 1 .. Len(q) : q[i] = m
    BY <1>6 DEF Queued
  <2>2. Len(p) + i \in 1 .. Len(p \o q) /\ (p \o q)[Len(p) + i] = m
    BY <1>1, <1>3, <2>1
  <2> QED  BY <2>2 DEF Queued
<1> QED  BY <1>1, <1>4, <1>5, <1>6

\* What the viewer will show after the same.
LEMMA ShowsAppend ==
  ASSUME NEW q \in Seq(Frame), NEW f \in Frame, NEW v, NEW b
  PROVE  /\ f.type = "state" /\ f.live = b => Shows(Append(q, f), v, b)
         /\ f.type # "state" /\ Shows(q, v, b) => Shows(Append(q, f), v, b)
<1>1. Len(Append(q, f)) = Len(q) + 1 /\ Len(q) \in Nat
  OBVIOUS
<1>2. /\ \A i \in 1 .. Len(q) : Append(q, f)[i] = q[i]
      /\ Append(q, f)[Len(q) + 1] = f
  OBVIOUS
<1>3. ASSUME f.type = "state", f.live = b
      PROVE  Shows(Append(q, f), v, b)
  <2>1. Len(q) + 1 \in 1 .. Len(Append(q, f)) /\ \A j \in 1 .. Len(Append(q, f)) : ~ (j > Len(q) + 1)
    BY <1>1
  <2> QED  BY <1>2, <1>3, <2>1 DEF Shows
<1>4. ASSUME f.type # "state", Shows(q, v, b)
      PROVE  Shows(Append(q, f), v, b)
  <2>1. \A j \in 1 .. Len(Append(q, f)) : j \in 1 .. Len(q) \/ j = Len(q) + 1
    BY <1>1
  <2>2. CASE v = b /\ \A j \in 1 .. Len(q) : q[j].type # "state"
    BY <1>2, <1>4, <2>1, <2>2 DEF Shows
  <2>3. CASE \E i \in 1 .. Len(q) : q[i].type = "state" /\ q[i].live = b
                                    /\ \A j \in 1 .. Len(q) : j > i => q[j].type # "state"
    <3>1. PICK i \in 1 .. Len(q) : q[i].type = "state" /\ q[i].live = b
                                   /\ \A j \in 1 .. Len(q) : j > i => q[j].type # "state"
      BY <2>3
    <3>2. i \in 1 .. Len(Append(q, f)) /\ Append(q, f)[i] = q[i]
      BY <1>1, <1>2
    <3>3. \A j \in 1 .. Len(Append(q, f)) : j > i => Append(q, f)[j].type # "state"
      BY <1>2, <1>4, <2>1, <3>1
    <3> QED  BY <3>1, <3>2, <3>3 DEF Shows
  <2> QED  BY <1>4, <2>2, <2>3 DEF Shows
<1> QED  BY <1>3, <1>4

LEMMA ShowsTail ==
  ASSUME NEW q \in Seq(Frame), q # <<>>, NEW v, NEW b, Shows(q, v, b)
  PROVE  Shows(Tail(q), IF Head(q).type = "state" THEN Head(q).live ELSE v, b)
<1> DEFINE w == IF Head(q).type = "state" THEN Head(q).live ELSE v
<1>1. Len(Tail(q)) = Len(q) - 1 /\ Len(q) \in Nat \ {0} /\ Head(q) = q[1]
  OBVIOUS
<1>2. \A i \in 1 .. Len(Tail(q)) : Tail(q)[i] = q[i + 1] /\ i + 1 \in 1 .. Len(q)
  OBVIOUS
<1>3. CASE v = b /\ \A j \in 1 .. Len(q) : q[j].type # "state"
  <2>1. w = b
    BY <1>1, <1>3
  <2> QED  BY <1>2, <1>3, <2>1 DEF Shows
<1>4. CASE \E i \in 1 .. Len(q) : q[i].type = "state" /\ q[i].live = b
                                  /\ \A j \in 1 .. Len(q) : j > i => q[j].type # "state"
  <2>1. PICK i \in 1 .. Len(q) : q[i].type = "state" /\ q[i].live = b
                                 /\ \A j \in 1 .. Len(q) : j > i => q[j].type # "state"
    BY <1>4
  <2>2. CASE i = 1
    <3>1. w = b
      BY <1>1, <2>1, <2>2
    <3>2. \A j \in 1 .. Len(Tail(q)) : Tail(q)[j].type # "state"
      BY <1>1, <1>2, <2>1, <2>2
    <3> QED  BY <3>1, <3>2 DEF Shows
  <2>3. CASE i # 1
    <3>1. i - 1 \in 1 .. Len(Tail(q)) /\ Tail(q)[i - 1] = q[i]
      BY <1>1, <1>2, <2>3
    <3>2. \A j \in 1 .. Len(Tail(q)) : j > i - 1 => Tail(q)[j].type # "state"
      BY <1>1, <1>2, <2>1
    <3> QED  BY <2>1, <3>1, <3>2 DEF Shows
  <2> QED  BY <2>2, <2>3
<1> QED  BY <1>3, <1>4 DEF Shows

LEMMA ShowsConcat ==
  ASSUME NEW p \in Seq(Frame), NEW q \in Seq(Frame), NEW v, NEW b, Shows(p, v, b),
         \A j \in 1 .. Len(q) : q[j].type # "state"
  PROVE  Shows(p \o q, v, b)
<1>1. Len(p \o q) = Len(p) + Len(q) /\ Len(p) \in Nat /\ Len(q) \in Nat
  OBVIOUS
<1>2. \A i \in 1 .. Len(p) : (p \o q)[i] = p[i]
  OBVIOUS
<1>3. \A i \in 1 .. Len(p \o q) : i > Len(p) => (p \o q)[i] = q[i - Len(p)] /\ i - Len(p) \in 1 .. Len(q)
  OBVIOUS
<1>4. \A i \in 1 .. Len(p \o q) : i > Len(p) => (p \o q)[i].type # "state"
  BY <1>3
<1>5. CASE v = b /\ \A j \in 1 .. Len(p) : p[j].type # "state"
  <2>1. \A j \in 1 .. Len(p \o q) : (p \o q)[j].type # "state"
    BY <1>1, <1>2, <1>4, <1>5
  <2> QED  BY <1>5, <2>1 DEF Shows
<1>6. CASE \E i \in 1 .. Len(p) : p[i].type = "state" /\ p[i].live = b
                                  /\ \A j \in 1 .. Len(p) : j > i => p[j].type # "state"
  <2>1. PICK i \in 1 .. Len(p) : p[i].type = "state" /\ p[i].live = b
                                 /\ \A j \in 1 .. Len(p) : j > i => p[j].type # "state"
    BY <1>6
  <2>2. i \in 1 .. Len(p \o q) /\ (p \o q)[i] = p[i]
    BY <1>1, <1>2
  <2>3. \A j \in 1 .. Len(p \o q) : j > i => (p \o q)[j].type # "state"
    BY <1>1, <1>2, <1>4, <2>1
  <2> QED  BY <2>1, <2>2, <2>3 DEF Shows
<1> QED  BY <1>5, <1>6 DEF Shows

\* PeerConnection.Enqueue.
LEMMA EnqueueFacts ==
  ASSUME SharedTypes, NEW e \in Ends, NEW f \in Frame, Enqueue(e, f)
  PROVE  /\ lane' \in [Ends -> Seq(Frame)] /\ lossy' \in BOOLEAN /\ (lossy => lossy')
         /\ \A o \in Ends \ {e} : lane'[o] = lane[o]
         /\ lane'[e] = lane[e] \/ lane'[e] = Append(lane[e], f)
         /\ linked /\ ~ lossy' => lane'[e] = Append(lane[e], f)
         /\ ~ linked => lane' = lane
<1>1. CASE linked /\ Len(lane[e]) < LaneCap
  <2>1. lane' = [lane EXCEPT ![e] = Append(lane[e], f)] /\ UNCHANGED lossy
    BY <1>1 DEF Enqueue, SharedTypes
  <2>2. Append(lane[e], f) \in Seq(Frame)
    BY QueuedAppend DEF SharedTypes
  <2> QED  BY <1>1, <2>1, <2>2 DEF SharedTypes
<1>2. CASE ~ (linked /\ Len(lane[e]) < LaneCap)
  <2>1. lane' = lane /\ lossy' = (lossy \/ linked)
    BY <1>2 DEF Enqueue
  <2>2. lossy' \in BOOLEAN
    BY <2>1
  <2> QED  BY <2>1, <2>2 DEF SharedTypes
<1> QED  BY <1>1, <1>2

\* Steps that leave the stores, and the bits and ranks in the lanes, alone.
LEMMA SameShared ==
  ASSUME SharedIInv, store' = store, clock' = clock,
         \A e \in Ends, k \in Kinds, r \in StampRecord : Queued(lane'[e], Delta(k, r)) <=> Queued(lane[e], Delta(k, r)),
         linked' /\ ~ lossy' => linked /\ ~ lossy
  PROVE  StampsTell' /\ SentOlder' /\ AllReaches'
<1>1. \A k \in Kinds, r \in StampRecord : Somewhere(store', lane', k, r) <=> Somewhere(store, lane, k, r)
  BY DEF Somewhere
<1>2. StampsTell'
  BY <1>1 DEF SharedIInv, StampsTell
<1>3. SentOlder'
  BY DEF SharedIInv, SentOlder
<1>4. \A k \in Kinds : Quiet(lane', k) <=> Quiet(lane, k)
  BY DEF Quiet
<1>5. \A e \in Ends, k \in Kinds : store[e][k] \in StampRecord
  BY DEF SharedIInv, SharedTypes
<1>6. ASSUME linked', ~ lossy', NEW e \in Ends, NEW k \in Kinds
      PROVE  Reaches(store', lane', e, k)
  <2>1. Reaches(store, lane, e, k)
    BY <1>6 DEF SharedIInv, AllReaches
  <2> QED  BY <1>4, <1>5, <2>1 DEF Reaches
<1>7. AllReaches'
  BY <1>6 DEF AllReaches
<1> QED  BY <1>2, <1>3, <1>7

\* The steps of the two lists inside the owner.
LEMMA ListSteps ==
  ASSUME SharedIInv, SessionChanges \/ ManagerRuns \/ Subscribe
  PROVE  SharedIInv'
<1>1. UNCHANGED <<store, lane, lossy, linked, view, clock>>
  BY DEF SessionChanges, ManagerRuns, Subscribe, listVars
<1>2. StampsTell' /\ SentOlder' /\ AllReaches'
  BY <1>1, SameShared
<1>3. /\ alive' \in BOOLEAN /\ cache' \in BOOLEAN /\ managerDue' \in BOOLEAN /\ updateDue' \in BOOLEAN
      /\ peerDue' \in BOOLEAN /\ subscribed' \in BOOLEAN /\ missed' \in BOOLEAN
  <2>1. CASE SessionChanges
    BY <2>1 DEF SessionChanges, SharedIInv, SharedTypes
  <2>2. CASE ManagerRuns
    <3>1. cache' = alive /\ managerDue' = FALSE /\ peerDue' = subscribed
          /\ UNCHANGED <<alive, updateDue, subscribed, missed>>
      BY <2>2 DEF ManagerRuns, CacheAfter
    <3>2. managerDue' \in BOOLEAN
      BY <3>1
    <3> QED  BY <3>1, <3>2 DEF SharedIInv, SharedTypes
  <2>3. CASE Subscribe
    <3>1. subscribed' \in BOOLEAN
      BY <2>3 DEF Subscribe
    <3> QED  BY <2>3, <3>1 DEF Subscribe, listVars, SharedIInv, SharedTypes
  <2> QED  BY <2>1, <2>2, <2>3
<1>4. SharedTypes'
  BY <1>1, <1>3 DEF SharedIInv, SharedTypes
<1>5. LinkSound'
  <2>1. (subscribed' => linked) /\ (updateDue' \/ peerDue' => subscribed')
    BY DEF SessionChanges, ManagerRuns, Subscribe, listVars, SharedIInv, LinkSound
  <2> QED  BY <1>1, <2>1 DEF SharedIInv, LinkSound
<1>6. ListFresh'
  <2>1. CASE SessionChanges
    <3>1. managerDue' /\ updateDue' = subscribed /\ missed' = ~ subscribed
      BY <2>1 DEF SessionChanges
    <3> QED  BY <3>1 DEF ListFresh
  <2>2. CASE ManagerRuns
    <3>1. cache' = alive /\ peerDue' = subscribed /\ managerDue
          /\ UNCHANGED <<alive, updateDue, subscribed, missed>>
      BY <2>2 DEF ManagerRuns, CacheAfter
    <3> QED  BY <1>1, <3>1 DEF SharedIInv, ListFresh, LinkSound
  <2>3. CASE Subscribe
    BY <1>1, <2>3 DEF Subscribe, listVars, SharedIInv, ListFresh
  <2> QED  BY <2>1, <2>2, <2>3
<1> QED  BY <1>2, <1>4, <1>5, <1>6 DEF SharedIInv

\* A forwarder puts a list into the owner's lane.
LEMMA ForwardSteps ==
  ASSUME SharedIInv, ForwardState \/ ForwardPeerState
  PROVE  SharedIInv'
<1>1. /\ UNCHANGED <<alive, cache, managerDue, linked, subscribed, view, store, missed, clock>>
      /\ \/ updateDue /\ updateDue' = FALSE /\ peerDue' = peerDue /\ Enqueue("owner", State(alive))
         \/ peerDue /\ peerDue' = FALSE /\ updateDue' = updateDue /\ Enqueue("owner", State(cache))
  BY DEF ForwardState, ForwardPeerState
<1>2. PICK x \in BOOLEAN :
        /\ Enqueue("owner", State(x))
        /\ \/ x = alive
           \/ x = cache /\ updateDue' = updateDue
  BY <1>1 DEF SharedIInv, SharedTypes
<1>3. linked /\ subscribed
  BY <1>1 DEF SharedIInv, LinkSound
<1>4. State(x) \in Frame /\ State(x).type = "state" /\ State(x).live = x
  BY EndsAndFrames
<1>5. /\ lane' \in [Ends -> Seq(Frame)] /\ lossy' \in BOOLEAN /\ (lossy => lossy')
      /\ lane'["viewer"] = lane["viewer"]
      /\ lane'["owner"] = lane["owner"] \/ lane'["owner"] = Append(lane["owner"], State(x))
      /\ ~ lossy' => lane'["owner"] = Append(lane["owner"], State(x))
  <2>1. "owner" \in Ends /\ "viewer" \in Ends \ {"owner"}
    BY EndsAndFrames
  <2> QED  BY <1>2, <1>3, <1>4, <2>1, EnqueueFacts DEF SharedIInv
<1>6. ASSUME NEW e \in Ends, NEW k \in Kinds, NEW r \in StampRecord
      PROVE  Queued(lane'[e], Delta(k, r)) <=> Queued(lane[e], Delta(k, r))
  <2>1. Delta(k, r) # State(x)
    BY <1>4, EndsAndFrames
  <2>2. lane["owner"] \in Seq(Frame)
    BY EndsAndFrames DEF SharedIInv, SharedTypes
  <2>3. e = "owner" \/ e = "viewer"
    BY DEF Ends
  <2>4. Queued(Append(lane["owner"], State(x)), Delta(k, r)) <=> Queued(lane["owner"], Delta(k, r))
    BY <1>4, <2>1, <2>2, QueuedAppend
  <2> QED  BY <1>5, <2>3, <2>4
<1>7. StampsTell' /\ SentOlder' /\ AllReaches'
  BY <1>1, <1>5, <1>6, SameShared
<1>8. updateDue' \in BOOLEAN /\ peerDue' \in BOOLEAN
  BY <1>1 DEF SharedIInv, SharedTypes
<1>9. SharedTypes'
  BY <1>1, <1>5, <1>8 DEF SharedIInv, SharedTypes
<1>10. LinkSound'
  BY <1>1, <1>3, <1>5 DEF SharedIInv, LinkSound
<1>11. ListFresh'
  <2> SUFFICES ASSUME ~ lossy', ~ missed
               PROVE  /\ managerDue \/ cache = alive
                      /\ \/ Shows(lane'["owner"], view, alive)
                         \/ updateDue' \/ (subscribed /\ managerDue) \/ (peerDue' /\ cache = alive)
    BY <1>1 DEF ListFresh
  <2>1. managerDue \/ cache = alive
    BY <1>3, <1>5 DEF SharedIInv, ListFresh
  <2>2. lane["owner"] \in Seq(Frame)
    BY EndsAndFrames DEF SharedIInv, SharedTypes
  <2>3. CASE x = alive
    BY <1>4, <1>5, <2>1, <2>2, <2>3, ShowsAppend
  <2>4. CASE x # alive
    BY <1>2, <1>3, <2>1, <2>4
  <2> QED  BY <2>3, <2>4
<1> QED  BY <1>7, <1>9, <1>10, <1>11 DEF SharedIInv

\* Whatever cuts the link empties the lanes.
LEMMA UnlinkedKeeps ==
  ASSUME SharedIInv, LinkDown \/ ViewerForgets \/ OwnerBoots
  PROVE  SharedIInv'
<1>1. /\ Unlinked /\ UNCHANGED <<alive, store, lossy, missed, clock>>
      /\ cache' \in BOOLEAN /\ managerDue' \in BOOLEAN /\ view' \in BOOLEAN
  <2>1. CASE LinkDown
    BY <2>1 DEF LinkDown, SharedIInv, SharedTypes
  <2>2. CASE ViewerForgets
    <3>1. view' \in BOOLEAN
      BY <2>2 DEF ViewerForgets
    <3> QED  BY <2>2, <3>1 DEF ViewerForgets, SharedIInv, SharedTypes
  <2>3. CASE OwnerBoots
    <3>1. cache' \in BOOLEAN
      BY <2>3 DEF OwnerBoots
    <3> QED  BY <2>3, <3>1 DEF OwnerBoots, SharedIInv, SharedTypes
  <2> QED  BY <2>1, <2>2, <2>3
<1>2. /\ linked' = FALSE /\ subscribed' = FALSE /\ updateDue' = FALSE /\ peerDue' = FALSE
      /\ lane' = [e \in Ends |-> <<>>]
  BY <1>1 DEF Unlinked
<1>3. linked' \in BOOLEAN /\ subscribed' \in BOOLEAN /\ updateDue' \in BOOLEAN /\ peerDue' \in BOOLEAN
  BY <1>2
<1>4. \A e \in Ends : lane'[e] = <<>> /\ \A m : ~ Queued(lane'[e], m)
  BY <1>2 DEF Queued
<1>5. lane' \in [Ends -> Seq(Frame)]
  BY <1>2
<1>6. SharedTypes'
  BY <1>1, <1>3, <1>5 DEF SharedIInv, SharedTypes
<1>7. LinkSound'
  BY <1>2, <1>4, EndsAndFrames DEF LinkSound
<1>8. ListFresh' /\ AllReaches'
  BY <1>2 DEF ListFresh, AllReaches
<1>9. \A k \in Kinds, r \in StampRecord : Somewhere(store', lane', k, r) => Somewhere(store, lane, k, r)
  BY <1>1, <1>4 DEF Somewhere
<1>10. StampsTell'
  BY <1>1, <1>9 DEF SharedIInv, StampsTell
<1>11. SentOlder'
  BY <1>4 DEF SentOlder
<1> QED  BY <1>6, <1>7, <1>8, <1>10, <1>11 DEF SharedIInv

\* Steps that bring no new record, except none at all.
LEMMA StampsOld ==
  ASSUME SharedIInv, clock' = clock,
         \A k \in Kinds, r \in StampRecord : Somewhere(store', lane', k, r) => Somewhere(store, lane, k, r) \/ r = Absent
  PROVE  StampsTell'
<1> SUFFICES ASSUME NEW k \in Kinds, NEW r \in StampRecord, NEW s \in StampRecord, Somewhere(store', lane', k, r)
             PROVE  /\ r.at <= clock /\ (r.at = 0 => ~ r.on)
                    /\ Somewhere(store', lane', k, s) /\ r.at = s.at => r = s
  BY DEF StampsTell
<1>1. clock \in Nat /\ Absent.at = 0 /\ ~ Absent.on
  BY EndsAndFrames DEF SharedIInv, SharedTypes
<1>2. \A t \in StampRecord : Somewhere(store, lane, k, t) => t.at <= clock /\ (t.at = 0 => ~ t.on)
  BY DEF SharedIInv, StampsTell
<1>3. \A t \in StampRecord : t.at = 0 /\ ~ t.on => t = Absent
  BY DEF StampRecord, Absent
<1>4. r.at <= clock /\ (r.at = 0 => ~ r.on)
  BY <1>1, <1>2
<1>5. ASSUME Somewhere(store', lane', k, s), r.at = s.at
      PROVE  r = s
  <2>1. CASE r = Absent \/ s = Absent
    BY <1>1, <1>2, <1>3, <1>5, <2>1
  <2>2. CASE r # Absent /\ s # Absent
    BY <1>5, <2>2 DEF SharedIInv, StampsTell
  <2> QED  BY <2>1, <2>2
<1> QED  BY <1>4, <1>5

\* What a new link sends of the stores.
LEMMA SnapshotFacts ==
  ASSUME SharedTypes, NEW e \in Ends
  PROVE  /\ Snapshots(e) \in Seq(Frame)
         /\ \A m : Queued(Snapshots(e), m) => \E k \in Kinds : m = Delta(k, store[e][k])
         /\ \A k \in Kinds : store[e][k].at # 0 => Queued(Snapshots(e), Delta(k, store[e][k]))
<1> DEFINE S(k) == IF store[e][k].at = 0 THEN <<>> ELSE <<Delta(k, store[e][k])>>
<1>1. ASSUME NEW k \in Kinds
      PROVE  /\ S(k) \in Seq(Frame)
             /\ \A m : Queued(S(k), m) <=> store[e][k].at # 0 /\ m = Delta(k, store[e][k])
  <2>1. Delta(k, store[e][k]) \in Frame
    BY EndsAndFrames DEF SharedTypes
  <2> HIDE DEF S
  <2>2. CASE store[e][k].at = 0
    <3>1. S(k) = <<>>
      BY <2>2 DEF S
    <3> QED  BY <2>2, <3>1 DEF Queued
  <2>3. CASE store[e][k].at # 0
    <3>1. S(k) = <<Delta(k, store[e][k])>>
      BY <2>3 DEF S
    <3>2. S(k) \in Seq(Frame) /\ Len(S(k)) = 1 /\ S(k)[1] = Delta(k, store[e][k])
      BY <2>1, <3>1
    <3> QED  BY <2>3, <3>2 DEF Queued
  <2> QED  BY <2>2, <2>3
<1>2. Snapshots(e) = S("bits") \o S("rank")
  BY DEF Snapshots
<1>3. "bits" \in Kinds /\ "rank" \in Kinds /\ \A k \in Kinds : k = "bits" \/ k = "rank"
  BY DEF Kinds
<1> HIDE DEF S
<1>4. /\ Snapshots(e) \in Seq(Frame)
      /\ \A m : Queued(Snapshots(e), m) <=> Queued(S("bits"), m) \/ Queued(S("rank"), m)
  BY <1>1, <1>2, <1>3, QueuedConcat
<1> QED  BY <1>1, <1>3, <1>4

LEMMA LinkUpKeeps ==
  ASSUME SharedIInv, LinkUp
  PROVE  SharedIInv'
<1> DEFINE first == <<State(alive), State(cache)>>
           lists(e) == IF e = "owner" THEN first ELSE <<>>
<1>1. /\ ~ linked /\ linked' = TRUE /\ subscribed' = FALSE /\ lossy' = FALSE /\ missed' = (cache # alive)
      /\ lane' = [e \in Ends |-> lists(e) \o Snapshots(e)]
      /\ UNCHANGED <<alive, cache, managerDue, updateDue, peerDue, view, store, clock>>
  BY DEF LinkUp, listVars
<1>2. linked' \in BOOLEAN /\ subscribed' \in BOOLEAN /\ lossy' \in BOOLEAN /\ missed' \in BOOLEAN
  BY <1>1
<1>3. State(alive) \in Frame /\ State(cache) \in Frame
  BY EndsAndFrames DEF SharedIInv, SharedTypes
<1>4. first \in Seq(Frame) /\ Len(first) = 2 /\ first[1] = State(alive) /\ first[2] = State(cache)
  BY <1>3
<1> HIDE DEF first
<1>5. \A m : Queued(first, m) => m = State(alive) \/ m = State(cache)
  <2>1. 1 .. 2 = {1, 2}
    OBVIOUS
  <2> QED  BY <1>4, <2>1 DEF Queued
<1>6. ASSUME NEW e \in Ends
      PROVE  /\ lists(e) \in Seq(Frame)
             /\ \A m : Queued(lists(e), m) => e = "owner" /\ (m = State(alive) \/ m = State(cache))
  <2> HIDE DEF lists
  <2>1. CASE e = "owner"
    <3>1. lists(e) = first
      BY <2>1 DEF lists
    <3> QED  BY <1>4, <1>5, <2>1, <3>1
  <2>2. CASE e # "owner"
    <3>1. lists(e) = <<>>
      BY <2>2 DEF lists
    <3> QED  BY <2>2, <3>1 DEF Queued
  <2> QED  BY <2>1, <2>2
<1>7. lists("owner") = first
  OBVIOUS
<1> HIDE DEF lists
<1>8. ASSUME NEW e \in Ends
      PROVE  /\ lane'[e] = lists(e) \o Snapshots(e) /\ lane'[e] \in Seq(Frame)
             /\ \A m : Queued(lane'[e], m) <=> Queued(lists(e), m) \/ Queued(Snapshots(e), m)
  BY <1>1, <1>6, SnapshotFacts, QueuedConcat DEF SharedIInv
<1>9. lane' \in [Ends -> Seq(Frame)]
  <2>1. DOMAIN lane' = Ends /\ lane' = [e \in DOMAIN lane' |-> lane'[e]]
    BY <1>1
  <2> QED  BY <1>8, <2>1
<1>10. SharedTypes'
  BY <1>1, <1>2, <1>9 DEF SharedIInv, SharedTypes
<1>11. ASSUME NEW e \in Ends, NEW k \in Kinds, NEW r \in StampRecord, Queued(lane'[e], Delta(k, r))
       PROVE  r = store[e][k]
  <2>1. Delta(k, r) # State(alive) /\ Delta(k, r) # State(cache) /\ Delta(k, r).type = k /\ Delta(k, r).record = r
    BY EndsAndFrames DEF SharedIInv, SharedTypes
  <2>2. Queued(Snapshots(e), Delta(k, r))
    BY <1>6, <1>8, <1>11, <2>1
  <2>3. PICK j \in Kinds : Delta(k, r) = Delta(j, store[e][j])
    BY <2>2, SnapshotFacts DEF SharedIInv
  <2>4. store[e][j] \in StampRecord
    BY DEF SharedIInv, SharedTypes
  <2> QED  BY <2>1, <2>3, <2>4, EndsAndFrames
<1>12. LinkSound'
  <2>1. \A m \in Frame : Queued(lane'["viewer"], m) => m.type # "state"
    <3> SUFFICES ASSUME NEW m \in Frame, Queued(lane'["viewer"], m)  PROVE m.type # "state"
      OBVIOUS
    <3>1. "viewer" \in Ends /\ "viewer" # "owner"
      BY EndsAndFrames
    <3>2. Queued(Snapshots("viewer"), m)
      BY <1>6, <1>8, <3>1
    <3>3. PICK k \in Kinds : m = Delta(k, store["viewer"][k])
      BY <3>1, <3>2, SnapshotFacts DEF SharedIInv
    <3>4. store["viewer"][k] \in StampRecord
      BY <3>1 DEF SharedIInv, SharedTypes
    <3> QED  BY <3>3, <3>4, EndsAndFrames
  <2>2. ~ updateDue /\ ~ peerDue
    BY <1>1 DEF SharedIInv, LinkSound
  <2> QED  BY <1>1, <2>1, <2>2 DEF LinkSound
<1>13. ListFresh'
  <2> SUFFICES ASSUME cache = alive
               PROVE  Shows(lane'["owner"], view, alive)
    BY <1>1 DEF ListFresh
  <2>1. State(alive).type = "state" /\ State(alive).live = alive /\ "owner" \in Ends
    BY EndsAndFrames DEF SharedIInv, SharedTypes
  <2>2. Shows(first, view, alive)
    <3>1. 2 \in 1 .. Len(first) /\ first[2].type = "state" /\ first[2].live = alive
          /\ \A j \in 1 .. Len(first) : ~ (j > 2)
      BY <1>4, <2>1
    <3> QED  BY <3>1 DEF Shows
  <2>3. Snapshots("owner") \in Seq(Frame)
    BY <2>1, SnapshotFacts DEF SharedIInv
  <2>4. \A j \in 1 .. Len(Snapshots("owner")) : Snapshots("owner")[j].type # "state"
    <3> SUFFICES ASSUME NEW j \in 1 .. Len(Snapshots("owner"))
                 PROVE  Snapshots("owner")[j].type # "state"
      OBVIOUS
    <3>1. Queued(Snapshots("owner"), Snapshots("owner")[j])
      BY DEF Queued
    <3>2. PICK k \in Kinds : Snapshots("owner")[j] = Delta(k, store["owner"][k])
      BY <2>1, <3>1, SnapshotFacts DEF SharedIInv
    <3>3. store["owner"][k] \in StampRecord
      BY <2>1 DEF SharedIInv, SharedTypes
    <3> QED  BY <3>2, <3>3, EndsAndFrames
  <2> QED  BY <1>4, <1>7, <1>8, <2>1, <2>2, <2>3, <2>4, ShowsConcat
<1>14. StampsTell'
  <2>1. \A k \in Kinds, r \in StampRecord : Somewhere(store', lane', k, r) => Somewhere(store, lane, k, r)
    BY <1>1, <1>11 DEF Somewhere
  <2> QED  BY <1>1, <2>1, StampsOld
<1>15. SentOlder'
  BY <1>1, <1>11 DEF SentOlder, SharedIInv, SharedTypes, StampRecord
<1>16. AllReaches'
  <2> SUFFICES ASSUME NEW e \in Ends, NEW k \in Kinds
               PROVE  Reaches(store, lane', e, k)
    BY <1>1 DEF AllReaches
  <2>1. CASE store[e][k].at = 0
    <3>1. Other(e) \in Ends
      BY EndsAndFrames
    <3>2. store[Other(e)][k].at \in Nat
      BY <3>1 DEF SharedIInv, SharedTypes, StampRecord
    <3> QED  BY <2>1, <3>2 DEF Reaches
  <2>2. CASE store[e][k].at # 0
    <3>1. Queued(Snapshots(e), Delta(k, store[e][k]))
      BY <2>2, SnapshotFacts DEF SharedIInv
    <3> QED  BY <1>8, <3>1 DEF Reaches
  <2> QED  BY <2>1, <2>2
<1> QED  BY <1>10, <1>12, <1>13, <1>14, <1>15, <1>16 DEF SharedIInv

\* The frame at the head of a lane is read at the other end.
LEMMA ReadsKeeps ==
  ASSUME SharedIInv, NEW e \in Ends, ReadsFrame(e)
  PROVE  SharedIInv'
<1> DEFINE q == lane[e]
           m == Head(lane[e])
           o == Other(e)
<1>1. /\ q # <<>> /\ lane' = [lane EXCEPT ![e] = Tail(q)]
      /\ UNCHANGED <<alive, cache, managerDue, updateDue, peerDue, linked, subscribed, lossy, missed, clock>>
      /\ m.type = "state" => view' = m.live /\ store' = store
      /\ m.type # "state" => store' = [store EXCEPT ![o][m.type] = Merged(store[o][m.type], m.record)] /\ view' = view
  BY DEF ReadsFrame, SharedIInv, SharedTypes
<1>2. linked /\ lane \in [Ends -> Seq(Frame)]
  BY <1>1 DEF SharedIInv, LinkSound, SharedTypes
<1>3. o \in Ends /\ o # e /\ \A x \in Ends : x = e \/ x = o
  BY EndsAndFrames
<1>4. /\ q \in Seq(Frame) /\ Tail(q) \in Seq(Frame) /\ m \in Frame /\ Queued(q, m)
      /\ \A x : Queued(q, x) <=> x = m \/ Queued(Tail(q), x)
  BY <1>1, <1>2, QueuedTail
<1>5. lane' \in [Ends -> Seq(Frame)] /\ lane'[e] = Tail(q) /\ lane'[o] = lane[o]
  BY <1>1, <1>2, <1>3, <1>4
<1>6. \A x \in Ends : \A y : Queued(lane'[x], y) => Queued(lane[x], y)
  BY <1>3, <1>4, <1>5
<1>7. LinkSound'
  <2>1. \A y \in Frame : Queued(lane'["viewer"], y) => y.type # "state"
    BY <1>6, EndsAndFrames DEF SharedIInv, LinkSound
  <2> QED  BY <1>1, <1>2, <2>1 DEF SharedIInv, LinkSound
<1>8. ListFresh'
  <2> DEFINE w == IF m.type = "state" THEN m.live ELSE view
  <2>1. view' = w
    BY <1>1
  <2>2. ASSUME NEW b, Shows(lane["owner"], view, b)
        PROVE  Shows(lane'["owner"], view', b)
    <3>1. CASE e = "owner"
      BY <1>1, <1>4, <1>5, <2>1, <2>2, <3>1, ShowsTail
    <3>2. CASE e # "owner"
      <4>1. e = "viewer" /\ o = "owner"
        BY <3>2 DEF Ends, Other
      <4>2. m.type # "state"
        BY <1>4, <4>1 DEF SharedIInv, LinkSound
      <4> QED  BY <1>5, <2>1, <2>2, <4>1, <4>2
    <3> QED  BY <3>1, <3>2
  <2> QED  BY <1>1, <2>2 DEF SharedIInv, ListFresh
<1>9. CASE m.type = "state"
  <2>1. view' \in BOOLEAN /\ store' = store
    BY <1>1, <1>4, <1>9, EndsAndFrames DEF Kinds
  <2>2. SharedTypes'
    BY <1>1, <1>5, <2>1 DEF SharedIInv, SharedTypes
  <2>3. ASSUME NEW x \in Ends, NEW k \in Kinds, NEW r \in StampRecord
        PROVE  Queued(lane'[x], Delta(k, r)) <=> Queued(lane[x], Delta(k, r))
    <3>1. Delta(k, r) # m
      BY <1>9, EndsAndFrames
    <3> QED  BY <1>3, <1>4, <1>5, <3>1
  <2>4. StampsTell' /\ SentOlder' /\ AllReaches'
    BY <1>1, <2>1, <2>3, SameShared
  <2> QED  BY <1>7, <1>8, <2>2, <2>4 DEF SharedIInv
<1>10. CASE m.type # "state"
  <2> DEFINE k0 == m.type
             r0 == m.record
             new == Merged(store[o][k0], r0)
  <2>1. k0 \in Kinds /\ r0 \in StampRecord /\ m = Delta(k0, r0)
    BY <1>4, <1>10, EndsAndFrames
  <2>2. \A x \in Ends, k \in Kinds : store[x][k] \in StampRecord /\ store[x][k].at \in Nat
    BY DEF SharedIInv, SharedTypes, StampRecord
  <2>3. /\ new \in StampRecord /\ new.at \in Nat /\ new.at >= store[o][k0].at /\ new.at >= r0.at
        /\ new = r0 \/ new = store[o][k0]
    <3>1. r0.at \in Nat /\ store[o][k0].at \in Nat /\ store[o][k0] \in StampRecord
      BY <1>3, <2>1, <2>2 DEF StampRecord
    <3>2. CASE r0.at > store[o][k0].at
      <4>1. new = r0
        BY <3>2 DEF Merged, Newer
      <4> QED  BY <2>1, <3>1, <3>2, <4>1
    <3>3. CASE ~ (r0.at > store[o][k0].at)
      <4>1. new = store[o][k0]
        BY <3>3 DEF Merged, Newer
      <4> QED  BY <3>1, <3>3, <4>1
    <3> QED  BY <3>2, <3>3
  <2>4. store' = [store EXCEPT ![o][k0] = new] /\ view' = view
    BY <1>1, <1>10
  <2> HIDE DEF new, k0, r0, o, m, q
  <2>5. /\ store' \in [Ends -> [Kinds -> StampRecord]] /\ store'[e] = store[e] /\ store'[o][k0] = new
        /\ \A k \in Kinds : k # k0 => store'[o][k] = store[o][k]
    BY <1>3, <2>1, <2>3, <2>4 DEF SharedIInv, SharedTypes
  <2>6. SharedTypes'
    BY <1>1, <1>5, <2>4, <2>5 DEF SharedIInv, SharedTypes
  <2>7. Queued(lane[e], Delta(k0, r0))
    BY <1>4, <2>1 DEF q
  <2>8. StampsTell'
    <3>1. ASSUME NEW k \in Kinds, NEW r \in StampRecord, Somewhere(store', lane', k, r)
          PROVE  Somewhere(store, lane, k, r)
      <4>1. PICK x \in Ends : store'[x][k] = r \/ Queued(lane'[x], Delta(k, r))
        BY <3>1 DEF Somewhere
      <4>2. CASE Queued(lane'[x], Delta(k, r))
        BY <1>6, <4>2 DEF Somewhere
      <4>3. CASE store'[x][k] = r
        <5>1. store[x][k] = r \/ (k = k0 /\ r = r0)
          BY <1>3, <2>3, <2>5, <4>3
        <5> QED  BY <2>7, <5>1 DEF Somewhere
      <4> QED  BY <4>1, <4>2, <4>3
    <3> QED  BY <1>1, <3>1, StampsOld
  <2>9. \A x \in Ends, k \in Kinds : store[x][k].at <= store'[x][k].at
    BY <1>3, <2>2, <2>3, <2>5
  <2>10. SentOlder'
    <3> SUFFICES ASSUME NEW x \in Ends, NEW k \in Kinds, NEW r \in StampRecord, Queued(lane'[x], Delta(k, r))
                 PROVE  r.at <= store'[x][k].at
      BY DEF SentOlder
    <3>1. r.at <= store[x][k].at
      BY <1>6 DEF SharedIInv, SentOlder
    <3>2. r.at \in Nat /\ store'[x][k].at \in Nat
      BY <2>5 DEF StampRecord
    <3> QED  BY <2>2, <2>9, <3>1, <3>2
  <2>11. AllReaches'
    <3> SUFFICES ASSUME ~ lossy, NEW x \in Ends, NEW k \in Kinds
                 PROVE  Reaches(store', lane', x, k)
      BY <1>1 DEF AllReaches
    <3>1. Reaches(store, lane, x, k)
      BY <1>2 DEF SharedIInv, AllReaches
    <3>2. CASE k # k0
      <4>1. store'["owner"][k] = store["owner"][k] /\ store'["viewer"][k] = store["viewer"][k]
            /\ store'[x][k] = store[x][k] /\ store'[Other(x)][k] = store[Other(x)][k]
        <5>1. \A y \in Ends : store'[y][k] = store[y][k]
          BY <1>3, <2>5, <3>2
        <5> QED  BY <5>1, EndsAndFrames
      <4>2. Quiet(lane, k) => Quiet(lane', k)
        BY <1>6 DEF Quiet
      <4>3. Queued(lane[x], Delta(k, store[x][k])) => Queued(lane'[x], Delta(k, store[x][k]))
        <5>1. Delta(k, store[x][k]) # m
          BY <2>1, <2>2, <3>2, EndsAndFrames
        <5> QED  BY <1>3, <1>4, <1>5, <5>1 DEF q
      <4> QED  BY <3>1, <4>1, <4>2, <4>3 DEF Reaches
    <3>3. CASE k = k0
      <4>1. ~ Quiet(lane, k)
        BY <2>1, <2>7, <3>3 DEF Quiet
      <4>2. store[x][k].at <= store[Other(x)][k].at \/ Queued(lane[x], Delta(k, store[x][k]))
        BY <3>1, <4>1 DEF Reaches
      <4>3. CASE x = e
        <5>1. Other(x) = o
          BY <4>3 DEF o
        <5>2. CASE store[e][k].at <= store[o][k].at
          <6>1. store[e][k].at <= new.at
            BY <1>3, <2>2, <2>3, <3>3, <5>2
          <6> QED  BY <2>5, <3>3, <4>3, <5>1, <6>1 DEF Reaches
        <5>3. CASE Queued(lane[e], Delta(k, store[e][k]))
          <6>1. CASE Delta(k, store[e][k]) = m
            <7>1. store[e][k] = r0
              BY <2>1, <2>2, <3>3, <6>1, EndsAndFrames
            <7>2. store'[e][k].at <= store'[o][k].at
              BY <2>1, <2>3, <2>5, <3>3, <7>1 DEF StampRecord
            <7> QED  BY <4>3, <5>1, <7>2 DEF Reaches
          <6>2. CASE Delta(k, store[e][k]) # m
            <7>1. Queued(lane'[e], Delta(k, store'[e][k]))
              BY <1>4, <1>5, <2>5, <5>3, <6>2 DEF q
            <7> QED  BY <4>3, <7>1 DEF Reaches
          <6> QED  BY <6>1, <6>2
        <5> QED  BY <4>2, <4>3, <5>1, <5>2, <5>3
      <4>4. CASE x = o
        <5>1. Other(x) = e
          BY <4>4, EndsAndFrames DEF o
        <5>2. CASE new = r0
          <6>1. r0.at <= store[e][k].at
            BY <2>1, <2>7, <3>3 DEF SharedIInv, SentOlder
          <6> QED  BY <2>5, <3>3, <4>4, <5>1, <5>2, <6>1 DEF Reaches
        <5>3. CASE new = store[o][k0]
          <6>1. store'[o][k] = store[o][k]
            BY <2>5, <3>3, <5>3
          <6> QED  BY <1>5, <2>5, <4>2, <4>4, <5>1, <6>1 DEF Reaches
        <5> QED  BY <2>3, <5>2, <5>3
      <4> QED  BY <1>3, <4>3, <4>4
    <3> QED  BY <3>2, <3>3
  <2> QED  BY <1>7, <1>8, <2>6, <2>8, <2>10, <2>11 DEF SharedIInv
<1> QED  BY <1>9, <1>10

\* A write at one end, under a stamp no record has had.
LEMMA WrittenKeeps ==
  ASSUME SharedIInv, NEW e \in Ends, NEW k0 \in Kinds, NEW r \in StampRecord,
         clock' \in Nat, clock' > clock, r.at = clock',
         store' = [store EXCEPT ![e][k0] = r], Enqueue(e, Delta(k0, r)),
         UNCHANGED <<listVars, linked, subscribed, missed>>
  PROVE  SharedIInv'
<1> DEFINE f == Delta(k0, r)
<1>1. f \in Frame /\ f.type # "state" /\ f.type = k0 /\ f.record = r /\ Enqueue(e, f)
  BY EndsAndFrames
<1> HIDE DEF f
<1>2. UNCHANGED <<alive, cache, managerDue, updateDue, peerDue, view, linked, subscribed, missed>>
  BY DEF listVars
<1>3. lane \in [Ends -> Seq(Frame)] /\ lane[e] \in Seq(Frame) /\ clock \in Nat
      /\ \A x \in Ends, k \in Kinds : store[x][k] \in StampRecord /\ store[x][k].at \in Nat
  BY DEF SharedIInv, SharedTypes, StampRecord
<1>4. /\ lane' \in [Ends -> Seq(Frame)] /\ lossy' \in BOOLEAN /\ (lossy => lossy')
      /\ \A x \in Ends \ {e} : lane'[x] = lane[x]
      /\ lane'[e] = lane[e] \/ lane'[e] = Append(lane[e], f)
      /\ linked /\ ~ lossy' => lane'[e] = Append(lane[e], f)
      /\ ~ linked => lane' = lane
  BY <1>1, EnqueueFacts DEF SharedIInv
<1>5. \A y : Queued(Append(lane[e], f), y) <=> Queued(lane[e], y) \/ y = f
  BY <1>1, <1>3, QueuedAppend
<1>6. \A x \in Ends : \A y : Queued(lane'[x], y) => Queued(lane[x], y) \/ (x = e /\ y = f)
  BY <1>4, <1>5
<1>7. \A x \in Ends : \A y : Queued(lane[x], y) => Queued(lane'[x], y)
  BY <1>4, <1>5
<1>8. /\ store' \in [Ends -> [Kinds -> StampRecord]] /\ store'[e][k0] = r
      /\ \A x \in Ends, k \in Kinds : x # e \/ k # k0 => store'[x][k] = store[x][k]
  BY DEF SharedIInv, SharedTypes
<1>9. SharedTypes'
  BY <1>2, <1>4, <1>8 DEF SharedIInv, SharedTypes
<1>10. LinkSound'
  <2>1. \A y \in Frame : Queued(lane'["viewer"], y) => y.type # "state"
    BY <1>1, <1>6, EndsAndFrames DEF SharedIInv, LinkSound
  <2> QED  BY <1>2, <1>4, <2>1 DEF SharedIInv, LinkSound
<1>11. ListFresh'
  <2>1. ASSUME NEW b, Shows(lane["owner"], view, b)
        PROVE  Shows(lane'["owner"], view, b)
    <3>1. lane'["owner"] = lane["owner"] \/ (e = "owner" /\ lane'["owner"] = Append(lane["owner"], f))
      BY <1>4, EndsAndFrames
    <3> QED  BY <1>1, <1>3, <2>1, <3>1, ShowsAppend
  <2> QED  BY <1>2, <1>4, <2>1 DEF SharedIInv, ListFresh
<1>12. \A k \in Kinds, a \in StampRecord : Somewhere(store, lane, k, a) => a.at <= clock /\ (a.at = 0 => ~ a.on)
  BY DEF SharedIInv, StampsTell
<1>13. ASSUME NEW k \in Kinds, NEW a \in StampRecord, Somewhere(store', lane', k, a)
       PROVE  Somewhere(store, lane, k, a) \/ (k = k0 /\ a = r)
  <2>1. PICK x \in Ends : store'[x][k] = a \/ Queued(lane'[x], Delta(k, a))
    BY <1>13 DEF Somewhere
  <2>2. CASE store'[x][k] = a
    BY <1>8, <2>2 DEF Somewhere
  <2>3. CASE Queued(lane'[x], Delta(k, a))
    <3>1. CASE Queued(lane[x], Delta(k, a))
      BY <3>1 DEF Somewhere
    <3>2. CASE Delta(k, a) = f
      BY <1>1, <3>2, EndsAndFrames
    <3> QED  BY <1>6, <2>3, <3>1, <3>2
  <2> QED  BY <2>1, <2>2, <2>3
<1>14. StampsTell'
  <2> SUFFICES ASSUME NEW k \in Kinds, NEW a \in StampRecord, NEW b \in StampRecord, Somewhere(store', lane', k, a)
               PROVE  /\ a.at <= clock' /\ (a.at = 0 => ~ a.on)
                      /\ Somewhere(store', lane', k, b) /\ a.at = b.at => a = b
    BY DEF StampsTell
  <2>1. a.at \in Nat /\ b.at \in Nat
    BY DEF StampRecord
  <2>2. Somewhere(store, lane, k, a) \/ (k = k0 /\ a = r)
    BY <1>13
  <2>3. a.at <= clock' /\ (a.at = 0 => ~ a.on)
    BY <1>3, <1>12, <2>1, <2>2
  <2>4. ASSUME Somewhere(store', lane', k, b), a.at = b.at
        PROVE  a = b
    <3>1. Somewhere(store, lane, k, b) \/ (k = k0 /\ b = r)
      BY <1>13, <2>4
    <3>2. CASE Somewhere(store, lane, k, a) /\ Somewhere(store, lane, k, b)
      BY <2>4, <3>2 DEF SharedIInv, StampsTell
    <3>3. CASE a = r \/ b = r
      BY <1>3, <1>12, <2>1, <2>2, <2>4, <3>1, <3>3
    <3> QED  BY <2>2, <3>1, <3>2, <3>3
  <2> QED  BY <2>3, <2>4
<1>15. \A x \in Ends, k \in Kinds : store[x][k].at <= clock
  BY <1>3, <1>12 DEF Somewhere
<1>16. SentOlder'
  <2> SUFFICES ASSUME NEW x \in Ends, NEW k \in Kinds, NEW a \in StampRecord, Queued(lane'[x], Delta(k, a))
               PROVE  a.at <= store'[x][k].at
    BY DEF SentOlder
  <2>1. a.at \in Nat
    BY DEF StampRecord
  <2>2. CASE Queued(lane[x], Delta(k, a))
    <3>1. a.at <= store[x][k].at
      BY <2>2 DEF SharedIInv, SentOlder
    <3>2. CASE x = e /\ k = k0
      BY <1>3, <1>8, <1>15, <2>1, <3>1, <3>2
    <3>3. CASE x # e \/ k # k0
      BY <1>8, <3>1, <3>3
    <3> QED  BY <3>2, <3>3
  <2>3. CASE x = e /\ Delta(k, a) = f
    <3>1. k = k0 /\ a = r
      BY <1>1, <2>3, EndsAndFrames
    <3> QED  BY <1>8, <2>1, <2>3, <3>1
  <2> QED  BY <1>6, <2>2, <2>3
<1>17. AllReaches'
  <2> SUFFICES ASSUME linked', ~ lossy', NEW x \in Ends, NEW k \in Kinds
               PROVE  Reaches(store', lane', x, k)
    BY DEF AllReaches
  <2>0. linked
    BY <1>2
  <2>1. CASE k # k0
    <3>1. Reaches(store, lane, x, k)
      BY <1>4, <2>0 DEF SharedIInv, AllReaches
    <3>2. store'["owner"][k] = store["owner"][k] /\ store'["viewer"][k] = store["viewer"][k]
          /\ store'[x][k] = store[x][k] /\ store'[Other(x)][k] = store[Other(x)][k]
      BY <1>8, <2>1, EndsAndFrames
    <3>3. Quiet(lane, k) => Quiet(lane', k)
      <4>1. \A a \in StampRecord : Delta(k, a) # f
        BY <1>1, <2>1, EndsAndFrames
      <4> QED  BY <1>6, <4>1 DEF Quiet
    <3> QED  BY <1>7, <3>1, <3>2, <3>3 DEF Reaches
  <2>2. CASE k = k0 /\ x = e
    <3>1. Queued(lane'[e], f)
      BY <1>4, <1>5, <2>0
    <3> QED  BY <1>8, <2>2, <3>1 DEF Reaches, f
  <2>3. CASE k = k0 /\ x # e
    <3>1. Other(x) = e
      BY <2>3, EndsAndFrames
    <3>2. store'[x][k].at <= store'[e][k].at
      BY <1>3, <1>8, <1>15, <2>3
    <3> QED  BY <3>1, <3>2 DEF Reaches
  <2> QED  BY <2>1, <2>2, <2>3
<1> QED  BY <1>9, <1>10, <1>11, <1>14, <1>16, <1>17 DEF SharedIInv

\* Set, and the prune of a session that is gone, are such writes.
LEMMA StoreWritesKeep ==
  ASSUME SharedIInv, NEW e \in Ends,
         PruneGone(e) \/ \E k \in Kinds, v \in BOOLEAN : Set(e, k, v)
  PROVE  SharedIInv'
<1>1. PICK k \in Kinds, v \in BOOLEAN :
        /\ ClockAdvances /\ store' = [store EXCEPT ![e][k] = [on |-> v, at |-> clock']]
        /\ Enqueue(e, Delta(k, [on |-> v, at |-> clock']))
        /\ UNCHANGED <<listVars, linked, subscribed, missed>>
  <2>1. CASE PruneGone(e)
    <3>1. "bits" \in Kinds /\ FALSE \in BOOLEAN
      BY DEF Kinds
    <3> QED  BY <2>1, <3>1 DEF PruneGone
  <2>2. CASE \E k \in Kinds, v \in BOOLEAN : Set(e, k, v)
    BY <2>2 DEF Set
  <2> QED  BY <2>1, <2>2
<1>2. clock' \in Nat /\ clock' > clock
  BY <1>1 DEF ClockAdvances, SharedIInv, SharedTypes
<1> DEFINE r == [on |-> v, at |-> clock']
<1>3. r \in StampRecord /\ r.at = clock'
  BY <1>2 DEF StampRecord
<1>4. store' = [store EXCEPT ![e][k] = r] /\ Enqueue(e, Delta(k, r))
  BY <1>1
<1> HIDE DEF r
<1> QED  BY <1>1, <1>2, <1>3, <1>4, WrittenKeeps

\* With nothing in flight the two ends agree.
LEMMA QuietAgrees ==
  ASSUME SharedIInv, linked, ~ lossy, \A e \in Ends : lane[e] = <<>>, NEW k \in Kinds
  PROVE  store["owner"][k].on = store["viewer"][k].on
<1>1. /\ store["owner"][k] \in StampRecord /\ store["viewer"][k] \in StampRecord
      /\ store["owner"][k].on \in BOOLEAN /\ store["viewer"][k].on \in BOOLEAN
      /\ store["owner"][k].at \in Nat /\ store["viewer"][k].at \in Nat
  BY EndsAndFrames DEF SharedIInv, SharedTypes, StampRecord
<1>2. \A e \in Ends : \A m : ~ Queued(lane[e], m)
  BY DEF Queued
<1>3. Other("owner") = "viewer" /\ Other("viewer") = "owner"
  BY DEF Other
<1>4. Reaches(store, lane, "owner", k) /\ Reaches(store, lane, "viewer", k)
  BY EndsAndFrames DEF SharedIInv, AllReaches
<1>5. CASE ~ store["owner"][k].on /\ ~ store["viewer"][k].on
  BY <1>1, <1>5
<1>6. CASE store["owner"][k].on \/ store["viewer"][k].on
  <2>1. store["owner"][k].at <= store["viewer"][k].at
    BY <1>2, <1>3, <1>4, <1>6, EndsAndFrames DEF Reaches
  <2>2. store["viewer"][k].at <= store["owner"][k].at
    BY <1>2, <1>3, <1>4, <1>6, EndsAndFrames DEF Reaches
  <2>3. store["owner"][k].at = store["viewer"][k].at
    BY <1>1, <2>1, <2>2
  <2>4. Somewhere(store, lane, k, store["owner"][k]) /\ Somewhere(store, lane, k, store["viewer"][k])
    BY EndsAndFrames DEF Somewhere
  <2>5. store["owner"][k] = store["viewer"][k]
    BY <1>1, <2>3, <2>4 DEF SharedIInv, StampsTell
  <2> QED  BY <2>5
<1> QED  BY <1>5, <1>6

\* An old tombstone goes, here or at both ends.
LEMMA ExpiryKeeps ==
  ASSUME SharedIInv, NEW e \in Ends, PruneExpired(e)
  PROVE  SharedIInv'
<1>1. /\ ~ store[e]["bits"].on /\ \A x \in Ends : lane[x] = <<>>
      /\ store' = [store EXCEPT ![e]["bits"] = Absent]
      /\ UNCHANGED <<alive, cache, managerDue, updateDue, peerDue, view, linked, subscribed, lane, lossy, missed, clock>>
  BY DEF PruneExpired, listVars
<1>2. "bits" \in Kinds /\ Absent \in StampRecord /\ Absent.at = 0 /\ ~ Absent.on
  BY EndsAndFrames DEF Kinds
<1>3. /\ store' \in [Ends -> [Kinds -> StampRecord]] /\ store'[e]["bits"] = Absent
      /\ \A x \in Ends, k \in Kinds : x # e \/ k # "bits" => store'[x][k] = store[x][k]
  BY <1>1, <1>2 DEF SharedIInv, SharedTypes
<1>4. SharedTypes'
  BY <1>1, <1>3 DEF SharedIInv, SharedTypes
<1>5. LinkSound' /\ ListFresh'
  BY <1>1 DEF SharedIInv, LinkSound, ListFresh
<1>6. \A x \in Ends : \A m : ~ Queued(lane[x], m)
  BY <1>1 DEF Queued
<1>7. StampsTell'
  <2>1. \A k \in Kinds, r \in StampRecord :
          Somewhere(store', lane', k, r) => Somewhere(store, lane, k, r) \/ r = Absent
    BY <1>1, <1>3 DEF Somewhere
  <2> QED  BY <1>1, <2>1, StampsOld
<1>8. SentOlder'
  BY <1>1, <1>6 DEF SentOlder
<1>9. AllReaches'
  <2> SUFFICES ASSUME linked, ~ lossy, NEW x \in Ends, NEW k \in Kinds
               PROVE  Reaches(store', lane, x, k)
    BY <1>1 DEF AllReaches
  <2>1. Reaches(store, lane, x, k)
    BY DEF SharedIInv, AllReaches
  <2>2. CASE k # "bits"
    <3>1. store'["owner"][k] = store["owner"][k] /\ store'["viewer"][k] = store["viewer"][k]
          /\ store'[x][k] = store[x][k] /\ store'[Other(x)][k] = store[Other(x)][k]
      BY <1>3, <2>2, EndsAndFrames
    <3> QED  BY <2>1, <3>1 DEF Reaches
  <2>3. CASE k = "bits"
    <3>1. /\ store["owner"][k].on = store["viewer"][k].on
          /\ store["owner"][k].on \in BOOLEAN /\ store["viewer"][k].on \in BOOLEAN
      BY <1>1, QuietAgrees, EndsAndFrames DEF SharedIInv, SharedTypes, StampRecord
    <3>2. e = "owner" \/ e = "viewer"
      BY DEF Ends
    <3>3. ~ store["owner"][k].on /\ ~ store["viewer"][k].on
      BY <1>1, <2>3, <3>1, <3>2
    <3>4. \A y \in Ends : ~ store'[y][k].on
      <4>1. \A y \in Ends : ~ store[y][k].on
        BY <3>3 DEF Ends
      <4> QED  BY <1>2, <1>3, <2>3, <4>1
    <3>5. Quiet(lane, k)
      BY <1>6 DEF Quiet
    <3> QED  BY <3>4, <3>5, EndsAndFrames DEF Reaches
  <2> QED  BY <2>2, <2>3
<1> QED  BY <1>4, <1>5, <1>7, <1>8, <1>9 DEF SharedIInv

LEMMA MeshStarts == MeshInit => SharedIInv
<1> SUFFICES ASSUME MeshInit  PROVE SharedIInv
  OBVIOUS
<1>1. /\ alive = FALSE /\ cache = FALSE /\ managerDue = FALSE /\ updateDue = FALSE /\ peerDue = FALSE
      /\ linked = FALSE /\ subscribed = FALSE /\ view = FALSE /\ lossy = FALSE /\ missed = FALSE
      /\ store = [e \in Ends |-> [k \in Kinds |-> Absent]] /\ lane = [e \in Ends |-> <<>>] /\ clock = 1
  BY DEF MeshInit
<1>2. Absent \in StampRecord /\ Absent.at = 0 /\ ~ Absent.on
  BY EndsAndFrames
<1>3. /\ alive \in BOOLEAN /\ cache \in BOOLEAN /\ managerDue \in BOOLEAN /\ updateDue \in BOOLEAN
      /\ peerDue \in BOOLEAN /\ linked \in BOOLEAN /\ subscribed \in BOOLEAN /\ view \in BOOLEAN
      /\ lossy \in BOOLEAN /\ missed \in BOOLEAN
  BY <1>1
<1>4. store \in [Ends -> [Kinds -> StampRecord]] /\ \A e \in Ends, k \in Kinds : store[e][k] = Absent
  BY <1>1, <1>2
<1>5. lane \in [Ends -> Seq(Frame)] /\ \A e \in Ends : lane[e] = <<>>
  BY <1>1
<1>6. \A e \in Ends : \A m : ~ Queued(lane[e], m)
  BY <1>5 DEF Queued
<1>7. SharedTypes
  BY <1>1, <1>3, <1>4, <1>5 DEF SharedTypes
<1>8. LinkSound
  BY <1>1, <1>5, <1>6, EndsAndFrames DEF LinkSound
<1>9. ListFresh /\ AllReaches
  BY <1>1 DEF ListFresh, AllReaches
<1>10. SentOlder
  BY <1>6 DEF SentOlder
<1>11. StampsTell
  <2>1. \A k \in Kinds, r \in StampRecord : Somewhere(store, lane, k, r) => r = Absent
    BY <1>4, <1>6 DEF Somewhere
  <2>2. clock = 1
    BY <1>1
  <2> QED  BY <1>2, <2>1, <2>2 DEF StampsTell
<1> QED  BY <1>7, <1>8, <1>9, <1>10, <1>11 DEF SharedIInv

LEMMA SharedFollows == SharedIInv => SharedInv
<1> SUFFICES ASSUME SharedIInv  PROVE SharedInv
  OBVIOUS
<1>1. SharedAgree
  BY QuietAgrees DEF SharedAgree, Settled
<1>2. ListFollows
  <2> SUFFICES ASSUME linked, \A e \in Ends : lane[e] = <<>>, ~ lossy, ~ missed, subscribed, ~ managerDue, ~ updateDue, ~ peerDue
               PROVE  view = alive
    BY DEF ListFollows, Settled
  <2>1. Shows(lane["owner"], view, alive)
    BY DEF SharedIInv, ListFresh
  <2>2. lane["owner"] = <<>>
    BY EndsAndFrames
  <2> QED  BY <2>1, <2>2 DEF Shows
<1> QED  BY <1>1, <1>2 DEF SharedInv

(* What two servers show of one session agrees whenever a link has carried    *)
(* its frames: the bits and the rank whoever wrote what in which order, and   *)
(* the viewer's list whichever of the owner's two lists came last.  For every *)
(* lane size, retention of tombstones and number of links, writes and boots.  *)
THEOREM SharedStateAgrees == MeshSpec => []SharedInv
<1>1. SharedIInv /\ [MeshNext]_<<meshVars, clock>> => SharedIInv'
  <2> SUFFICES ASSUME SharedIInv, [MeshNext]_<<meshVars, clock>>
               PROVE  SharedIInv'
    OBVIOUS
  <2>1. CASE SessionChanges \/ ManagerRuns \/ Subscribe
    BY <2>1, ListSteps
  <2>2. CASE ForwardState \/ ForwardPeerState
    BY <2>2, ForwardSteps
  <2>3. CASE LinkUp
    BY <2>3, LinkUpKeeps
  <2>4. CASE LinkDown \/ ViewerForgets \/ OwnerBoots
    BY <2>4, UnlinkedKeeps
  <2>5. CASE \E e \in Ends : ReadsFrame(e)
    BY <2>5, ReadsKeeps
  <2>6. CASE \E e \in Ends : PruneGone(e) \/ \E k \in Kinds, v \in BOOLEAN : Set(e, k, v)
    BY <2>6, StoreWritesKeep
  <2>7. CASE \E e \in Ends : PruneExpired(e)
    BY <2>7, ExpiryKeeps
  <2>8. CASE UNCHANGED <<meshVars, clock>>
    BY <2>8 DEF meshVars, SharedIInv, SharedTypes, LinkSound, ListFresh, StampsTell, SentOlder, AllReaches
  <2> QED  BY <2>1, <2>2, <2>3, <2>4, <2>5, <2>6, <2>7, <2>8 DEF MeshNext
<1> QED  BY <1>1, MeshStarts, SharedFollows, PTL DEF MeshSpec
=============================================================================
