---------------------------- MODULE SessionNames ----------------------------
(***************************************************************************)
(* The label of one session in state.Manager: typed by the user, generated   *)
(* for the agent session that runs in it, or generated for its shell.  It is *)
(* kept in the metadata, copied into the listed session, and saved in        *)
(* session-names.json.  Each critical section is a step; saveNames copies    *)
(* under the lock and writes outside it.  A generated label stands for the   *)
(* agent session whose prompt it was generated from.                         *)
(***************************************************************************)
EXTENDS NameGate

CONSTANTS
    AgentSessions,   \* upstream agent session ids
    Namers,          \* automatic namings in progress at once
    Savers,          \* calls of saveNames in progress at once
    MaxPrompts,      \* bound on UserPromptCount
    MaxHappenings    \* bound on what agents, users and the machine do

NoLabel == "no label"
Typed == "typed"
Shell == "shell"
NoAgent == "no agent session"

ASSUME NamesAssumption == AgentSessions \cap {NoLabel, Typed, Shell, NoAgent} = {}

VARIABLES
    meta,        \* m.meta[name]; Zero stands for an absent entry too
    listed,      \* m.sessions[name]
    namesFile,
    naming,      \* triggerAgentNaming and TriggerShellNaming
    regen,       \* RegenerateName
    saver,       \* saveNames
    nameGate,
    running,     \* an agent runs in the session's process tree
    word,        \* history: the user's last word on the label, "typed" once it was answered
    disturbed,   \* history: a save was overtaken or cut off, or a rename ran beside the typing
    crossed,     \* history: the label was stored after its agent session had changed, or locked
                 \* as the user's by a rename that ran beside the typing, or read from the file
    happenings

sessionNamesVars == <<meta, listed, namesFile, naming, regen, saver, nameGate, running, word, disturbed, crossed,
               happenings>>

Labels == AgentSessions \cup {NoLabel, Typed, Shell, NoAgent}
Zero == [label |-> NoLabel, userSet |-> FALSE, assigned |-> FALSE, agent |-> FALSE,
         id |-> NoAgent, prompted |-> FALSE, prompts |-> 0, namedAt |-> 0]
Unlisted == [present |-> FALSE, label |-> NoLabel, userSet |-> FALSE]
Blank == [label |-> NoLabel, userSet |-> FALSE, assigned |-> FALSE, prompted |-> FALSE]
IdleNaming == [pc |-> "idle", for |-> NoLabel, at |-> 0]
IdleSave == [pc |-> "idle", copy |-> Blank, stale |-> FALSE, typed |-> FALSE]

NamesTypeOK ==
    /\ meta.label \in Labels /\ meta.id \in AgentSessions \cup {NoAgent} /\ meta.prompts \in 0 .. MaxPrompts
    /\ meta.namedAt \in 0 .. MaxMoment
    /\ listed \in [present : BOOLEAN, label : Labels, userSet : BOOLEAN]
    /\ namesFile \in [label : Labels, userSet : BOOLEAN, assigned : BOOLEAN, prompted : BOOLEAN]
    /\ \A r \in Namers : naming[r].pc \in {"idle", "read", "gate", "generating"}
    /\ regen.pc \in {"idle", "generating", "clear", "apply"}
    /\ \A s \in Savers : saver[s].pc \in {"idle", "copy", "write"}
    /\ nameGate \in GateStates
    /\ word \in {"none", "saving", "typed"} /\ {running, disturbed, crossed} \subseteq BOOLEAN
    /\ happenings \in 0 .. MaxHappenings

NamesInit ==
    /\ meta = Zero /\ listed = Unlisted /\ namesFile = Blank
    /\ naming = [r \in Namers |-> IdleNaming] /\ regen = IdleNaming
    /\ saver = [s \in Savers |-> IdleSave]
    /\ nameGate = NoState /\ moment = 1
    /\ running = FALSE /\ word = "none" /\ disturbed = FALSE /\ crossed = FALSE /\ happenings = 0

Happens == happenings < MaxHappenings /\ happenings' = happenings + 1

\* A call of saveNames, in the caller's goroutine or in one of its own.
Saves(isTyped) ==
    LET free == {s \in Savers : saver[s].pc = "idle"} IN
    /\ free # {}
    /\ saver' = [saver EXCEPT ![CHOOSE s \in free : TRUE] = [IdleSave EXCEPT !.pc = "copy", !.typed = isTyped]]

Starts(shell) ==
    LET free == {r \in Namers : naming[r].pc = "idle"} IN
    /\ free # {}
    /\ naming' = [naming EXCEPT ![CHOOSE r \in free : TRUE] =
                      [IdleNaming EXCEPT !.pc = "read", !.for = IF shell THEN Shell ELSE NoLabel]]

-----------------------------------------------------------------------------
(* UpdateSessionMetadataFromEvent, for a hook of agent session i with a new   *)
(* prompt of the user, or a new message at the end of a turn, or neither.     *)

ResetFor(i) ==
    [meta EXCEPT !.prompted = FALSE, !.prompts = 0,
                 !.label = IF meta.userSet THEN @ ELSE NoLabel,
                 !.assigned = meta.userSet /\ @,
                 !.namedAt = IF meta.userSet THEN @ ELSE 0]

\* The metadata as the event leaves it.
AfterEvent(i, prompt) ==
    LET m == IF meta.id \notin {NoAgent, i} THEN ResetFor(i) ELSE meta
    IN  [m EXCEPT !.agent = TRUE, !.id = i, !.prompted = @ \/ prompt, !.prompts = IF prompt THEN @ + 1 ELSE @]

\* firstPrompt or nameRefresh.
Renames(i, prompt, turnEnds) ==
    LET m == IF meta.id \notin {NoAgent, i} THEN ResetFor(i) ELSE meta
        due == m.namedAt = 0 \/ moment > m.namedAt + NormalInterval
        first == prompt /\ ~m.prompted /\ ~m.assigned
    IN  /\ ~m.userSet
        /\ first \/ ((prompt \/ turnEnds) /\ AfterEvent(i, prompt).prompts < 2 /\ due)

AgentEvent(i, prompt, turnEnds) ==
    LET m == AfterEvent(i, prompt) IN
    /\ Happens /\ m.prompts <= MaxPrompts
    /\ m # meta \/ turnEnds
    /\ meta' = m
    /\ IF Renames(i, prompt, turnEnds) THEN Starts(FALSE) /\ UNCHANGED saver
       ELSE IF m.label # NoLabel \/ m.userSet THEN Saves(FALSE) /\ UNCHANGED naming
       ELSE UNCHANGED <<saver, naming>>
    /\ crossed' = (crossed /\ m.label = meta.label)
    /\ UNCHANGED <<listed, namesFile, regen, nameGate, running, word, disturbed, moment>>

\* runShellNameWatcher sees a new command.
ShellCommand ==
    /\ Happens /\ listed.present /\ Starts(TRUE)
    /\ UNCHANGED <<meta, listed, namesFile, regen, saver, nameGate, running, word, disturbed, crossed, moment>>

-----------------------------------------------------------------------------
(* triggerAgentNaming and TriggerShellNaming                                 *)

NamingReads(r) ==
    LET shell == naming[r].for = Shell
        blocked == meta.userSet \/ (shell /\ (meta.agent \/ ~listed.present))
    IN
    /\ naming[r].pc = "read"
    /\ naming' = [naming EXCEPT ![r] = IF blocked THEN IdleNaming
                                       ELSE [@ EXCEPT !.pc = "gate", !.for = IF shell THEN Shell ELSE meta.id]]
    /\ UNCHANGED <<meta, listed, namesFile, regen, saver, nameGate, running, word, disturbed, crossed, happenings, moment>>

NamingBegins(r) ==
    /\ naming[r].pc = "gate"
    /\ IF MayBegin(nameGate)
       THEN /\ nameGate' = Begun(nameGate)
            /\ naming' = [naming EXCEPT ![r].pc = "generating", ![r].at = moment]
       ELSE naming' = [naming EXCEPT ![r] = IdleNaming] /\ UNCHANGED nameGate
    /\ UNCHANGED <<meta, listed, namesFile, regen, saver, running, word, disturbed, crossed, happenings, moment>>

NamingFails(r) ==
    /\ naming[r].pc = "generating"
    /\ nameGate' = Failed(nameGate)
    /\ naming' = [naming EXCEPT ![r] = IdleNaming]
    /\ UNCHANGED <<meta, listed, namesFile, regen, saver, running, word, disturbed, crossed, happenings, moment>>

\* applyGeneratedName.  A session that is gone gets an entry again.
Locked_Never == FALSE

Locked == meta.userSet

Applied(for) ==
    IF Locked THEN UNCHANGED <<meta, listed, nameGate, saver, crossed>>
    ELSE /\ meta' = [meta EXCEPT !.label = for, !.assigned = TRUE, !.namedAt = moment]
         /\ listed' = IF listed.present THEN [listed EXCEPT !.label = for] ELSE listed
         /\ nameGate' = Succeeded(nameGate)
         /\ IF meta.label # for THEN Saves(FALSE) ELSE UNCHANGED saver
         /\ crossed' = (for \in AgentSessions /\ for # meta.id)

NamingApplies(r) ==
    /\ naming[r].pc = "generating"
    /\ naming' = [naming EXCEPT ![r] = IdleNaming]
    /\ Applied(naming[r].for)
    /\ UNCHANGED <<namesFile, regen, running, word, disturbed, happenings, moment>>

-----------------------------------------------------------------------------
(* SetDisplayName, which answers after its save, and RegenerateName, which    *)
(* takes the lock twice to store its result.                                  *)

SetDisplayName(clear) ==
    /\ Happens
    /\ meta' = [meta EXCEPT !.label = IF clear THEN NoLabel ELSE Typed, !.userSet = ~clear,
                            !.assigned = @ \/ ~clear]
    /\ listed' = IF listed.present THEN [listed EXCEPT !.label = meta'.label, !.userSet = ~clear] ELSE listed
    /\ Saves(~clear)
    /\ word' = IF clear THEN "none" ELSE "saving"
    /\ disturbed' = (regen.pc # "idle")
    /\ crossed' = FALSE
    /\ UNCHANGED <<namesFile, naming, regen, nameGate, running, moment>>

RegenStarts ==
    /\ Happens /\ regen.pc = "idle"
    /\ regen' = [pc |-> "generating", for |-> IF meta.agent THEN meta.id ELSE Shell, at |-> moment]
    /\ UNCHANGED <<meta, listed, namesFile, naming, saver, nameGate, running, word, disturbed, crossed, moment>>

RegenReturns(ok) ==
    /\ regen.pc = "generating"
    /\ regen' = IF ok THEN [regen EXCEPT !.pc = "clear"] ELSE IdleNaming
    /\ UNCHANGED <<meta, listed, namesFile, naming, saver, nameGate, running, word, disturbed, crossed, happenings, moment>>

ApplyAIName ==
    /\ regen.pc = "clear"
    /\ meta' = [meta EXCEPT !.assigned = FALSE, !.userSet = FALSE]
    /\ listed' = [listed EXCEPT !.userSet = FALSE]
    /\ regen' = [regen EXCEPT !.pc = "apply", !.at = IF meta.agent THEN 1 ELSE 0]
    /\ word' = "none"
    /\ UNCHANGED <<namesFile, naming, saver, nameGate, running, disturbed, crossed, happenings, moment>>

\* For an agent through applyGeneratedName, for a shell without its check.
RegenStores ==
    /\ regen.pc = "apply"
    /\ regen' = IdleNaming
    /\ IF regen.at = 1 THEN Applied(regen.for)
       ELSE /\ meta' = [meta EXCEPT !.label = regen.for, !.assigned = TRUE]
            /\ listed' = IF listed.present THEN [listed EXCEPT !.label = regen.for] ELSE listed
            /\ Saves(FALSE)
            /\ crossed' = (meta.userSet \/ (regen.for \in AgentSessions /\ regen.for # meta.id))
            /\ UNCHANGED nameGate
    /\ UNCHANGED <<namesFile, naming, running, word, disturbed, happenings, moment>>

-----------------------------------------------------------------------------
(* The session comes, goes, and is enriched every two seconds.               *)

AddSession ==
    /\ ~listed.present
    /\ listed' = [Unlisted EXCEPT !.present = TRUE]
    /\ UNCHANGED <<meta, namesFile, naming, regen, saver, nameGate, running, word, disturbed, crossed, happenings, moment>>

RemoveSession ==
    /\ listed.present /\ Happens
    /\ listed' = Unlisted /\ meta' = Zero
    /\ Saves(FALSE)
    /\ word' = "none" /\ running' = FALSE /\ crossed' = FALSE
    /\ UNCHANGED <<namesFile, naming, regen, nameGate, disturbed, moment>>

AgentStarts == listed.present /\ ~running /\ Happens /\ running' = TRUE
               /\ UNCHANGED <<meta, listed, namesFile, naming, regen, saver, nameGate, word, disturbed, crossed, moment>>

AgentExits == running /\ Happens /\ running' = FALSE
              /\ UNCHANGED <<meta, listed, namesFile, naming, regen, saver, nameGate, word, disturbed, crossed, moment>>

\* EnrichSessionInPlaceWithMetaCallback: applyMetadataUnlocked, then clearStaleAgentMetadataIfNeeded.
Cleared == [meta EXCEPT !.agent = FALSE, !.prompted = FALSE, !.label = IF meta.userSet THEN @ ELSE NoLabel]

Stale ==
    /\ ~running
    /\ meta.agent \/ meta.prompted \/ (meta.label # NoLabel /\ ~meta.userSet)

Enrich ==
    LET shown == IF meta.label # NoLabel /\ (meta.userSet \/ running) THEN meta.label ELSE listed.label IN
    /\ listed.present
    /\ meta' = IF Stale THEN Cleared ELSE meta
    /\ listed' = [listed EXCEPT !.userSet = meta.userSet,
                                !.label = IF Stale /\ ~meta.userSet THEN NoLabel ELSE shown]
    /\ crossed' = (crossed /\ meta'.label # NoLabel)
    /\ UNCHANGED <<namesFile, naming, regen, saver, nameGate, running, word, disturbed, happenings, moment>>

-----------------------------------------------------------------------------
\* saveNames: the copy, which skips entries without a label, and the write.
Copied ==
    IF meta.label = NoLabel /\ ~meta.userSet THEN Blank
    ELSE [label |-> meta.label, userSet |-> meta.userSet, assigned |-> meta.assigned, prompted |-> meta.prompted]

SaveNamesCopies(s) ==
    /\ saver[s].pc = "copy"
    /\ saver' = [saver EXCEPT ![s].pc = "write", ![s].copy = Copied]
    /\ UNCHANGED <<meta, listed, namesFile, naming, regen, nameGate, running, word, disturbed, crossed, happenings, moment>>

SaveNamesWrites(s) ==
    /\ saver[s].pc = "write"
    /\ namesFile' = saver[s].copy
    /\ saver' = [o \in Savers |-> IF o = s THEN IdleSave
                                  ELSE [saver[o] EXCEPT !.stale = saver[o].pc = "write"]]
    /\ word' = IF saver[s].typed /\ word = "saving" THEN "typed" ELSE word
    /\ disturbed' = (disturbed \/ saver[s].stale)
    /\ UNCHANGED <<meta, listed, naming, regen, nameGate, running, crossed, happenings, moment>>

\* loadNames.  The agent session's id and its prompt count are not in the file.
Loaded(f) == [Zero EXCEPT !.label = f.label, !.userSet = f.userSet, !.assigned = f.assigned, !.prompted = f.prompted]

RestartServer ==
    /\ Happens
    /\ meta' = Loaded(namesFile) /\ listed' = Unlisted
    /\ naming' = [r \in Namers |-> IdleNaming] /\ regen' = IdleNaming
    /\ saver' = [s \in Savers |-> IdleSave]
    /\ nameGate' = NoState
    /\ word' = IF word = "saving" THEN "none" ELSE word
    /\ disturbed' = (disturbed \/ \E s \in Savers : saver[s].pc # "idle")
    /\ crossed' = TRUE
    /\ UNCHANGED <<namesFile, running, moment>>

Quick(x) == x.pc = "idle" \/ (x.pc = "generating" /\ moment < x.at + GenerateTimeout)

NamesTick ==
    /\ moment < MaxMoment /\ moment' = moment + 1
    /\ \A r \in Namers : Quick(naming[r])
    /\ Quick(regen)
    /\ \A s \in Savers : saver[s].pc = "idle"
    /\ UNCHANGED <<meta, listed, namesFile, naming, regen, saver, nameGate, running, word, disturbed, crossed, happenings>>

NamesNext ==
    \/ \E i \in AgentSessions : AgentEvent(i, TRUE, FALSE) \/ AgentEvent(i, FALSE, TRUE) \/ AgentEvent(i, FALSE, FALSE)
    \/ ShellCommand \/ RegenStarts \/ ApplyAIName \/ RegenStores
    \/ \E r \in Namers : NamingReads(r) \/ NamingBegins(r) \/ NamingFails(r) \/ NamingApplies(r)
    \/ \E b \in BOOLEAN : SetDisplayName(b) \/ RegenReturns(b)
    \/ AddSession \/ RemoveSession \/ AgentStarts \/ AgentExits \/ Enrich
    \/ \E s \in Savers : SaveNamesCopies(s) \/ SaveNamesWrites(s)
    \/ RestartServer \/ NamesTick

NamesSpec == NamesInit /\ [][NamesNext]_<<sessionNamesVars, moment>>

-----------------------------------------------------------------------------
(* A label the user typed, and whose request was answered, outlasts changes   *)
(* of the agent session, automatic namings that were already running, the     *)
(* clearing of stale agent data and restarts, until the user says otherwise   *)
(* or the session ends.  (An explicit regeneration beside it, and a save       *)
(* that was overtaken by an older one or cut off, can lose it.)               *)
UserLabelKept == (word = "typed" /\ ~disturbed) => meta.userSet /\ meta.label = Typed

(* A generated label belongs to the agent session that runs now: a new one    *)
(* does not inherit its predecessor's.  (A generation that was out while the  *)
(* agent session changed does store the old one's label, and after a restart  *)
(* the id is unknown.)                                                        *)
LabelFollowsAgent == (~crossed /\ meta.label \in AgentSessions) => meta.label = meta.id

(* One automatic request to the namer is out for a session at a time.         *)
OneNaming == Cardinality({r \in Namers : naming[r].pc = "generating"}) <= 1

(* The label is the user's, or the running agent session's, generated by one   *)
(* request at a time.                                                         *)
NamesInv == UserLabelKept /\ LabelFollowsAgent /\ OneNaming
=============================================================================
