---------------------------- MODULE LoginSessions ----------------------------
(***************************************************************************)
(* pkg/auth: the first-run password and the browser sessions with their     *)
(* sliding expiry.  Every request runs in a goroutine of its own.           *)
(* SessionManager changes its map under the lock, but save() copies the map  *)
(* under the lock and writes the file outside it, so two saves may reach the *)
(* file in either order.  Requests that the limiter or a failed check turns  *)
(* away change nothing and are left out.                                     *)
(***************************************************************************)
EXTENDS WallClock, FiniteSets

CONSTANTS
    Threads,      \* requests in progress at once
    Tokens,       \* session tokens that Create may return
    Passwords,
    TTL,          \* the lifetime of a session
    Lag,          \* the minute between two saves of one token
    MaxMishaps    \* bound on failed writes and on restarts

ASSUME LoginAssumption ==
    /\ {TTL, Lag} \subseteq Nat \ {0} /\ Lag < TTL /\ MaxMishaps \in Nat

NoPassword == "none"

VARIABLES
    hash, authFile,   \* the password, in memory and in auth.json
    sessions,         \* token -> expiry
    lastSaved,        \* token -> when Create or Validate last decided to save it
    sessionsFile,     \* sessions.json
    thread,           \* per request, what is left of it
    used,             \* history: token -> the last use that was answered
    out,              \* history: tokens whose logout was answered
    winner,           \* history: the password whose setup succeeded
    spoiled,          \* history: a save was overtaken, failed, or cut off by a crash
    mishaps

loginVars == <<hash, authFile, sessions, lastSaved, sessionsFile, thread, used, out, winner, spoiled, mishaps>>
passwordVars == <<hash, authFile, winner>>

NoToken == "no token"
Rest == [pc |-> "idle", snap |-> <<>>, stale |-> FALSE, op |-> "none", token |-> NoToken, at |-> 0]
Without(f, s) == [k \in DOMAIN f \ s |-> f[k]]
With(f, t, v) == [k \in DOMAIN f \cup {t} |-> IF k = t THEN v ELSE f[k]]

LoginTypeOK ==
    /\ {hash, authFile, winner} \subseteq Passwords \cup {NoPassword}
    /\ DOMAIN sessions \subseteq Tokens /\ DOMAIN sessionsFile \subseteq Tokens
    /\ DOMAIN lastSaved \subseteq DOMAIN sessions
    /\ \A t \in DOMAIN sessions : sessions[t] \in 1 .. MaxTime + TTL
    /\ \A h \in Threads : thread[h].pc \in {"idle", "save", "write"}
    /\ DOMAIN used \subseteq Tokens /\ out \subseteq Tokens
    /\ spoiled \in BOOLEAN /\ mishaps \in 0 .. MaxMishaps /\ clock \in 1 .. MaxTime

LoginInit ==
    /\ hash = NoPassword /\ authFile = NoPassword /\ winner = NoPassword
    /\ sessions = <<>> /\ lastSaved = <<>> /\ sessionsFile = <<>>
    /\ thread = [h \in Threads |-> Rest]
    /\ used = <<>> /\ out = {} /\ spoiled = FALSE /\ mishaps = 0
    /\ clock = 1

Mishap == mishaps < MaxMishaps /\ mishaps' = mishaps + 1
Issued == UNION {DOMAIN used, DOMAIN sessions, DOMAIN sessionsFile, out, {thread[h].token : h \in Threads}}

\* The request goes on to save(); its answer follows the write.
Saving(h, op, t) ==
    thread' = [thread EXCEPT ![h] = [Rest EXCEPT !.pc = "save", !.op = op, !.token = t, !.at = clock]]

-----------------------------------------------------------------------------
\* SessionManager.Create up to its save.
Created(h, t) ==
    /\ sessions' = With(sessions, t, clock + TTL)
    /\ lastSaved' = With(lastSaved, t, clock)
    /\ Saving(h, "use", t)

\* What a failed writeAtomicJSON leaves in memory.
Unset(p) == NoPassword

\* SetupHandler: SetPasswordIfUnset holds the lock from its test to the rename of the file.
Setup(h, p, t) ==
    /\ thread[h].pc = "idle" /\ t \in Tokens \ Issued /\ hash = NoPassword /\ authFile = NoPassword
    /\ hash' = p /\ authFile' = p /\ winner' = p
    /\ Created(h, t)
    /\ UNCHANGED <<sessionsFile, used, out, spoiled, mishaps, clock>>

SetupFails(p) ==
    /\ hash = NoPassword /\ authFile = NoPassword
    /\ hash' = Unset(p) /\ Mishap
    /\ UNCHANGED <<authFile, winner, sessions, lastSaved, sessionsFile, thread, used, out, spoiled, clock>>

\* LoginHandler with a password that Verify accepts.
Login(h, p, t) ==
    /\ thread[h].pc = "idle" /\ t \in Tokens \ Issued /\ p = hash /\ p \in Passwords
    /\ Created(h, t)
    /\ UNCHANGED <<passwordVars, sessionsFile, used, out, spoiled, mishaps, clock>>

\* Validate, behind Middleware and CheckHandler.  It saves a token once a minute.
NeedSave(t) == t \notin DOMAIN lastSaved \/ lastSaved[t] + Lag < clock

Valid(t) == t \in DOMAIN sessions /\ clock <= sessions[t]

ValidateOK(h, t) ==
    /\ thread[h].pc = "idle" /\ Valid(t)
    /\ sessions' = With(sessions, t, clock + TTL)
    /\ IF NeedSave(t) THEN /\ lastSaved' = With(lastSaved, t, clock)
                           /\ Saving(h, "use", t) /\ UNCHANGED used
                      ELSE used' = With(used, t, clock) /\ UNCHANGED <<lastSaved, thread>>
    /\ UNCHANGED <<passwordVars, sessionsFile, out, spoiled, mishaps, clock>>

ValidateExpired(t) ==
    /\ t \in DOMAIN sessions /\ ~Valid(t)
    /\ sessions' = Without(sessions, {t}) /\ lastSaved' = Without(lastSaved, {t})
    /\ UNCHANGED <<passwordVars, sessionsFile, thread, used, out, spoiled, mishaps, clock>>

\* Revoke, behind LogoutHandler, and Cleanup, every minute.  Both save.
AfterRevoke_Unsaved(h, t) == out' = out \cup {t} /\ UNCHANGED thread

AfterRevoke(h, t) == Saving(h, "out", t) /\ UNCHANGED out

Revoke(h, t) ==
    /\ thread[h].pc = "idle" /\ t \in DOMAIN used \ out
    /\ sessions' = Without(sessions, {t}) /\ lastSaved' = Without(lastSaved, {t})
    /\ AfterRevoke(h, t)
    /\ UNCHANGED <<passwordVars, sessionsFile, used, spoiled, mishaps, clock>>

Cleanup(h) ==
    LET expired == {t \in DOMAIN sessions : ~Valid(t)} IN
    /\ thread[h].pc = "idle" /\ sessions # sessionsFile
    /\ sessions' = Without(sessions, expired) /\ lastSaved' = Without(lastSaved, expired)
    /\ Saving(h, "none", NoToken)
    /\ UNCHANGED <<passwordVars, sessionsFile, used, out, spoiled, mishaps, clock>>

-----------------------------------------------------------------------------
\* save: the copy, under the lock.
SaveCopies(h) ==
    /\ thread[h].pc = "save"
    /\ thread' = [thread EXCEPT ![h].pc = "write", ![h].snap = sessions]
    /\ UNCHANGED <<passwordVars, sessions, lastSaved, sessionsFile, used, out, spoiled, mishaps, clock>>

\* save: the write, outside the lock, and the answer to the browser.  Its errors are dropped.
Answered(h) ==
    LET r == thread[h] IN
    /\ used' = IF r.op = "use" THEN With(used, r.token, r.at) ELSE used
    /\ out' = IF r.op = "out" THEN out \cup {r.token} ELSE out

SaveWrites(h) ==
    /\ thread[h].pc = "write"
    /\ sessionsFile' = thread[h].snap
    /\ thread' = [o \in Threads |-> IF o = h THEN Rest
                                    ELSE [thread[o] EXCEPT !.stale = thread[o].pc = "write"]]
    /\ spoiled' = (spoiled \/ thread[h].stale)
    /\ Answered(h)
    /\ UNCHANGED <<passwordVars, sessions, lastSaved, mishaps, clock>>

SaveFails(h) ==
    /\ thread[h].pc = "write" /\ Mishap
    /\ thread' = [thread EXCEPT ![h] = Rest]
    /\ spoiled' = TRUE
    /\ Answered(h)
    /\ UNCHANGED <<passwordVars, sessions, lastSaved, sessionsFile, clock>>

\* The server stops and starts.  sessions.json is written in place: cut off, it is empty.
LoadedFrom(f) == Without(f, {t \in DOMAIN f : ~(clock < f[t])})

ServerRestarts(torn) ==
    /\ Mishap
    /\ torn => \E h \in Threads : thread[h].pc = "write"
    /\ sessionsFile' = IF torn THEN <<>> ELSE sessionsFile
    /\ sessions' = LoadedFrom(sessionsFile') /\ lastSaved' = <<>>
    /\ hash' = authFile
    /\ spoiled' = (spoiled \/ \E h \in Threads : thread[h].pc # "idle")
    /\ thread' = [h \in Threads |-> Rest]
    /\ UNCHANGED <<authFile, winner, used, out, clock>>

LoginTick == ClockAdvances /\ UNCHANGED <<passwordVars, sessions, lastSaved, sessionsFile, thread, used, out, spoiled, mishaps>>

LoginNext ==
    \/ \E h \in Threads, p \in Passwords, t \in Tokens : Setup(h, p, t) \/ Login(h, p, t)
    \/ \E p \in Passwords : SetupFails(p)
    \/ \E h \in Threads, t \in Tokens : ValidateOK(h, t) \/ Revoke(h, t)
    \/ \E t \in Tokens : ValidateExpired(t)
    \/ \E h \in Threads : Cleanup(h) \/ SaveCopies(h) \/ SaveWrites(h) \/ SaveFails(h)
    \/ \E torn \in BOOLEAN : ServerRestarts(torn)
    \/ LoginTick

LoginSpec == LoginInit /\ [][LoginNext]_<<loginVars, clock>>

-----------------------------------------------------------------------------
(* One setup wins, for good: the password that opens the dashboard is the one *)
(* whose setup was answered, in memory and in auth.json, through failed       *)
(* writes and restarts, and without a winner nothing opens it.                *)
OneWinner == hash = winner /\ authFile = winner

(* A restart signs out no browser that used its session recently: between     *)
(* saves the file promises every session at least its last answered use plus  *)
(* the lifetime less a minute.  (A save overtaken by an older one, one that   *)
(* failed, and one a crash cut off break it.)                                 *)
SignInKept ==
    (~spoiled /\ \A h \in Threads : thread[h].pc = "idle") =>
        \A t \in DOMAIN used \ out :
            used[t] + TTL - Lag > clock => t \in DOMAIN sessionsFile /\ sessionsFile[t] >= used[t] + TTL - Lag

(* A session that was logged out opens nothing any more, neither now nor      *)
(* after a restart, under the same exceptions.                                *)
LogoutKept == ~spoiled => \A t \in out : t \notin DOMAIN sessions \cup DOMAIN sessionsFile

(* What authentication has answered stays answered: the first password, a     *)
(* login and a logout, over threads, failed saves and restarts.               *)
LoginInv == OneWinner /\ SignInKept /\ LogoutKept
=============================================================================
