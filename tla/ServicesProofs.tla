--------------------------- MODULE ServicesProofs ---------------------------
(***************************************************************************)
(* Proofs about the services of a server, each on its own: the requests to *)
(* peers, the wiki supervisor, the browser sessions, the limiter of the    *)
(* sign-ins, the scheduler and the tracker of the coding agents.           *)
(***************************************************************************)
EXTENDS PeerRequests, WikiSupervisor, LoginSessions, Limiter, Scheduler, ToolEvents, FiniteSetTheorems, TLAPS

-----------------------------------------------------------------------------
(* PeerRequests.  What makes AnswerKept inductive is that a request under way
   always has a channel, in the registry or already filled, and that nothing
   of it travels before it is registered; GrantServes needs the removal to be
   later than the grant, not only to be there. *)

RequestsTypes ==
  /\ stage \in [Requests -> {"idle", "registered", "waiting"} \cup Ended]
  /\ pending \subseteq Requests /\ asked \subseteq Requests
  /\ box \in [Requests -> SUBSET Answer]
  /\ answers \subseteq Answer /\ arrived \subseteq Requests
  /\ clock \in 1..MaxTime
  /\ grant \in [Files -> Nat] /\ removeAt \in [Files -> Nat]

\* A request is answered through its own channel, which is there until then.
ChannelThere ==
  /\ \A t \in Requests : stage[t] \in {"registered", "waiting"} => t \in pending \/ box[t] # {}
  /\ \A t \in asked : stage[t] # "idle"
  /\ \A a \in answers : stage[a.token] # "idle"

\* A directory outlives the grant for it.
GrantOutlived == \A t \in Files : Good(t) => removeAt[t] > grant[t]

RequestsIInv == RequestsTypes /\ PendingFreed /\ AnswerKept /\ ChannelThere /\ GrantOutlived

\* Every step of a handler, of the registry or of the host keeps the invariant.
LEMMA RequestsStep == RequestsIInv /\ [RequestsNext]_<<reqVars, clock>> => RequestsIInv'
<1> SUFFICES ASSUME RequestsIInv, [RequestsNext]_<<reqVars, clock>> PROVE RequestsIInv'
  OBVIOUS
<1> USE TimeAssumption, PeerRequestsAssumption
<1> USE DEF RequestsIInv, PendingFreed, AnswerKept, ChannelThere, GrantOutlived, Good, Ended
<1>1. ASSUME NEW t \in Requests, Begin(t)  PROVE RequestsIInv'
  BY <1>1 DEF Begin, AfterRegister, RequestsTypes
<1>2. ASSUME NEW t \in Requests, Ask(t)  PROVE RequestsIInv'
  <2>1. CASE stage' = [stage EXCEPT ![t] = "waiting"] /\ asked' = asked \cup {t} /\ UNCHANGED pending
    BY <1>2, <2>1 DEF Ask, RequestsTypes
  <2>2. CASE /\ stage' = [stage EXCEPT ![t] = "failed"] /\ pending' = pending \ {t}
             /\ UNCHANGED asked
    BY <1>2, <2>2 DEF Ask, RequestsTypes
  <2> QED  BY <1>2, <2>1, <2>2 DEF Ask, AfterCancel
<1>3. ASSUME NEW t \in Requests, Take(t)  PROVE RequestsIInv'
  <2>1. /\ UNCHANGED <<asked, answers, arrived, clock>>
        /\ box' = [box EXCEPT ![t] = {}] /\ pending' = pending \ {t}
        /\ \E result \in {"failed", "shown"} : stage' = [stage EXCEPT ![t] = result]
        /\ stage[t] = "waiting"
    BY <1>3 DEF Take, Conclude, AfterCancel
  <2>2. PendingFreed' /\ AnswerKept' /\ ChannelThere'
    BY <2>1 DEF RequestsTypes
  <2>3. /\ grant' \in [Files -> Nat] /\ removeAt' \in [Files -> Nat]
        /\ GrantOutlived'
    <3>1. CASE UNCHANGED <<grant, removeAt>>
      BY <2>1, <3>1 DEF RequestsTypes
    <3>2. CASE t \in Files /\ grant' = Granted(t) /\ removeAt' = [removeAt EXCEPT ![t] = RemovalTime(clock)]
      BY <2>1, <3>2 DEF RequestsTypes, Granted, RemovalTime
    <3> QED  BY <1>3, <3>1, <3>2 DEF Take
  <2>4. RequestsTypes'
    BY <2>1, <2>3 DEF RequestsTypes
  <2> QED  BY <2>2, <2>3, <2>4
<1>4. ASSUME NEW t \in Requests, GiveUp(t)  PROVE RequestsIInv'
  BY <1>4 DEF GiveUp, Conclude, AfterCancel, RequestsTypes
<1>5. ASSUME NEW t \in Requests, Serve(t)  PROVE RequestsIInv'
  BY <1>5 DEF Serve, RequestsTypes, Answer
<1>6. ASSUME NEW a \in answers, Deliver(a)  PROVE RequestsIInv'
  BY <1>6 DEF Deliver, RequestsTypes, Answer
<1>7. ASSUME NEW t \in Files, RemoveDir(t)  PROVE RequestsIInv'
  BY <1>7 DEF RemoveDir, Due, RequestsTypes
<1>8. ASSUME NEW t \in Files, Open(t)  PROVE RequestsIInv'
  BY <1>8 DEF Open, RequestsTypes
<1>9. CASE RequestsTick
  BY <1>9 DEF RequestsTick, ClockAdvances, RequestsTypes
<1>10. CASE UNCHANGED <<reqVars, clock>>
  BY <1>10 DEF reqVars, RequestsTypes
<1> QED  BY <1>1, <1>2, <1>3, <1>4, <1>5, <1>6, <1>7, <1>8, <1>9, <1>10 DEF RequestsNext

\* A request to a peer gets its own answer if one comes in time, leaves no
\* channel behind, and a good grant finds its file, for any number of requests
\* and however the answers, timeouts and removals are ordered.
THEOREM RequestsServed == RequestsSpec => []RequestsInv
<1> USE TimeAssumption, PeerRequestsAssumption
<1>1. RequestsInit => RequestsIInv
  BY DEF RequestsInit, RequestsIInv, RequestsTypes, PendingFreed, AnswerKept, ChannelThere,
         GrantOutlived, Good, Ended
<1>2. RequestsIInv => RequestsInv
  BY DEF RequestsIInv, RequestsInv, GrantOutlived, GrantServes, Good, RequestsTypes
<1> QED  BY <1>1, <1>2, RequestsStep, PTL DEF RequestsSpec

-----------------------------------------------------------------------------
(* WikiSupervisor.  Only the loop starts and reaps a child, and only between
   its states spawn and top; what the install and Stop may conclude from
   parked, cmd and cancelled follows from where the loop can then be. *)

\* The loop has a child only between spawning and reaping it, and has published
\* it only after the spawn.
LoopOwnsChild ==
  /\ loop \notin {"publish", "starting", "running"} => child = "none"
  /\ cmd => loop \in {"starting", "running"}
  /\ parked => loop \in Waits \cup {"gate", "top"}

\* From the staging on, an install holds the loop back; unless pause was
\* forced, the loop is out of the way during the swap.
InstallHolds ==
  /\ install \in {"pausing", "swap", "swapped", "resume"} => paused
  /\ install \in {"swap", "swapped", "resume"} /\ ~ forced =>
       loop \in Waits \cup {"gate", "top", "done"}

\* Who found no install goes on waiting only until the running one resumes it.
WakeUpDue ==
  loop \in {"park", "waitInstall"} /\ live = "whole" /\ ~ forced => install = "resume" \/ cancelled

\* Stop has cancelled the loop; one that had published a child starts no other.
StopHolds ==
  /\ stop # "no" => cancelled
  /\ stop \in {"waiting", "killing", "done"} /\ sawChild => loop \in {"starting", "running", "done"}
  /\ StopReaches

WikiIInv == LoopOwnsChild /\ InstallHolds /\ WakeUpDue /\ StopHolds

\* The loop keeps the invariant.
LEMMA LoopKeeps ==
  ASSUME WikiIInv,
         \/ LoopTop \/ LoopGate \/ LoopChecks \/ LoopParks \/ LoopSpawns \/ LoopSpawnFails
         \/ LoopPublishes \/ LoopStarted \/ LoopStartFails \/ LoopReaps \/ LoopRetries
  PROVE  WikiIInv'
<1> USE DEF WikiIInv, LoopOwnsChild, InstallHolds, WakeUpDue, StopHolds, StopReaches, Waits,
            dirs, flags, history, Alive
<1>1. CASE LoopTop         BY <1>1 DEF LoopTop
<1>2. CASE LoopGate        BY <1>2 DEF LoopGate
<1>3. CASE LoopChecks      BY <1>3 DEF LoopChecks
<1>4. CASE LoopParks       BY <1>4 DEF LoopParks
<1>5. CASE LoopSpawns      BY <1>5 DEF LoopSpawns
<1>6. CASE LoopSpawnFails  BY <1>6 DEF LoopSpawnFails
<1>7. CASE LoopPublishes   BY <1>7 DEF LoopPublishes
<1>8. CASE LoopStarted     BY <1>8 DEF LoopStarted
<1>9. CASE LoopStartFails  BY <1>9 DEF LoopStartFails
<1>10. CASE LoopReaps      BY <1>10 DEF LoopReaps
<1>11. CASE LoopRetries    BY <1>11 DEF LoopRetries
<1> QED  BY <1>1, <1>2, <1>3, <1>4, <1>5, <1>6, <1>7, <1>8, <1>9, <1>10, <1>11

\* The child, the install, Stop and a power loss keep the invariant.
LEMMA OthersKeep ==
  ASSUME WikiIInv,
         \/ ChildServes \/ ChildObeys \/ ChildExits
         \/ StartInstall \/ StageDone \/ PauseReturns \/ PauseGivesUp \/ CommitMovesAside
         \/ CommitGivesUp \/ CommitMovesIn \/ RemoverWorks \/ Resume \/ InstallReturns
         \/ StopCancels \/ StopReads \/ StopWaits \/ StopKills \/ PowerLoss
  PROVE  WikiIInv'
<1> USE DEF WikiIInv, LoopOwnsChild, InstallHolds, WakeUpDue, StopHolds, StopReaches, Waits,
            dirs, flags, history, Alive
<1>1. CASE ChildServes        BY <1>1 DEF ChildServes
<1>2. CASE ChildObeys         BY <1>2 DEF ChildObeys
<1>3. CASE ChildExits         BY <1>3 DEF ChildExits
<1>4. CASE StartInstall       BY <1>4 DEF StartInstall
<1>5. CASE StageDone          BY <1>5 DEF StageDone
<1>6. CASE PauseReturns       BY <1>6 DEF PauseReturns, Quiet
<1>7. CASE PauseGivesUp       BY <1>7 DEF PauseGivesUp
<1>8. CASE CommitMovesAside   BY <1>8 DEF CommitMovesAside, Put, MovedAside
<1>9. CASE CommitMovesIn      BY <1>9 DEF CommitMovesIn, Put
<1>10. CASE RemoverWorks      BY <1>10 DEF RemoverWorks
<1>11. CASE Resume            BY <1>11 DEF Resume, Woken
<1>12. CASE InstallReturns    BY <1>12 DEF InstallReturns, Woken
<1>13. CASE StopCancels       BY <1>13 DEF StopCancels
<1>14. CASE StopReads         BY <1>14 DEF StopReads, Woken
<1>15. CASE StopWaits         BY <1>15 DEF StopWaits, KillAfterWait
<1>16. CASE StopKills         BY <1>16 DEF StopKills
<1>17. CASE PowerLoss         BY <1>17 DEF PowerLoss, Fresh
<1>18. CASE CommitGivesUp     BY <1>18 DEF CommitGivesUp, Put, RecoverInstall
<1> QED  BY <1>1, <1>2, <1>3, <1>4, <1>5, <1>6, <1>7, <1>8, <1>9, <1>10, <1>11, <1>12, <1>13,
            <1>14, <1>15, <1>16, <1>17, <1>18

\* Every step of the supervisor keeps the invariant.
LEMMA WikiStep == WikiIInv /\ [WikiNext]_wikiVars => WikiIInv'
<1>1. ASSUME WikiIInv, WikiNext  PROVE WikiIInv'
  BY <1>1, LoopKeeps, OthersKeep DEF WikiNext
<1>2. ASSUME WikiIInv, UNCHANGED wikiVars  PROVE WikiIInv'
  BY <1>2 DEF WikiIInv, LoopOwnsChild, InstallHolds, WakeUpDue, StopHolds, StopReaches, Alive, wikiVars
<1> QED  BY <1>1, <1>2

\* The directory is not swapped under a child, Stop leaves no child it has seen
\* alive, and the loop does not sleep through an install, however often the
\* child exits, an install runs and the power is lost.
THEOREM SupervisorCoordinates == WikiSpec => []SupervisorInv
<1>1. WikiInit => WikiIInv
  BY DEF WikiInit, WikiIInv, LoopOwnsChild, InstallHolds, WakeUpDue, StopHolds, StopReaches
<1>2. WikiIInv => SupervisorInv
  BY DEF WikiIInv, LoopOwnsChild, InstallHolds, WakeUpDue, StopHolds, SupervisorInv, SwapAlone,
         InstallWakes, Alive, Waits
<1> QED  BY <1>1, <1>2, WikiStep, PTL DEF WikiSpec

\* Until a swap overlaps the remover of the one before: the live directory is
\* whole or absent, what is staged for the swap is whole, only a backup beside a
\* live directory is being removed or in pieces.
CopiesSound ==
  overlap \/
  /\ live \in {"absent", "whole"}
  /\ install \in {"pausing", "swap", "swapped"} => staged = "whole"
  /\ install = "swapped" => live = "absent"
  /\ remover => live = "whole"
  /\ old \in {"absent", "whole"} \/ live = "whole"

\* Every step of the supervisor keeps the copies sound, and the last whole one.
LEMMA CopiesStep ==
  ASSUME CopiesSound, [WikiNext]_wikiVars
  PROVE  /\ CopiesSound'
         /\ ("whole" \in {live, old} => "whole" \in {live, old}') \/ overlap'
<1> USE DEF CopiesSound
<1>1. CASE UNCHANGED <<dirs, install>>
  BY <1>1 DEF dirs
<1>2. CASE StartInstall       BY <1>2 DEF StartInstall
<1>3. CASE StageDone          BY <1>3 DEF StageDone
<1>4. CASE PauseReturns       BY <1>4 DEF PauseReturns, dirs
<1>5. CASE PauseGivesUp       BY <1>5 DEF PauseGivesUp, dirs
<1>6. CASE CommitMovesAside   BY <1>6 DEF CommitMovesAside, Put, MovedAside, RecoverInstall
<1>7. CASE CommitMovesIn      BY <1>7 DEF CommitMovesIn, Put, RecoverInstall
<1>8. CASE RemoverWorks       BY <1>8 DEF RemoverWorks
<1>9. CASE Resume             BY <1>9 DEF Resume, dirs
<1>10. CASE InstallReturns    BY <1>10 DEF InstallReturns, dirs
<1>11. CASE PowerLoss         BY <1>11 DEF PowerLoss, Fresh, Put, RecoverInstall
<1>12. CASE \/ LoopTop \/ LoopGate \/ LoopChecks \/ LoopParks \/ LoopSpawns \/ LoopSpawnFails
            \/ LoopPublishes \/ LoopStarted \/ LoopStartFails \/ LoopReaps \/ LoopRetries
  BY <1>1, <1>12 DEF LoopTop, LoopGate, LoopChecks, LoopParks, LoopSpawns, LoopSpawnFails,
                     LoopPublishes, LoopStarted, LoopStartFails, LoopReaps, LoopRetries
<1>13. CASE \/ ChildServes \/ ChildObeys \/ ChildExits
            \/ StopCancels \/ StopReads \/ StopWaits \/ StopKills
  BY <1>1, <1>13 DEF ChildServes, ChildObeys, ChildExits, StopCancels, StopReads, StopWaits,
                     StopKills
<1>14. CASE UNCHANGED wikiVars
  BY <1>1, <1>14 DEF wikiVars, dirs
<1>15. CASE CommitGivesUp     BY <1>15 DEF CommitGivesUp, Put, RecoverInstall
<1> QED  BY <1>2, <1>3, <1>4, <1>5, <1>6, <1>7, <1>8, <1>9, <1>10, <1>11, <1>12, <1>13, <1>14, <1>15
         DEF WikiNext

\* No step destroys the last whole copy of the viewer, through failing renames,
\* power losses and recoveries, unless a swap overlaps the last one's remover.
THEOREM LastCopySafe == WikiSpec => LastCopyKept
<1>1. WikiInit => CopiesSound
  BY DEF WikiInit, CopiesSound
<1>2. CopiesSound /\ [WikiNext]_wikiVars => CopiesSound'
  BY CopiesStep
<1>3. CopiesSound /\ [WikiNext]_wikiVars =>
        [("whole" \in {live, old} => "whole" \in {live, old}') \/ overlap']_wikiVars
  BY CopiesStep
<1> QED  BY <1>1, <1>2, <1>3, PTL DEF WikiSpec, LastCopyKept

-----------------------------------------------------------------------------
(* LoginSessions.  A file that will be written by a request that has not copied
   the map yet, or that holds a good copy, is as good as one that is written:
   Cover says so, and what a use promises is inductive in that form.  A copy that
   another write has overtaken dooms the promises, since its own write, its
   failure and a restart all count as the exceptions the properties name. *)

Stamps == UNION {[D -> Nat] : D \in SUBSET Tokens}

LoginTypes ==
  /\ sessions \in Stamps /\ lastSaved \in Stamps /\ sessionsFile \in Stamps /\ used \in Stamps
  /\ thread \in [Threads -> [pc: {"idle", "save", "write"}, snap: Stamps, stale: BOOLEAN,
                             op: {"none", "use", "out"}, token: Tokens \cup {NoToken}, at: Nat]]
  /\ out \subseteq Tokens /\ spoiled \in BOOLEAN /\ clock \in Nat
  /\ \A h \in Threads : thread[h].at <= clock /\ (thread[h].op # "none" => thread[h].token \in Tokens)
  /\ \A t \in DOMAIN used : used[t] <= clock

Doomed == spoiled \/ \E h \in Threads : thread[h].pc = "write" /\ thread[h].stale

\* f has t, good until v at least.
Holds(f, t, v) == t \in DOMAIN f /\ f[t] >= v

\* The file holds t until v, or will once the requests under way have saved.
Covers(th, file, t, v) ==
  \/ \E h \in Threads : th[h].pc = "save"
  \/ \E h \in Threads : th[h].pc = "write" /\ Holds(th[h].snap, t, v)
  \/ Holds(file, t, v) /\ \A h \in Threads : th[h].pc = "idle"

\* The sessions whose logout was answered or is under way.
LoggingOut(h) == thread[h].pc # "idle" /\ thread[h].op = "out"
Leavers == out \cup {thread[h].token : h \in {o \in Threads : LoggingOut(o)}}

\* What a use at instant n promises.
Promise(n) == n + TTL - Lag

\* The promise to t has run out by now, or t is leaving.
Void(now, leavers, t, n) == now >= Promise(n) \/ t \in leavers

\* A session that leaves is in no map that counts.
LeaversGone ==
  ~ spoiled =>
    /\ \A t \in Leavers : t \notin DOMAIN sessions
    /\ \A t \in out : t \notin DOMAIN sessionsFile
    /\ \A h \in Threads : thread[h].pc = "write" /\ ~ thread[h].stale =>
         /\ \A t \in out : t \notin DOMAIN thread[h].snap
         /\ thread[h].op = "out" => thread[h].token \notin DOMAIN thread[h].snap

\* What lastSaved records is in memory and covered.
SavedCovered ==
  ~ Doomed =>
    \A t \in DOMAIN lastSaved :
      /\ lastSaved[t] <= clock
      /\ Holds(sessions, t, lastSaved[t] + TTL)
      /\ Covers(thread, sessionsFile, t, lastSaved[t] + TTL)

\* What an answered use promised is in memory and covered.
UsesCovered ==
  ~ Doomed =>
    \A t \in DOMAIN used :
      \/ Void(clock, Leavers, t, used[t])
      \/ /\ Holds(sessions, t, Promise(used[t]))
         /\ Covers(thread, sessionsFile, t, Promise(used[t]))

\* What a use under way will promise is in memory and in the copy it writes.
UsesUnderWay ==
  ~ Doomed =>
    \A h \in Threads : thread[h].pc # "idle" /\ thread[h].op = "use" =>
      \/ Void(clock, Leavers, thread[h].token, thread[h].at)
      \/ /\ Holds(sessions, thread[h].token, Promise(thread[h].at))
         /\ thread[h].pc = "write" => Holds(thread[h].snap, thread[h].token, Promise(thread[h].at))

LoginIInv ==
  OneWinner /\ LoginTypes /\ LeaversGone /\ SavedCovered /\ UsesCovered /\ UsesUnderWay

ThreadRecord == [pc: {"idle", "save", "write"}, snap: Stamps, stale: BOOLEAN,
                 op: {"none", "use", "out"}, token: Tokens \cup {NoToken}, at: Nat]

\* g is f with t stamped v, and g is f without the stamps of s.
Stamped(g, f, t, v) ==
  /\ g \in Stamps /\ DOMAIN g = DOMAIN f \cup {t} /\ g[t] = v
  /\ \A x \in DOMAIN f \ {t} : g[x] = f[x]

Stripped(g, f, s) ==
  /\ g \in Stamps /\ DOMAIN g = DOMAIN f \ s
  /\ \A x \in DOMAIN f \ s : g[x] = f[x]

\* Writing one stamp.
LEMMA WithStamps ==
  ASSUME NEW f \in Stamps, NEW t \in Tokens, NEW v \in Nat
  PROVE  Stamped(With(f, t, v), f, t, v)
<1>1. DOMAIN f \in SUBSET Tokens /\ \A x \in DOMAIN f : f[x] \in Nat
  BY DEF Stamps
<1>2. With(f, t, v) \in [DOMAIN f \cup {t} -> Nat]
  BY <1>1 DEF With
<1>3. DOMAIN f \cup {t} \in SUBSET Tokens
  BY <1>1
<1>4. With(f, t, v) \in Stamps
  BY <1>2, <1>3 DEF Stamps
<1> QED  BY <1>4 DEF With, Stamped

\* Dropping stamps.
LEMMA WithoutStrips ==
  ASSUME NEW f \in Stamps, NEW s
  PROVE  Stripped(Without(f, s), f, s)
<1>1. DOMAIN f \in SUBSET Tokens /\ \A x \in DOMAIN f : f[x] \in Nat
  BY DEF Stamps
<1>2. Without(f, s) \in [DOMAIN f \ s -> Nat]
  BY <1>1 DEF Without
<1>3. DOMAIN f \ s \in SUBSET Tokens
  BY <1>1
<1>4. Without(f, s) \in Stamps
  BY <1>2, <1>3 DEF Stamps
<1> QED  BY <1>4 DEF Without, Stripped

\* What is known of a map of stamps.
LEMMA StampValues ==
  ASSUME NEW f \in Stamps
  PROVE  DOMAIN f \subseteq Tokens /\ \A x \in DOMAIN f : f[x] \in Nat
  BY DEF Stamps

\* No stamps.
LEMMA NoStamps == <<>> \in Stamps /\ DOMAIN <<>> = {}
<1>1. <<>> \in [{} -> Nat]  OBVIOUS
<1>2. {} \in SUBSET Tokens   OBVIOUS
<1> QED  BY <1>1, <1>2 DEF Stamps

\* Promises are natural numbers.
LEMMA PromiseNat ==
  ASSUME NEW n \in Nat
  PROVE  Promise(n) \in Nat /\ Promise(n) = n + (TTL - Lag) /\ TTL - Lag \in Nat /\ TTL \in Nat /\ Lag \in Nat
  BY LoginAssumption DEF Promise

-----------------------------------------------------------------------------
\* What a map keeps of another: every session that has not run out and does
\* not leave, for as long or from now on.
Carries(m, n, now, leavers) ==
  \A x \in DOMAIN m : \/ now > m[x]
                      \/ x \in leavers
                      \/ x \in DOMAIN n /\ (n[x] >= m[x] \/ n[x] >= now + TTL)

\* Promises in a map are promises in one that keeps it.
LEMMA CarriesPromise ==
  ASSUME NEW m \in Stamps, NEW n \in Stamps, NEW now \in Nat, NEW leavers, Carries(m, n, now, leavers),
         NEW x, NEW u \in Nat, u <= now, Holds(m, x, Promise(u)), ~ Void(now, leavers, x, u)
  PROVE  Holds(n, x, Promise(u))
<1>1. /\ m[x] \in Nat /\ (x \in DOMAIN n => n[x] \in Nat)
      /\ Promise(u) \in Nat /\ Promise(u) <= now + TTL /\ now + TTL \in Nat
  BY StampValues, PromiseNat DEF Holds
<1> QED  BY <1>1 DEF Holds, Carries, Void

\* A request that goes on to save covers every promise.  What is left to show
\* for it is that sessions' has no session that leaves, carries on what it had,
\* and has what lastSaved' and the request itself promise.
LEMMA SaveBegins ==
  ASSUME LoginIInv, NEW h \in Threads, NEW op \in {"none", "use", "out"},
         NEW t \in Tokens \cup {NoToken}, op # "none" => t \in Tokens,
         thread[h].pc = "idle", Saving(h, op, t),
         UNCHANGED <<sessionsFile, used, out, spoiled, clock>>, OneWinner',
         sessions' \in Stamps, lastSaved' \in Stamps,
         ~ spoiled => \A x \in DOMAIN sessions' : x \notin Leavers /\ ~ (op = "out" /\ x = t),
         Carries(sessions, sessions', clock, IF op = "out" THEN Leavers \cup {t} ELSE Leavers),
         ~ Doomed => \A x \in DOMAIN lastSaved' :
                       lastSaved'[x] <= clock /\ Holds(sessions', x, lastSaved'[x] + TTL),
         op = "use" => Holds(sessions', t, clock + TTL)
  PROVE  LoginIInv'
<1> DEFINE r == [Rest EXCEPT !.pc = "save", !.op = op, !.token = t, !.at = clock]
<1>1. /\ r \in ThreadRecord /\ r.pc = "save" /\ r.op = op /\ r.token = t /\ r.at = clock
      /\ ~ r.stale
  BY NoStamps DEF ThreadRecord, Rest, LoginIInv, LoginTypes
<1>2. thread' = [thread EXCEPT ![h] = r]
  BY DEF Saving
<1> HIDE DEF r
<1>3. thread' \in [Threads -> ThreadRecord] /\ \A o \in Threads \ {h} : thread'[o] = thread[o]
  BY <1>1, <1>2 DEF LoginIInv, LoginTypes, ThreadRecord
<1>4. thread'[h] = r
  BY <1>2 DEF LoginIInv, LoginTypes
<1>5. LoginTypes'
  BY <1>1, <1>3, <1>4 DEF LoginIInv, LoginTypes, ThreadRecord
<1>6. Doomed' <=> Doomed
  BY <1>1, <1>3, <1>4 DEF Doomed
<1>7. \A x, v : Covers(thread', sessionsFile', x, v)
  BY <1>1, <1>4 DEF Covers
<1>8. Leavers' = IF op = "out" THEN Leavers \cup {t} ELSE Leavers
  BY <1>1, <1>3, <1>4 DEF Leavers, LoggingOut
<1>9. LeaversGone'
  BY <1>1, <1>3, <1>4, <1>6, <1>8 DEF LeaversGone, LoginIInv
<1>10. SavedCovered'
  BY <1>6, <1>7 DEF SavedCovered, LoginIInv
<1>11. /\ sessions \in Stamps /\ clock \in Nat /\ clock' = clock
       /\ Carries(sessions, sessions', clock, Leavers')
  BY <1>8 DEF LoginIInv, LoginTypes
<1>12. \A x, n : Void(clock, Leavers, x, n) => Void(clock', Leavers', x, n)
  BY <1>8, <1>11 DEF Void
<1>13. UsesCovered'
  <2> SUFFICES ASSUME ~ Doomed, NEW x \in DOMAIN used, ~ Void(clock, Leavers', x, used[x])
               PROVE  Holds(sessions', x, Promise(used[x]))
    BY <1>6, <1>7, <1>11 DEF UsesCovered
  <2>1. used[x] \in Nat /\ used[x] <= clock
    BY StampValues DEF LoginIInv, LoginTypes
  <2>2. Holds(sessions, x, Promise(used[x]))
    BY <1>11, <1>12 DEF UsesCovered, LoginIInv
  <2> QED  BY <1>11, <2>1, <2>2, CarriesPromise
<1>14. UsesUnderWay'
  <2> SUFFICES ASSUME ~ Doomed, NEW o \in Threads, thread'[o].pc # "idle", thread'[o].op = "use",
                      ~ Void(clock, Leavers', thread'[o].token, thread'[o].at)
               PROVE  /\ Holds(sessions', thread'[o].token, Promise(thread'[o].at))
                      /\ thread'[o].pc = "write" =>
                           Holds(thread'[o].snap, thread'[o].token, Promise(thread'[o].at))
    BY <1>6, <1>11 DEF UsesUnderWay
  <2>1. CASE o = h
    <3>1. Promise(clock) \in Nat /\ Promise(clock) <= clock + TTL /\ clock + TTL \in Nat
      BY <1>11, PromiseNat
    <3>2. op = "use" /\ sessions'[t] \in Nat
      BY <1>1, <1>4, <2>1, StampValues DEF Holds
    <3> QED  BY <1>1, <1>4, <2>1, <3>1, <3>2 DEF Holds
  <2>2. CASE o # h
    <3>1. thread'[o] = thread[o] /\ thread[o].at \in Nat /\ thread[o].at <= clock
      BY <1>3, <2>2 DEF LoginIInv, LoginTypes
    <3>2. /\ Holds(sessions, thread[o].token, Promise(thread[o].at))
          /\ thread[o].pc = "write" => Holds(thread[o].snap, thread[o].token, Promise(thread[o].at))
      BY <1>11, <1>12, <3>1 DEF UsesUnderWay, LoginIInv
    <3> QED  BY <1>11, <3>1, <3>2, CarriesPromise
  <2> QED  BY <2>1, <2>2
<1> QED  BY <1>5, <1>9, <1>10, <1>13, <1>14 DEF LoginIInv

\* A login, by a first password or a later one, keeps the invariant: its token
\* is new.
LEMMA CreatedKeeps ==
  ASSUME LoginIInv, NEW h \in Threads, NEW t \in Tokens \ Issued, thread[h].pc = "idle",
         Created(h, t), UNCHANGED <<sessionsFile, used, out, spoiled, clock>>, OneWinner'
  PROVE  LoginIInv'
<1>1. clock \in Nat /\ clock + TTL \in Nat /\ sessions \in Stamps /\ lastSaved \in Stamps
  BY PromiseNat DEF LoginIInv, LoginTypes
<1>2. t \notin DOMAIN sessions /\ t \notin Leavers
  BY DEF Issued, Leavers
<1>3. /\ sessions' \in Stamps /\ lastSaved' \in Stamps
      /\ DOMAIN sessions' = DOMAIN sessions \cup {t} /\ sessions'[t] = clock + TTL
      /\ \A x \in DOMAIN sessions \ {t} : sessions'[x] = sessions[x]
      /\ DOMAIN lastSaved' = DOMAIN lastSaved \cup {t} /\ lastSaved'[t] = clock
      /\ \A x \in DOMAIN lastSaved \ {t} : lastSaved'[x] = lastSaved[x]
  <2>1. sessions' = With(sessions, t, clock + TTL) /\ lastSaved' = With(lastSaved, t, clock)
    BY DEF Created
  <2>2. Stamped(sessions', sessions, t, clock + TTL)
    BY <1>1, <2>1, WithStamps, Zenon
  <2>3. Stamped(lastSaved', lastSaved, t, clock)
    BY <1>1, <2>1, WithStamps, Zenon
  <2> QED  BY <2>2, <2>3 DEF Stamped
<1>4. Carries(sessions, sessions', clock, Leavers)
  BY <1>1, <1>2, <1>3, StampValues DEF Carries
<1>5. ~ spoiled => \A x \in DOMAIN sessions' : x \notin Leavers
  BY <1>2, <1>3 DEF LoginIInv, LeaversGone
<1>6. ASSUME ~ Doomed, NEW x \in DOMAIN lastSaved'
      PROVE  lastSaved'[x] <= clock /\ Holds(sessions', x, lastSaved'[x] + TTL)
  <2>1. CASE x = t  BY <1>1, <1>3, <2>1 DEF Holds
  <2>2. CASE x # t  BY <1>3, <1>6, <2>2 DEF LoginIInv, SavedCovered, Holds
  <2> QED  BY <2>1, <2>2
<1>7. Holds(sessions', t, clock + TTL)
  BY <1>1, <1>3 DEF Holds
<1> QED  BY <1>3, <1>4, <1>5, <1>6, <1>7, SaveBegins DEF Created

\* Setup and login keep the invariant.
LEMMA EntryKeeps ==
  ASSUME LoginIInv, NEW h \in Threads, NEW p \in Passwords, NEW t \in Tokens,
         Setup(h, p, t) \/ Login(h, p, t)
  PROVE  LoginIInv'
<1>1. OneWinner'
  BY DEF Setup, Login, passwordVars, OneWinner, LoginIInv
<1> QED  BY <1>1, CreatedKeeps DEF Setup, Login

\* A use of a session keeps the invariant, whether it saves or not: one that
\* does not is covered by the save that lastSaved records.
LEMMA ValidateKeeps ==
  ASSUME LoginIInv, NEW h \in Threads, NEW t \in Tokens, ValidateOK(h, t)
  PROVE  LoginIInv'
<1>1. /\ clock \in Nat /\ clock + TTL \in Nat /\ sessions \in Stamps /\ lastSaved \in Stamps
      /\ used \in Stamps
  BY PromiseNat DEF LoginIInv, LoginTypes
<1>2. /\ UNCHANGED <<sessionsFile, out, spoiled, clock>> /\ OneWinner' /\ thread[h].pc = "idle"
      /\ t \in DOMAIN sessions
  BY DEF ValidateOK, Valid, OneWinner, passwordVars, LoginIInv
<1>3. /\ sessions' \in Stamps
      /\ DOMAIN sessions' = DOMAIN sessions /\ sessions'[t] = clock + TTL
      /\ \A x \in DOMAIN sessions \ {t} : sessions'[x] = sessions[x]
  <2>1. sessions' = With(sessions, t, clock + TTL)
    BY DEF ValidateOK
  <2>2. Stamped(sessions', sessions, t, clock + TTL)
    BY <1>1, <2>1, WithStamps, Zenon
  <2> QED  BY <1>2, <2>2 DEF Stamped
<1>4. Carries(sessions, sessions', clock, Leavers)
  BY <1>1, <1>3, StampValues DEF Carries
<1>5. ~ spoiled => \A x \in DOMAIN sessions' : x \notin Leavers
  BY <1>3 DEF LoginIInv, LeaversGone
<1>6. Holds(sessions', t, clock + TTL)
  BY <1>1, <1>2, <1>3 DEF Holds
<1>7. ASSUME ~ Doomed, NEW x \in DOMAIN lastSaved
      PROVE  lastSaved[x] <= clock /\ Holds(sessions', x, lastSaved[x] + TTL)
  <2>1. lastSaved[x] <= clock /\ lastSaved[x] \in Nat /\ Holds(sessions, x, lastSaved[x] + TTL)
    BY <1>1, <1>7, StampValues DEF LoginIInv, SavedCovered
  <2>2. CASE x = t  BY <1>1, <1>2, <1>3, <2>1, <2>2, LoginAssumption DEF Holds
  <2>3. CASE x # t  BY <1>3, <2>1, <2>3 DEF Holds
  <2> QED  BY <2>1, <2>2, <2>3
<1>8. CASE NeedSave(t)
  <2>1. UNCHANGED used /\ Saving(h, "use", t) /\ lastSaved' = With(lastSaved, t, clock)
    BY <1>8 DEF ValidateOK
  <2>2. /\ lastSaved' \in Stamps
        /\ DOMAIN lastSaved' = DOMAIN lastSaved \cup {t} /\ lastSaved'[t] = clock
        /\ \A x \in DOMAIN lastSaved \ {t} : lastSaved'[x] = lastSaved[x]
    <3>1. Stamped(lastSaved', lastSaved, t, clock)
      BY <1>1, <2>1, WithStamps, Zenon
    <3> QED  BY <3>1 DEF Stamped
  <2>3. ASSUME ~ Doomed, NEW x \in DOMAIN lastSaved'
        PROVE  lastSaved'[x] <= clock /\ Holds(sessions', x, lastSaved'[x] + TTL)
    BY <1>1, <1>6, <1>7, <2>2, <2>3
  <2> QED  BY <1>2, <1>3, <1>4, <1>5, <1>6, <2>1, <2>2, <2>3, SaveBegins
<1>9. CASE ~ NeedSave(t)
  <2>1. used' = With(used, t, clock) /\ UNCHANGED <<lastSaved, thread>>
    BY <1>9 DEF ValidateOK
  <2>2. /\ used' \in Stamps /\ DOMAIN used' = DOMAIN used \cup {t} /\ used'[t] = clock
        /\ \A x \in DOMAIN used \ {t} : used'[x] = used[x]
    <3>1. Stamped(used', used, t, clock)
      BY <1>1, <2>1, WithStamps, Zenon
    <3> QED  BY <3>1 DEF Stamped
  <2>3. LoginTypes'
    <3>1. \A x \in DOMAIN used' : used'[x] <= clock'
      BY <1>1, <1>2, <2>2 DEF LoginIInv, LoginTypes
    <3> QED  BY <1>2, <1>3, <2>1, <2>2, <3>1 DEF LoginIInv, LoginTypes
  <2>4. (Doomed' <=> Doomed) /\ Leavers' = Leavers
    BY <1>2, <2>1 DEF Doomed, Leavers, LoggingOut
  <2>5. LeaversGone'
    BY <1>2, <1>5, <2>1, <2>4 DEF LoginIInv, LeaversGone
  <2>6. SavedCovered'
    BY <1>2, <1>7, <2>1, <2>4 DEF LoginIInv, SavedCovered
  <2>7. ASSUME NEW x, NEW u \in Nat, u <= clock, Holds(sessions, x, Promise(u)),
               ~ Void(clock, Leavers, x, u)
        PROVE  Holds(sessions', x, Promise(u))
    BY <1>1, <1>3, <1>4, <2>7, CarriesPromise
  <2>8. UsesCovered'
    <3> SUFFICES ASSUME ~ Doomed, NEW x \in DOMAIN used', ~ Void(clock, Leavers, x, used'[x])
                 PROVE  /\ Holds(sessions', x, Promise(used'[x]))
                        /\ Covers(thread, sessionsFile, x, Promise(used'[x]))
      BY <1>2, <2>1, <2>4 DEF UsesCovered
    <3>1. CASE x # t
      <4>1. x \in DOMAIN used /\ used'[x] = used[x] /\ used[x] \in Nat /\ used[x] <= clock
        BY <2>2, <3>1, StampValues DEF LoginIInv, LoginTypes
      <4>2. /\ Holds(sessions, x, Promise(used[x]))
            /\ Covers(thread, sessionsFile, x, Promise(used[x]))
        BY <4>1 DEF UsesCovered, LoginIInv
      <4> QED  BY <2>7, <4>1, <4>2
    <3>2. CASE x = t
      <4>1. /\ t \in DOMAIN lastSaved /\ clock <= lastSaved[t] + Lag /\ lastSaved[t] \in Nat
        BY <1>1, <1>9, StampValues, LoginAssumption DEF NeedSave
      <4>2. Covers(thread, sessionsFile, t, lastSaved[t] + TTL)
        BY <4>1 DEF SavedCovered, LoginIInv
      <4>3. /\ Promise(clock) \in Nat /\ Promise(clock) <= lastSaved[t] + TTL
            /\ Promise(clock) <= clock + TTL /\ lastSaved[t] + TTL \in Nat
        BY <1>1, <4>1, PromiseNat
      <4>4. \A f \in Stamps : Holds(f, t, lastSaved[t] + TTL) => Holds(f, t, Promise(clock))
        BY <4>3, StampValues DEF Holds
      <4>5. Covers(thread, sessionsFile, t, Promise(clock))
        BY <4>2, <4>4 DEF Covers, LoginIInv, LoginTypes
      <4>6. Holds(sessions', t, Promise(clock))
        BY <1>1, <1>2, <1>3, <4>3 DEF Holds
      <4> QED  BY <2>2, <3>2, <4>5, <4>6
    <3> QED  BY <3>1, <3>2
  <2>9. UsesUnderWay'
    <3> SUFFICES ASSUME ~ Doomed, NEW o \in Threads, thread[o].pc # "idle", thread[o].op = "use",
                        ~ Void(clock, Leavers, thread[o].token, thread[o].at)
                 PROVE  /\ Holds(sessions', thread[o].token, Promise(thread[o].at))
                        /\ thread[o].pc = "write" =>
                             Holds(thread[o].snap, thread[o].token, Promise(thread[o].at))
      BY <1>2, <2>1, <2>4 DEF UsesUnderWay
    <3>1. thread[o].at \in Nat /\ thread[o].at <= clock
      BY DEF LoginIInv, LoginTypes
    <3> QED  BY <2>7, <3>1 DEF UsesUnderWay, LoginIInv
  <2> QED  BY <1>2, <2>3, <2>5, <2>6, <2>8, <2>9 DEF LoginIInv
<1> QED  BY <1>8, <1>9

\* A request that drops sessions and goes on to save keeps the invariant when
\* they had expired, or when it logs one out.
LEMMA DropsKeep ==
  ASSUME LoginIInv, NEW h \in Threads, NEW op \in {"none", "out"}, NEW s,
         NEW t \in Tokens \cup {NoToken}, op # "none" => t \in Tokens /\ t \in s,
         thread[h].pc = "idle", Saving(h, op, t),
         UNCHANGED <<sessionsFile, used, out, spoiled, clock>>, OneWinner',
         sessions' = Without(sessions, s), lastSaved' = Without(lastSaved, s),
         \A x \in DOMAIN sessions \cap s : clock > sessions[x] \/ (op = "out" /\ x = t)
  PROVE  LoginIInv'
<1>1. sessions \in Stamps /\ lastSaved \in Stamps
  BY DEF LoginIInv, LoginTypes
<1>2. Stripped(sessions', sessions, s)
  BY <1>1, WithoutStrips, Zenon
<1>3. Stripped(lastSaved', lastSaved, s)
  BY <1>1, WithoutStrips, Zenon
<1>4. sessions' \in Stamps /\ lastSaved' \in Stamps
  BY <1>2, <1>3 DEF Stripped
<1>5. ~ spoiled => \A x \in DOMAIN sessions' : x \notin Leavers /\ ~ (op = "out" /\ x = t)
  BY <1>2 DEF LoginIInv, LeaversGone, Stripped
<1>6. Carries(sessions, sessions', clock, IF op = "out" THEN Leavers \cup {t} ELSE Leavers)
  <2> SUFFICES ASSUME NEW x \in DOMAIN sessions, ~ (clock > sessions[x]), ~ (op = "out" /\ x = t)
               PROVE  x \in DOMAIN sessions' /\ sessions'[x] >= sessions[x]
    BY DEF Carries
  <2>1. x \notin s /\ sessions[x] \in Nat
    BY <1>1, StampValues
  <2> QED  BY <1>2, <2>1 DEF Stripped
<1>7. ASSUME ~ Doomed, NEW x \in DOMAIN lastSaved'
      PROVE  lastSaved'[x] <= clock /\ Holds(sessions', x, lastSaved'[x] + TTL)
  <2>1. x \in DOMAIN lastSaved /\ x \notin s /\ lastSaved'[x] = lastSaved[x]
    BY <1>3, <1>7 DEF Stripped
  <2>2. lastSaved[x] <= clock /\ Holds(sessions, x, lastSaved[x] + TTL)
    BY <1>7, <2>1 DEF LoginIInv, SavedCovered
  <2> QED  BY <1>2, <2>1, <2>2 DEF Holds, Stripped
<1> QED  BY <1>4, <1>5, <1>6, <1>7, SaveBegins

\* Logging out keeps the invariant.
LEMMA RevokeKeeps ==
  ASSUME LoginIInv, NEW h \in Threads, NEW t \in Tokens, Revoke(h, t)
  PROVE  LoginIInv'
<1>1. OneWinner'
  BY DEF Revoke, passwordVars, OneWinner, LoginIInv
<1>2. /\ thread[h].pc = "idle" /\ Saving(h, "out", t)
      /\ UNCHANGED <<sessionsFile, used, out, spoiled, clock>>
      /\ sessions' = Without(sessions, {t}) /\ lastSaved' = Without(lastSaved, {t})
  BY DEF Revoke, AfterRevoke
<1>3. \A x \in DOMAIN sessions \cap {t} : clock > sessions[x] \/ ("out" = "out" /\ x = t)
  OBVIOUS
<1> QED  BY <1>1, <1>2, <1>3, DropsKeep

\* So does the sweep.
LEMMA CleanupKeeps ==
  ASSUME LoginIInv, NEW h \in Threads, Cleanup(h)
  PROVE  LoginIInv'
<1> DEFINE s == {t \in DOMAIN sessions : ~ Valid(t)}
<1>1. OneWinner'
  BY DEF Cleanup, passwordVars, OneWinner, LoginIInv
<1>2. /\ thread[h].pc = "idle" /\ Saving(h, "none", NoToken)
      /\ UNCHANGED <<sessionsFile, used, out, spoiled, clock>>
      /\ sessions' = Without(sessions, s) /\ lastSaved' = Without(lastSaved, s)
  BY DEF Cleanup
<1>3. \A x \in DOMAIN sessions \cap s : clock > sessions[x]
  <2>1. sessions \in Stamps /\ clock \in Nat
    BY DEF LoginIInv, LoginTypes
  <2> QED  BY <2>1, StampValues DEF Valid
<1> HIDE DEF s
<1> QED  BY <1>1, <1>2, <1>3, DropsKeep

\* And the use of a session that has expired.
LEMMA ExpiredKeeps ==
  ASSUME LoginIInv, NEW t \in Tokens, ValidateExpired(t)
  PROVE  LoginIInv'
<1>1. /\ UNCHANGED <<sessionsFile, thread, used, out, spoiled, clock>> /\ OneWinner'
      /\ sessions' = Without(sessions, {t}) /\ lastSaved' = Without(lastSaved, {t})
      /\ t \in DOMAIN sessions /\ ~ (clock <= sessions[t])
  BY DEF ValidateExpired, Valid, passwordVars, OneWinner, LoginIInv
<1>2. sessions \in Stamps /\ lastSaved \in Stamps /\ clock \in Nat
  BY DEF LoginIInv, LoginTypes
<1>3. Stripped(sessions', sessions, {t})
  BY <1>1, <1>2, WithoutStrips, Zenon
<1>4. Stripped(lastSaved', lastSaved, {t})
  BY <1>1, <1>2, WithoutStrips, Zenon
<1>5. LoginTypes'
  BY <1>1, <1>3, <1>4 DEF LoginIInv, LoginTypes, Stripped
<1>6. (Doomed' <=> Doomed) /\ Leavers' = Leavers
  BY <1>1 DEF Doomed, Leavers, LoggingOut
<1>7. LeaversGone'
  BY <1>1, <1>3, <1>6 DEF LoginIInv, LeaversGone, Stripped
<1>8. SavedCovered'
  <2> SUFFICES ASSUME ~ Doomed, NEW x \in DOMAIN lastSaved'
               PROVE  /\ lastSaved'[x] <= clock /\ Holds(sessions', x, lastSaved'[x] + TTL)
                      /\ Covers(thread, sessionsFile, x, lastSaved'[x] + TTL)
    BY <1>1, <1>6 DEF SavedCovered
  <2>1. x \in DOMAIN lastSaved /\ x # t /\ lastSaved'[x] = lastSaved[x]
    BY <1>4 DEF Stripped
  <2>2. /\ lastSaved[x] <= clock /\ Holds(sessions, x, lastSaved[x] + TTL)
        /\ Covers(thread, sessionsFile, x, lastSaved[x] + TTL)
    BY <2>1 DEF LoginIInv, SavedCovered
  <2> QED  BY <1>3, <2>1, <2>2 DEF Holds, Stripped
<1>9. Carries(sessions, sessions', clock, Leavers)
  BY <1>1, <1>2, <1>3, StampValues DEF Carries, Stripped
<1>10. sessions' \in Stamps
  BY <1>3 DEF Stripped
<1>11. ASSUME NEW x, NEW u \in Nat, u <= clock, Holds(sessions, x, Promise(u)),
              ~ Void(clock, Leavers, x, u)
       PROVE  Holds(sessions', x, Promise(u))
  BY <1>2, <1>9, <1>10, <1>11, CarriesPromise
<1>12. UsesCovered'
  <2> SUFFICES ASSUME ~ Doomed, NEW x \in DOMAIN used, ~ Void(clock, Leavers, x, used[x])
               PROVE  /\ Holds(sessions', x, Promise(used[x]))
                      /\ Covers(thread, sessionsFile, x, Promise(used[x]))
    BY <1>1, <1>6 DEF UsesCovered
  <2>1. used[x] \in Nat /\ used[x] <= clock
    BY StampValues DEF LoginIInv, LoginTypes
  <2> QED  BY <1>11, <2>1 DEF UsesCovered, LoginIInv
<1>13. UsesUnderWay'
  <2> SUFFICES ASSUME ~ Doomed, NEW o \in Threads, thread[o].pc # "idle", thread[o].op = "use",
                      ~ Void(clock, Leavers, thread[o].token, thread[o].at)
               PROVE  /\ Holds(sessions', thread[o].token, Promise(thread[o].at))
                      /\ thread[o].pc = "write" =>
                           Holds(thread[o].snap, thread[o].token, Promise(thread[o].at))
    BY <1>1, <1>6 DEF UsesUnderWay
  <2>1. thread[o].at \in Nat /\ thread[o].at <= clock
    BY DEF LoginIInv, LoginTypes
  <2> QED  BY <1>11, <2>1 DEF UsesUnderWay, LoginIInv
<1> QED  BY <1>1, <1>5, <1>7, <1>8, <1>12, <1>13 DEF LoginIInv

\* The copy holds what memory holds, and no session that leaves.
LEMMA CopyKeeps ==
  ASSUME LoginIInv, NEW h \in Threads, SaveCopies(h)
  PROVE  LoginIInv'
<1> DEFINE r == [thread[h] EXCEPT !.pc = "write", !.snap = sessions]
<1>1. /\ UNCHANGED <<sessions, lastSaved, sessionsFile, used, out, spoiled, clock>> /\ OneWinner'
      /\ thread[h].pc = "save"
  BY DEF SaveCopies, passwordVars, OneWinner, LoginIInv
<1>2. /\ r \in ThreadRecord /\ r.pc = "write" /\ r.snap = sessions /\ r.op = thread[h].op
      /\ r.token = thread[h].token /\ r.at = thread[h].at
  BY DEF LoginIInv, LoginTypes, ThreadRecord
<1>3. thread' = [thread EXCEPT ![h] = r]
  BY DEF SaveCopies, LoginIInv, LoginTypes
<1> HIDE DEF r
<1>4. thread' \in [Threads -> ThreadRecord] /\ \A o \in Threads \ {h} : thread'[o] = thread[o]
  BY <1>2, <1>3 DEF LoginIInv, LoginTypes, ThreadRecord
<1>5. thread'[h] = r
  BY <1>3 DEF LoginIInv, LoginTypes
<1>6. LoginTypes'
  BY <1>1, <1>2, <1>4, <1>5 DEF LoginIInv, LoginTypes, ThreadRecord
<1>7. Doomed => Doomed'
  BY <1>1, <1>4 DEF Doomed
<1>8. Leavers' = Leavers
  BY <1>1, <1>2, <1>4, <1>5 DEF Leavers, LoggingOut
<1>9. LeaversGone'
  <2>1. ~ spoiled => \A x \in DOMAIN sessions : x \notin out /\ (thread[h].op = "out" => x # thread[h].token)
    BY <1>1 DEF LoginIInv, LeaversGone, Leavers, LoggingOut
  <2> QED  BY <1>1, <1>2, <1>4, <1>5, <1>8, <2>1 DEF LoginIInv, LeaversGone
<1>10. \A x, v : Holds(sessions, x, v) => Covers(thread', sessionsFile', x, v)
  BY <1>2, <1>5 DEF Covers
<1>11. SavedCovered'
  BY <1>1, <1>7, <1>10 DEF LoginIInv, SavedCovered
<1>12. UsesCovered'
  BY <1>1, <1>7, <1>8, <1>10 DEF LoginIInv, UsesCovered
<1>13. UsesUnderWay'
  BY <1>1, <1>2, <1>4, <1>5, <1>7, <1>8 DEF LoginIInv, UsesUnderWay
<1> QED  BY <1>1, <1>6, <1>9, <1>11, <1>12, <1>13 DEF LoginIInv

\* The answer keeps the types.
LEMMA AnswerTypes ==
  ASSUME LoginIInv, NEW h \in Threads, Answered(h)
  PROVE  /\ used' \in Stamps /\ out' \subseteq Tokens
         /\ \A x \in DOMAIN used' : used'[x] <= clock
         /\ thread[h].op = "use" => Stamped(used', used, thread[h].token, thread[h].at)
<1>1. /\ used \in Stamps /\ out \subseteq Tokens /\ thread[h].at \in Nat /\ thread[h].at <= clock
      /\ thread[h].op # "none" => thread[h].token \in Tokens
      /\ \A x \in DOMAIN used : used[x] <= clock
  BY DEF LoginIInv, LoginTypes
<1>2. CASE thread[h].op = "use"
  <2>1. thread[h].token \in Tokens /\ used' = With(used, thread[h].token, thread[h].at) /\ out' = out
    BY <1>1, <1>2 DEF Answered
  <2>2. Stamped(used', used, thread[h].token, thread[h].at)
    BY <1>1, <2>1, WithStamps, Zenon
  <2> QED  BY <1>1, <2>1, <2>2 DEF Stamped
<1>3. CASE thread[h].op # "use"
  BY <1>1, <1>3 DEF Answered
<1> QED  BY <1>2, <1>3

\* A write that nobody overtook leaves in the file what its copy holds.
LEMMA WriteKeeps ==
  ASSUME LoginIInv, NEW h \in Threads, SaveWrites(h)
  PROVE  LoginIInv'
<1> DEFINE rest(o) == [thread[o] EXCEPT !.stale = thread[o].pc = "write"]
<1>1. /\ UNCHANGED <<sessions, lastSaved, clock>> /\ OneWinner' /\ sessionsFile' = thread[h].snap
      /\ spoiled' = (spoiled \/ thread[h].stale) /\ thread[h].pc = "write" /\ Answered(h)
  BY DEF SaveWrites, passwordVars, OneWinner, LoginIInv
<1>2. Rest \in ThreadRecord /\ Rest.pc = "idle" /\ Rest.op = "none" /\ Rest.at = 0
  BY NoStamps DEF ThreadRecord, Rest
<1>3. \A o \in Threads :
        /\ rest(o) \in ThreadRecord /\ rest(o).pc = thread[o].pc /\ rest(o).op = thread[o].op
        /\ rest(o).token = thread[o].token /\ rest(o).at = thread[o].at
        /\ rest(o).snap = thread[o].snap /\ (rest(o).stale <=> thread[o].pc = "write")
  BY DEF LoginIInv, LoginTypes, ThreadRecord
<1>4. thread' = [o \in Threads |-> IF o = h THEN Rest ELSE rest(o)]
  BY DEF SaveWrites
<1> HIDE DEF rest
<1>5. /\ thread' \in [Threads -> ThreadRecord] /\ thread'[h] = Rest
      /\ \A o \in Threads \ {h} : thread'[o] = rest(o)
  BY <1>2, <1>3, <1>4
<1>6. LoginTypes'
  <2>1. thread[h].snap \in Stamps /\ spoiled' \in BOOLEAN /\ clock \in Nat
    BY <1>1 DEF LoginIInv, LoginTypes
  <2>2. \A o \in Threads : thread'[o].at <= clock /\ (thread'[o].op # "none" => thread'[o].token \in Tokens)
    BY <1>2, <1>3, <1>5, <2>1 DEF LoginIInv, LoginTypes
  <2> QED  BY <1>1, <1>5, <2>1, <2>2, AnswerTypes DEF LoginIInv, LoginTypes, ThreadRecord
<1>7. ~ Doomed' => /\ ~ Doomed
                   /\ \A o \in Threads \ {h} : thread[o].pc # "write"
  BY <1>1, <1>3, <1>5 DEF Doomed
<1>8. out' = out \cup {thread[o].token : o \in {o \in {h} : thread[o].op = "out"}}
  BY <1>1 DEF Answered
<1>9. Leavers' = Leavers
  BY <1>1, <1>2, <1>3, <1>5, <1>8 DEF Leavers, LoggingOut
<1>10. LeaversGone'
  <2> SUFFICES ASSUME ~ spoiled, ~ thread[h].stale
               PROVE  /\ \A t \in Leavers : t \notin DOMAIN sessions
                      /\ \A t \in out' : t \notin DOMAIN thread[h].snap
                      /\ \A o \in Threads : ~ (thread'[o].pc = "write" /\ ~ thread'[o].stale)
    BY <1>1, <1>9 DEF LeaversGone
  <2>1. \A o \in Threads : ~ (thread'[o].pc = "write" /\ ~ thread'[o].stale)
    BY <1>2, <1>3, <1>5
  <2>2. \A t \in out' : t \notin DOMAIN thread[h].snap
    BY <1>1, <1>8 DEF LoginIInv, LeaversGone
  <2> QED  BY <2>1, <2>2 DEF LoginIInv, LeaversGone
<1>11. ASSUME ~ Doomed', NEW x, NEW v, Holds(thread[h].snap, x, v)
       PROVE  Covers(thread', sessionsFile', x, v)
  BY <1>1, <1>2, <1>3, <1>5, <1>7, <1>11 DEF Covers, LoginIInv, LoginTypes
<1>12. ASSUME ~ Doomed', NEW x, NEW v, Covers(thread, sessionsFile, x, v)
       PROVE  Covers(thread', sessionsFile', x, v)
  <2>1. CASE \E o \in Threads : thread[o].pc = "save"
    BY <1>1, <1>3, <1>5, <2>1 DEF Covers
  <2>2. CASE \E o \in Threads : thread[o].pc = "write" /\ Holds(thread[o].snap, x, v)
    BY <1>7, <1>11, <1>12, <2>2
  <2> QED  BY <1>1, <1>12, <2>1, <2>2 DEF Covers
<1>13. SavedCovered'
  BY <1>1, <1>7, <1>12 DEF LoginIInv, SavedCovered
<1>14. UsesCovered'
  <2> SUFFICES ASSUME ~ Doomed', NEW x \in DOMAIN used', ~ Void(clock, Leavers, x, used'[x])
               PROVE  /\ Holds(sessions, x, Promise(used'[x]))
                      /\ Covers(thread', sessionsFile', x, Promise(used'[x]))
    BY <1>1, <1>9 DEF UsesCovered
  <2>1. CASE x \in DOMAIN used /\ used'[x] = used[x]
    BY <1>7, <1>12, <2>1 DEF LoginIInv, UsesCovered
  <2>2. CASE thread[h].op = "use" /\ x = thread[h].token /\ used'[x] = thread[h].at
    BY <1>1, <1>7, <1>11, <2>2 DEF LoginIInv, UsesUnderWay
  <2>3. CASE thread[h].op # "use"
    BY <1>1, <2>1, <2>3 DEF Answered
  <2>4. CASE thread[h].op = "use"
    BY <1>1, <2>1, <2>2, <2>4, AnswerTypes DEF Stamped
  <2> QED  BY <2>3, <2>4
<1>15. UsesUnderWay'
  BY <1>1, <1>2, <1>3, <1>5, <1>7, <1>9 DEF LoginIInv, UsesUnderWay
<1> QED  BY <1>1, <1>6, <1>10, <1>13, <1>14, <1>15 DEF LoginIInv

\* A failed write spoils the run; only the types are left to keep.
LEMMA FailKeeps ==
  ASSUME LoginIInv, NEW h \in Threads, SaveFails(h)
  PROVE  LoginIInv'
<1>1. /\ UNCHANGED <<sessions, lastSaved, sessionsFile, clock>> /\ OneWinner' /\ spoiled' = TRUE
      /\ thread' = [thread EXCEPT ![h] = Rest] /\ Answered(h)
  BY DEF SaveFails, passwordVars, OneWinner, LoginIInv
<1>2. Rest \in ThreadRecord /\ Rest.op = "none" /\ Rest.at = 0
  BY NoStamps DEF ThreadRecord, Rest
<1>3. /\ thread' \in [Threads -> ThreadRecord] /\ thread'[h] = Rest
      /\ \A o \in Threads \ {h} : thread'[o] = thread[o]
  BY <1>1, <1>2 DEF LoginIInv, LoginTypes, ThreadRecord
<1>4. LoginTypes'
  <2>1. \A o \in Threads : thread'[o].at <= clock /\ (thread'[o].op # "none" => thread'[o].token \in Tokens)
    BY <1>2, <1>3 DEF LoginIInv, LoginTypes
  <2> QED  BY <1>1, <1>3, <2>1, AnswerTypes DEF LoginIInv, LoginTypes, ThreadRecord
<1>5. Doomed'
  BY <1>1 DEF Doomed
<1> QED  BY <1>1, <1>4, <1>5 DEF LoginIInv, LeaversGone, SavedCovered, UsesCovered, UsesUnderWay

\* A restart reads back every session that an answered use still promises.
LEMMA RestartKeeps ==
  ASSUME LoginIInv, NEW torn \in BOOLEAN, ServerRestarts(torn)
  PROVE  LoginIInv'
<1> DEFINE ended == {t \in DOMAIN sessionsFile' : ~ (clock < sessionsFile'[t])}
<1>1. /\ UNCHANGED <<used, out, clock>> /\ OneWinner' /\ lastSaved' = <<>>
      /\ spoiled' = (spoiled \/ \E h \in Threads : thread[h].pc # "idle")
      /\ thread' = [h \in Threads |-> Rest]
  BY DEF ServerRestarts, OneWinner, LoginIInv
<1>2. sessionsFile' \in Stamps /\ (~ spoiled' => sessionsFile' = sessionsFile)
  BY NoStamps DEF ServerRestarts, LoginIInv, LoginTypes
<1>3. sessions' = Without(sessionsFile', ended)
  BY <1>1 DEF ServerRestarts, LoadedFrom
<1> HIDE DEF ended
<1>4. Stripped(sessions', sessionsFile', ended)
  BY <1>2, <1>3, WithoutStrips, Zenon
<1>5. /\ Rest \in ThreadRecord /\ Rest.pc = "idle" /\ Rest.op = "none" /\ Rest.at = 0
  BY NoStamps DEF ThreadRecord, Rest
<1>6. thread' \in [Threads -> ThreadRecord] /\ \A h \in Threads : thread'[h] = Rest
  BY <1>1, <1>5
<1>7. LoginTypes'
  <2>1. sessions' \in Stamps /\ lastSaved' \in Stamps /\ spoiled' \in BOOLEAN /\ clock \in Nat
    BY <1>1, <1>4, NoStamps DEF Stripped, LoginIInv, LoginTypes
  <2>2. \A h \in Threads : thread'[h].at <= clock /\ (thread'[h].op # "none" => thread'[h].token \in Tokens)
    BY <1>5, <1>6, <2>1
  <2> QED  BY <1>1, <1>2, <1>6, <2>1, <2>2 DEF LoginIInv, LoginTypes, ThreadRecord
<1>8. (Doomed' <=> spoiled') /\ Leavers' = out
  BY <1>1, <1>5, <1>6 DEF Doomed, Leavers, LoggingOut
<1>9. ~ spoiled' => /\ ~ spoiled /\ ~ Doomed /\ Leavers = out
                    /\ \A h \in Threads : thread[h].pc = "idle"
  BY <1>1 DEF Doomed, Leavers, LoggingOut
<1>10. LeaversGone'
  BY <1>1, <1>2, <1>4, <1>5, <1>6, <1>8, <1>9 DEF LoginIInv, LeaversGone, Stripped
<1>11. SavedCovered'
  BY <1>1, NoStamps DEF SavedCovered
<1>12. UsesCovered'
  <2> SUFFICES ASSUME ~ spoiled', NEW x \in DOMAIN used, ~ Void(clock, out, x, used[x])
               PROVE  /\ Holds(sessions', x, Promise(used[x]))
                      /\ Covers(thread', sessionsFile', x, Promise(used[x]))
    BY <1>1, <1>8 DEF UsesCovered
  <2>1. Covers(thread, sessionsFile, x, Promise(used[x]))
    BY <1>9 DEF LoginIInv, UsesCovered
  <2>2. Holds(sessionsFile', x, Promise(used[x]))
    BY <1>2, <1>9, <2>1 DEF Covers
  <2>3. used[x] \in Nat /\ Promise(used[x]) \in Nat /\ clock \in Nat
    BY StampValues, PromiseNat DEF LoginIInv, LoginTypes
  <2>4. sessionsFile'[x] \in Nat /\ clock < Promise(used[x])
    BY <1>2, <2>2, <2>3, StampValues DEF Holds, Void
  <2>5. x \notin ended
    BY <2>2, <2>3, <2>4 DEF ended, Holds
  <2>6. Holds(sessions', x, Promise(used[x]))
    BY <1>4, <2>2, <2>5 DEF Holds, Stripped
  <2> QED  BY <1>5, <1>6, <2>2, <2>6 DEF Covers
<1>13. UsesUnderWay'
  BY <1>5, <1>6 DEF UsesUnderWay
<1> QED  BY <1>1, <1>7, <1>10, <1>11, <1>12, <1>13 DEF LoginIInv

\* Time only ends promises.
LEMMA LoginTickKeeps ==
  ASSUME LoginIInv, LoginTick
  PROVE  LoginIInv'
<1>1. /\ UNCHANGED <<sessions, lastSaved, sessionsFile, thread, used, out, spoiled>> /\ OneWinner'
      /\ clock' = clock + 1
  BY DEF LoginTick, ClockAdvances, passwordVars, OneWinner, LoginIInv
<1>2. clock \in Nat /\ used \in Stamps /\ lastSaved \in Stamps
  BY DEF LoginIInv, LoginTypes
<1>3. LoginTypes'
  BY <1>1, <1>2, StampValues DEF LoginIInv, LoginTypes
<1>4. (Doomed' <=> Doomed) /\ Leavers' = Leavers
  BY <1>1 DEF Doomed, Leavers, LoggingOut
<1>5. LeaversGone'
  BY <1>1, <1>4 DEF LoginIInv, LeaversGone
<1>6. SavedCovered'
  BY <1>1, <1>2, <1>4, StampValues DEF LoginIInv, SavedCovered
<1>7. \A x : \A n \in Nat : Void(clock, Leavers, x, n) => Void(clock', Leavers', x, n)
  BY <1>1, <1>2, <1>4, PromiseNat DEF Void
<1>8. UsesCovered'
  BY <1>1, <1>2, <1>4, <1>7, StampValues DEF LoginIInv, UsesCovered
<1>9. \A h \in Threads : thread[h].at \in Nat
  BY DEF LoginIInv, LoginTypes
<1>10. UsesUnderWay'
  BY <1>1, <1>4, <1>7, <1>9 DEF LoginIInv, UsesUnderWay
<1> QED  BY <1>1, <1>3, <1>5, <1>6, <1>8, <1>10 DEF LoginIInv

\* Steps that change nothing the invariant reads but the password.
LEMMA LoginStutter ==
  ASSUME LoginIInv, UNCHANGED <<sessions, lastSaved, sessionsFile, thread, used, out, spoiled, clock>>,
         OneWinner'
  PROVE  LoginIInv'
<1>1. (Doomed' <=> Doomed) /\ Leavers' = Leavers
  BY DEF Doomed, Leavers, LoggingOut
<1>2. LoginTypes'
  BY DEF LoginIInv, LoginTypes
<1>3. LeaversGone'
  BY <1>1 DEF LoginIInv, LeaversGone
<1>4. SavedCovered' /\ UsesCovered'
  BY <1>1 DEF LoginIInv, SavedCovered, UsesCovered
<1>5. UsesUnderWay'
  BY <1>1 DEF LoginIInv, UsesUnderWay
<1> QED  BY <1>2, <1>3, <1>4, <1>5 DEF LoginIInv

\* A server that starts for the first time.
LEMMA LoginStarts == LoginInit => LoginIInv
<1> SUFFICES ASSUME LoginInit PROVE LoginIInv
  OBVIOUS
<1>1. /\ Rest \in ThreadRecord /\ Rest.pc = "idle" /\ Rest.op = "none" /\ Rest.at = 0
  BY NoStamps DEF ThreadRecord, Rest
<1>2. thread \in [Threads -> ThreadRecord] /\ \A h \in Threads : thread[h] = Rest
  BY <1>1 DEF LoginInit
<1>3. LoginTypes
  <2>1. sessions \in Stamps /\ lastSaved \in Stamps /\ sessionsFile \in Stamps /\ used \in Stamps
    BY NoStamps DEF LoginInit
  <2>2. out \subseteq Tokens /\ spoiled \in BOOLEAN /\ clock \in Nat /\ DOMAIN used = {}
    BY NoStamps DEF LoginInit
  <2>3. \A h \in Threads : thread[h].at <= clock /\ (thread[h].op # "none" => thread[h].token \in Tokens)
    BY <1>1, <1>2, <2>2
  <2> QED  BY <1>2, <2>1, <2>2, <2>3 DEF LoginTypes, ThreadRecord
<1>4. DOMAIN sessions = {} /\ DOMAIN lastSaved = {} /\ DOMAIN used = {} /\ out = {} /\ OneWinner
  BY NoStamps DEF LoginInit, OneWinner
<1>5. \A h \in Threads : thread[h].pc = "idle"
  BY <1>1, <1>2
<1>6. LeaversGone
  BY <1>4, <1>5 DEF LeaversGone
<1>7. SavedCovered /\ UsesCovered
  BY <1>4 DEF SavedCovered, UsesCovered
<1>8. UsesUnderWay
  BY <1>5 DEF UsesUnderWay
<1> QED  BY <1>3, <1>4, <1>6, <1>7, <1>8 DEF LoginIInv

\* What the invariant says between saves.
LEMMA LoginPromises == LoginIInv => LoginInv
<1> SUFFICES ASSUME LoginIInv PROVE SignInKept /\ LogoutKept
  BY DEF LoginInv, LoginIInv
<1>1. LogoutKept
  BY DEF LogoutKept, LoginIInv, LeaversGone, Leavers
<1>2. SignInKept
  <2> SUFFICES ASSUME ~ spoiled, \A h \in Threads : thread[h].pc = "idle", NEW t \in DOMAIN used \ out,
                      used[t] + TTL - Lag > clock
               PROVE  t \in DOMAIN sessionsFile /\ sessionsFile[t] >= used[t] + TTL - Lag
    BY DEF SignInKept
  <2>1. ~ Doomed /\ Leavers = out
    BY DEF Doomed, Leavers, LoggingOut
  <2>2. used[t] \in Nat /\ clock \in Nat /\ Promise(used[t]) \in Nat
    BY StampValues, PromiseNat DEF LoginIInv, LoginTypes
  <2>3. ~ Void(clock, Leavers, t, used[t])
    BY <2>1, <2>2 DEF Void, Promise
  <2>4. Covers(thread, sessionsFile, t, Promise(used[t]))
    BY <2>1, <2>3 DEF LoginIInv, UsesCovered
  <2> QED  BY <2>4 DEF Covers, Holds, Promise
<1> QED  BY <1>1, <1>2

(* What authentication answered stays answered, for any number of requests at *)
(* once, tokens, failed writes and restarts: one setup wins; while no save was *)
(* overtaken, failed or cut off, a restart signs out no browser that used its  *)
(* session recently, and a logged out session opens nothing (pkg/auth).        *)
THEOREM SignInsKept == LoginSpec => []LoginInv
<1>1. LoginIInv /\ [LoginNext]_<<loginVars, clock>> => LoginIInv'
  <2> SUFFICES ASSUME LoginIInv, [LoginNext]_<<loginVars, clock>>
               PROVE  LoginIInv'
    OBVIOUS
  <2>1. ASSUME NEW h \in Threads, NEW p \in Passwords, NEW t \in Tokens,
               Setup(h, p, t) \/ Login(h, p, t)
        PROVE  LoginIInv'
    BY <2>1, EntryKeeps
  <2>2. ASSUME NEW p \in Passwords, SetupFails(p)
        PROVE  LoginIInv'
    BY <2>2, LoginStutter DEF SetupFails, Unset, OneWinner, LoginIInv
  <2>3. ASSUME NEW h \in Threads, NEW t \in Tokens, ValidateOK(h, t) \/ Revoke(h, t)
        PROVE  LoginIInv'
    BY <2>3, ValidateKeeps, RevokeKeeps
  <2>4. ASSUME NEW t \in Tokens, ValidateExpired(t)
        PROVE  LoginIInv'
    BY <2>4, ExpiredKeeps
  <2>5. ASSUME NEW h \in Threads, Cleanup(h) \/ SaveCopies(h) \/ SaveWrites(h) \/ SaveFails(h)
        PROVE  LoginIInv'
    BY <2>5, CleanupKeeps, CopyKeeps, WriteKeeps, FailKeeps
  <2>6. ASSUME NEW torn \in BOOLEAN, ServerRestarts(torn)
        PROVE  LoginIInv'
    BY <2>6, RestartKeeps
  <2>7. CASE LoginTick
    BY <2>7, LoginTickKeeps
  <2>8. CASE UNCHANGED <<loginVars, clock>>
    BY <2>8, LoginStutter DEF loginVars, OneWinner, LoginIInv
  <2> QED  BY <2>1, <2>2, <2>3, <2>4, <2>5, <2>6, <2>7, <2>8 DEF LoginNext
<1> QED  BY <1>1, LoginStarts, LoginPromises, PTL DEF LoginSpec

-----------------------------------------------------------------------------
(* Limiter.  The bucket keeps accounts: what was let in since any attempt,
   together with what is left, is at most a full bucket and what refilled since.
   An evicted bucket has no account of its own; it was idle for longer than a
   Window, in which a full bucket would have refilled. *)

Let(i) == Len(allowed) - i + 1
Times(a, b) == a * b
Full == Times(Window, Capacity)

Credit ==
  \A i \in 1 .. Len(allowed) :
    /\ last # 0 => /\ allowed[i] <= last
                   /\ Times(Let(i), Window) + tokens <= Full + Times(last - allowed[i], Capacity)
    /\ last = 0 => Times(Let(i), Window) <= Times(instant - allowed[i], Capacity)

LimiterTypes ==
  /\ tokens \in Nat /\ tokens <= Full
  /\ instant \in Nat \ {0} /\ last \in 0 .. instant
  /\ allowed \in Seq(Nat) /\ \A i \in 1 .. Len(allowed) : allowed[i] <= instant

LimiterIInv == LimiterTypes /\ Credit /\ BurstBounded

\* Products of naturals.  Times keeps them apart from the sums around them.
LEMMA TimesNat == \A a, b \in Nat : Times(a, b) \in Nat
BY DEF Times

LEMMA TimesSwap == \A a, b \in Nat : Times(a, b) = Times(b, a)
BY DEF Times

LEMMA TimesUnit == \A a \in Nat : Times(0, a) = 0 /\ Times(1, a) = a
BY DEF Times

LEMMA TimesSum == \A a, b, c, d \in Nat : a = b + c => Times(a, d) = Times(b, d) + Times(c, d)
BY DEF Times

LEMMA TimesNext == \A a, b \in Nat : Times(a + 1, b) = Times(a, b) + b
BY DEF Times

LEMMA TimesOrder == \A a, b, c \in Nat : a <= b => Times(a, c) <= Times(b, c)
<1> SUFFICES ASSUME NEW a \in Nat, NEW b \in Nat, NEW c \in Nat, a <= b  PROVE Times(a, c) <= Times(b, c)
  OBVIOUS
<1>1. b - a \in Nat /\ b = a + (b - a)
  OBVIOUS
<1>2. Times(b, c) = Times(a, c) + Times(b - a, c)
  BY <1>1, TimesSum
<1>3. Times(b, c) \in Nat /\ Times(a, c) \in Nat /\ Times(b - a, c) \in Nat
  BY <1>1, TimesNat
<1> QED  BY <1>2, <1>3

LEMMA TimesLess == \A a, b \in Nat, c \in Nat \ {0} : a < b => Times(a, c) < Times(b, c)
<1> SUFFICES ASSUME NEW a \in Nat, NEW b \in Nat, NEW c \in Nat \ {0}, a < b  PROVE Times(a, c) < Times(b, c)
  OBVIOUS
<1>1. Times(a + 1, c) <= Times(b, c)
  BY TimesOrder
<1>2. Times(a + 1, c) = Times(a, c) + Times(1, c) /\ Times(1, c) = c
  BY TimesSum, TimesUnit
<1>3. Times(a, c) \in Nat /\ Times(b, c) \in Nat
  BY TimesNat
<1> QED  BY <1>1, <1>2, <1>3

LEMMA TimesCancel == \A a, b \in Nat, c \in Nat \ {0} : Times(a, c) < Times(b, c) => a < b
<1> SUFFICES ASSUME NEW a \in Nat, NEW b \in Nat, NEW c \in Nat \ {0}, Times(a, c) < Times(b, c), ~ (a < b)
             PROVE  FALSE
  OBVIOUS
<1>1. Times(b, c) <= Times(a, c)
  BY TimesOrder
<1>2. Times(a, c) \in Nat /\ Times(b, c) \in Nat
  BY TimesNat
<1> QED  BY <1>1, <1>2

\* The sums of the account.
LEMMA Spent == \A x, w, r, t, f, d \in Nat : x + r <= f + d /\ r = t + w => (x + w) + t <= f + d
OBVIOUS

LEMMA Emptied == \A w, t, f \in Nat : t + w <= f => w + t <= f + 0
OBVIOUS

LEMMA TwiceFull == \A x, t, f, d \in Nat : x + t <= f + d /\ d < f => x < f + f
OBVIOUS

LEMMA LimiterConstants ==
  /\ Capacity \in Nat \ {0} /\ Window \in Nat \ {0} /\ IdleEviction \in Nat /\ IdleEviction > Window
  /\ Full \in Nat
<1>1. Capacity \in Nat \ {0} /\ Window \in Nat \ {0} /\ IdleEviction \in Nat /\ IdleEviction > Window
  BY LimiterAssumption
<1> QED  BY <1>1, TimesNat DEF Full

\* What Allow finds in the bucket: the accounts hold up to this instant.
LEMMA RefilledFacts ==
  ASSUME LimiterIInv
  PROVE  /\ Refilled \in Nat /\ Refilled <= Full
         /\ \A i \in 1 .. Len(allowed) :
              /\ Let(i) \in Nat /\ instant - allowed[i] \in Nat
              /\ Times(Let(i), Window) + Refilled <= Full + Times(instant - allowed[i], Capacity)
<1> DEFINE grown == tokens + Times(instant - last, Capacity)
<1>1. /\ tokens \in Nat /\ tokens <= Full /\ Full \in Nat /\ instant \in Nat /\ last \in Nat /\ last <= instant
      /\ Capacity \in Nat /\ Window \in Nat
      /\ \A i \in 1 .. Len(allowed) : allowed[i] \in Nat /\ allowed[i] <= instant
  BY LimiterConstants DEF LimiterIInv, LimiterTypes
<1>2. Times(instant - last, Capacity) \in Nat /\ instant - last \in Nat /\ grown \in Nat
  <2>1. instant - last \in Nat
    BY <1>1
  <2>2. Times(instant - last, Capacity) \in Nat
    BY <1>1, <2>1, TimesNat
  <2> QED  BY <1>1, <2>1, <2>2
<1>0. Refilled = IF last = 0 \/ instant - last >= Window \/ grown > Full THEN Full ELSE grown
  <2>1. Capacity * Window = Full
    BY TimesSwap, LimiterConstants DEF Full, Times
  <2> QED  BY <2>1 DEF Refilled, Times
<1>3. Refilled \in Nat /\ Refilled <= Full
  BY <1>0, <1>1, <1>2
<1>4. ASSUME NEW i \in 1 .. Len(allowed)
      PROVE  /\ Let(i) \in Nat /\ instant - allowed[i] \in Nat
             /\ Times(Let(i), Window) + Refilled <= Full + Times(instant - allowed[i], Capacity)
  <2> DEFINE a == allowed[i]
             n == Let(i)
  <2>1. n \in Nat /\ a \in Nat /\ a <= instant /\ instant - a \in Nat
    BY <1>1 DEF Let, LimiterIInv, LimiterTypes
  <2>2. Times(n, Window) \in Nat /\ Times(instant - a, Capacity) \in Nat
    BY <1>1, <2>1, TimesNat
  <2> HIDE DEF n
  <2>3. CASE last = 0
    <3>1. Times(n, Window) <= Times(instant - a, Capacity)
      BY <2>3 DEF LimiterIInv, Credit, n
    <3> QED  BY <1>1, <1>3, <2>1, <2>2, <3>1 DEF n
  <2>4. CASE last # 0
    <3>1. a <= last /\ Times(n, Window) + tokens <= Full + Times(last - a, Capacity)
      BY <2>4 DEF LimiterIInv, Credit, n
    <3>2. last - a \in Nat /\ Times(last - a, Capacity) \in Nat
      <4>1. last - a \in Nat
        BY <1>1, <2>1, <3>1
      <4> QED  BY <1>1, <4>1, TimesNat
    <3> HIDE DEF a
    <3>3. Times(instant - a, Capacity) = Times(instant - last, Capacity) + Times(last - a, Capacity)
      <4> DEFINE x == instant - a
                 y == instant - last
                 z == last - a
      <4>1. x = y + z /\ x \in Nat /\ y \in Nat /\ z \in Nat /\ Capacity \in Nat
        <5>1. instant \in Nat /\ last \in Nat /\ a \in Nat /\ a <= last /\ last <= instant /\ Capacity \in Nat
          BY <1>1, <2>1, <3>1
        <5> QED  BY <5>1
      <4> HIDE DEF x, y, z
      <4>2. Times(x, Capacity) = Times(y, Capacity) + Times(z, Capacity)
        BY <4>1, TimesSum
      <4> QED  BY <4>2 DEF x, y, z
    <3>4. CASE instant - last >= Window
      <4>1. Full <= Times(instant - last, Capacity)
        BY <1>1, <1>2, <3>4, TimesOrder DEF Full
      <4> DEFINE let == Times(n, Window)
                 owed == Times(last - a, Capacity)
                 new == Times(instant - last, Capacity)
      <4>2. /\ let \in Nat /\ owed \in Nat /\ new \in Nat /\ tokens \in Nat /\ Full \in Nat /\ Refilled \in Nat
            /\ let + tokens <= Full + owed /\ Times(instant - a, Capacity) = new + owed
            /\ Refilled <= Full /\ Full <= new
        BY <1>1, <1>2, <1>3, <2>2, <3>1, <3>2, <3>3, <4>1
      <4> HIDE DEF let, owed, new
      <4>3. let + Refilled <= Full + (new + owed)
        BY <4>2
      <4> QED  BY <2>1, <4>2, <4>3 DEF let, n, a
    <3>5. CASE ~ (instant - last >= Window)
      <4> DEFINE let == Times(n, Window)
                 owed == Times(last - a, Capacity)
                 new == Times(instant - last, Capacity)
      <4>1. Refilled <= tokens + new
        BY <1>0, <1>1, <1>2, <2>4, <3>5
      <4>2. /\ let \in Nat /\ owed \in Nat /\ new \in Nat /\ tokens \in Nat /\ Full \in Nat /\ Refilled \in Nat
            /\ let + tokens <= Full + owed /\ Times(instant - a, Capacity) = new + owed
        BY <1>1, <1>2, <1>3, <2>2, <3>1, <3>2, <3>3
      <4> HIDE DEF let, owed, new
      <4>3. let + Refilled <= Full + (new + owed)
        BY <4>1, <4>2
      <4> QED  BY <2>1, <4>2, <4>3 DEF let, n, a
    <3> QED  BY <3>4, <3>5
  <2> QED  BY <2>3, <2>4
<1> QED  BY <1>3, <1>4

LEMMA AttemptKeeps ==
  ASSUME LimiterIInv, Attempt
  PROVE  LimiterIInv'
<1>1. /\ instant' = instant /\ last' = instant
      /\ \/ Refilled >= Window /\ tokens' = Refilled - Window /\ allowed' = Append(allowed, instant)
         \/ ~ (Refilled >= Window) /\ tokens' = Refilled /\ allowed' = allowed
  BY DEF Attempt, LastSeen
<1>2. /\ Refilled \in Nat /\ Refilled <= Full
      /\ \A i \in 1 .. Len(allowed) :
           /\ Let(i) \in Nat /\ instant - allowed[i] \in Nat
           /\ Times(Let(i), Window) + Refilled <= Full + Times(instant - allowed[i], Capacity)
  BY RefilledFacts
<1>3. /\ instant \in Nat \ {0} /\ allowed \in Seq(Nat) /\ Len(allowed) \in Nat
      /\ \A i \in 1 .. Len(allowed) : allowed[i] \in Nat /\ allowed[i] <= instant
      /\ Capacity \in Nat \ {0} /\ Window \in Nat \ {0} /\ Full \in Nat
  BY LimiterConstants DEF LimiterIInv, LimiterTypes
<1>4. CASE ~ (Refilled >= Window) /\ tokens' = Refilled /\ allowed' = allowed
  <2>1. LimiterTypes'
    BY <1>1, <1>2, <1>3, <1>4 DEF LimiterIInv, LimiterTypes
  <2>2. Credit'
    BY <1>1, <1>2, <1>3, <1>4 DEF Credit, Let
  <2>3. BurstBounded'
    BY <1>4 DEF LimiterIInv, BurstBounded
  <2> QED  BY <2>1, <2>2, <2>3 DEF LimiterIInv
<1>5. CASE Refilled >= Window /\ tokens' = Refilled - Window /\ allowed' = Append(allowed, instant)
  <2>1. /\ allowed' \in Seq(Nat) /\ Len(allowed') = Len(allowed) + 1
        /\ \A i \in 1 .. Len(allowed) : allowed'[i] = allowed[i]
        /\ allowed'[Len(allowed) + 1] = instant
    BY <1>3, <1>5
  <2>2. \A i \in 1 .. Len(allowed') : i \in 1 .. Len(allowed) \/ i = Len(allowed) + 1
    BY <1>3, <2>1
  <2>3. tokens' \in Nat /\ Full \in Nat /\ Window \in Nat /\ tokens' <= Full /\ tokens' + Window <= Full
        /\ Refilled = tokens' + Window
    BY <1>2, <1>3, <1>5
  <2>4. LimiterTypes'
    <3>1. ASSUME NEW i \in 1 .. Len(allowed')  PROVE allowed'[i] <= instant
      <4>1. CASE i \in 1 .. Len(allowed)
        BY <1>3, <2>1, <4>1
      <4>2. CASE i = Len(allowed) + 1
        BY <1>3, <2>1, <4>2
      <4> QED  BY <2>2, <4>1, <4>2
    <3> QED  BY <1>1, <1>3, <2>1, <2>3, <3>1 DEF LimiterTypes
  <2>5. ASSUME NEW i \in 1 .. Len(allowed')
        PROVE  /\ Len(allowed') - i + 1 \in Nat /\ allowed'[i] \in Nat /\ allowed'[i] <= instant
               /\ Times(Len(allowed') - i + 1, Window) + tokens' <= Full + Times(instant - allowed'[i], Capacity)
    <3>1. CASE i \in 1 .. Len(allowed)
      <4>1. Len(allowed') - i + 1 = Let(i) + 1 /\ Let(i) \in Nat /\ allowed'[i] = allowed[i]
        <5>1. i \in Nat /\ i <= Len(allowed) /\ Len(allowed) \in Nat
          BY <1>3, <3>1
        <5> QED  BY <2>1, <3>1, <5>1 DEF Let
      <4>2. Times(Let(i) + 1, Window) = Times(Let(i), Window) + Window /\ Times(Let(i), Window) \in Nat
        BY <2>3, <4>1, TimesNat, TimesNext
      <4>3. Times(Let(i), Window) + Refilled <= Full + Times(instant - allowed[i], Capacity)
        BY <1>2, <3>1
      <4>4. Times(instant - allowed[i], Capacity) \in Nat
        BY <1>2, <1>3, <3>1, TimesNat
      <4>5. Times(Let(i) + 1, Window) + tokens' <= Full + Times(instant - allowed[i], Capacity)
        BY <1>2, <2>3, <4>2, <4>3, <4>4, Spent
      <4> QED  BY <1>3, <3>1, <4>1, <4>5
    <3>2. CASE i = Len(allowed) + 1
      <4>1. Len(allowed') - i + 1 = 1 /\ allowed'[i] = instant /\ instant - instant = 0
        BY <1>3, <2>1, <3>2
      <4>2. Times(1, Window) = Window /\ Times(0, Capacity) = 0
        BY <1>3, TimesUnit
      <4>3. Window + tokens' <= Full + 0 /\ 1 \in Nat
        BY <2>3, Emptied
      <4> QED  BY <1>3, <4>1, <4>2, <4>3
    <3> QED  BY <2>2, <3>1, <3>2
  <2>6. Credit'
    BY <1>1, <1>3, <2>5 DEF Credit, Let
  <2>7. BurstBounded'
    <3> SUFFICES ASSUME NEW i \in 1 .. Len(allowed'), NEW j \in 1 .. Len(allowed'),
                        i <= j, allowed'[j] < allowed'[i] + Window
                 PROVE  j - i + 1 < 2 * Capacity
      BY DEF BurstBounded
    <3>1. CASE j \in 1 .. Len(allowed)
      <4>1. i \in 1 .. Len(allowed)
        BY <1>3, <3>1
      <4> QED  BY <2>1, <3>1, <4>1 DEF LimiterIInv, BurstBounded
    <3>2. CASE j = Len(allowed) + 1
      <4> DEFINE n == j - i + 1
                 d == instant - allowed'[i]
      <4>1. n \in Nat /\ n = Len(allowed') - i + 1
        BY <1>3, <2>1, <3>2
      <4>2. d \in Nat /\ d < Window
        <5>1. allowed'[j] = instant /\ allowed'[i] \in Nat /\ allowed'[i] <= instant /\ instant \in Nat /\ Window \in Nat
          BY <1>3, <2>1, <2>5, <3>2
        <5>2. instant < allowed'[i] + Window
          BY <5>1
        <5> QED  BY <5>1, <5>2
      <4>3. Times(n, Window) + tokens' <= Full + Times(d, Capacity)
        BY <2>5, <4>1
      <4> HIDE DEF n, d
      <4>4. Times(d, Capacity) < Full
        BY <1>3, <4>2, TimesLess DEF Full
      <4>8. Times(n, Window) \in Nat /\ Times(d, Capacity) \in Nat
        BY <1>3, <4>1, <4>2, TimesNat
      <4>5. Times(n, Window) < Full + Full
        BY <2>3, <4>3, <4>4, <4>8, TwiceFull
      <4>6. Full + Full = Times(2 * Capacity, Window) /\ 2 * Capacity \in Nat
        <5>1. Full = Times(Capacity, Window)
          BY <1>3, TimesSwap DEF Full
        <5>2. 2 * Capacity = Capacity + Capacity /\ Capacity \in Nat /\ Window \in Nat
          BY <1>3
        <5> QED  BY <5>1, <5>2, TimesSum
      <4>7. n < 2 * Capacity
        BY <1>3, <4>1, <4>5, <4>6, TimesCancel
      <4> QED  BY <4>7 DEF n
    <3> QED  BY <2>2, <3>1, <3>2
  <2> QED  BY <2>4, <2>6, <2>7 DEF LimiterIInv
<1> QED  BY <1>1, <1>4, <1>5

LEMMA EvictKeeps ==
  ASSUME LimiterIInv, Evict
  PROVE  LimiterIInv'
<1>1. last # 0 /\ instant - last > IdleEviction /\ tokens' = 0 /\ last' = 0 /\ instant' = instant /\ allowed' = allowed
  BY DEF Evict
<1>2. /\ tokens \in Nat /\ Full \in Nat /\ instant \in Nat /\ last \in Nat /\ last <= instant
      /\ Capacity \in Nat /\ Window \in Nat /\ IdleEviction \in Nat /\ IdleEviction > Window
      /\ instant - last \in Nat
      /\ \A i \in 1 .. Len(allowed) : allowed[i] \in Nat /\ allowed[i] <= instant
  BY LimiterConstants DEF LimiterIInv, LimiterTypes
<1>3. Full <= Times(instant - last, Capacity)
  <2>1. Window <= instant - last
    BY <1>1, <1>2
  <2> QED  BY <1>2, <2>1, TimesOrder DEF Full
<1>4. ASSUME NEW i \in 1 .. Len(allowed)
      PROVE  Times(Let(i), Window) <= Times(instant - allowed[i], Capacity)
  <2>1. Let(i) \in Nat
    BY DEF Let, LimiterIInv, LimiterTypes
  <2>2. allowed[i] <= last /\ Times(Let(i), Window) + tokens <= Full + Times(last - allowed[i], Capacity)
    BY <1>1 DEF LimiterIInv, Credit
  <2>3. last - allowed[i] \in Nat
    BY <1>2, <2>2
  <2>4. Times(instant - allowed[i], Capacity) = Times(instant - last, Capacity) + Times(last - allowed[i], Capacity)
    <3>1. instant - allowed[i] = (instant - last) + (last - allowed[i])
      BY <1>2
    <3> QED  BY <1>2, <2>3, <3>1, TimesSum
  <2>5. Times(Let(i), Window) \in Nat /\ Times(last - allowed[i], Capacity) \in Nat /\ Times(instant - last, Capacity) \in Nat
    BY <1>2, <2>1, <2>3, TimesNat
  <2> QED  BY <1>2, <1>3, <2>2, <2>4, <2>5
<1>5. LimiterTypes' /\ BurstBounded'
  BY <1>1, <1>2 DEF LimiterIInv, LimiterTypes, BurstBounded
<1>6. Credit'
  BY <1>1, <1>4 DEF Credit, Let
<1> QED  BY <1>5, <1>6 DEF LimiterIInv

LEMMA LimiterTickKeeps ==
  ASSUME LimiterIInv, LimiterTick
  PROVE  LimiterIInv'
<1>1. instant' = instant + 1 /\ tokens' = tokens /\ last' = last /\ allowed' = allowed
  BY DEF LimiterTick
<1>2. /\ instant \in Nat /\ last \in 0 .. instant /\ Capacity \in Nat /\ Window \in Nat
      /\ \A i \in 1 .. Len(allowed) : allowed[i] \in Nat /\ allowed[i] <= instant /\ Let(i) \in Nat
  BY LimiterConstants DEF LimiterIInv, LimiterTypes, Let
<1>3. LimiterTypes' /\ BurstBounded'
  BY <1>1, <1>2 DEF LimiterIInv, LimiterTypes, BurstBounded
<1>4. ASSUME NEW i \in 1 .. Len(allowed), last = 0
      PROVE  Times(Let(i), Window) <= Times(instant' - allowed[i], Capacity)
  <2>1. Times(Let(i), Window) <= Times(instant - allowed[i], Capacity)
    BY <1>4 DEF LimiterIInv, Credit
  <2>2. instant - allowed[i] \in Nat /\ instant' - allowed[i] \in Nat /\ instant - allowed[i] <= instant' - allowed[i]
    BY <1>1, <1>2
  <2>3. /\ Times(instant - allowed[i], Capacity) <= Times(instant' - allowed[i], Capacity)
        /\ Times(instant - allowed[i], Capacity) \in Nat /\ Times(instant' - allowed[i], Capacity) \in Nat
        /\ Times(Let(i), Window) \in Nat
    BY <1>2, <2>2, TimesNat, TimesOrder
  <2> QED  BY <2>1, <2>3
<1>5. Credit'
  <2> SUFFICES ASSUME NEW i \in 1 .. Len(allowed')
               PROVE  /\ last' # 0 => /\ allowed'[i] <= last'
                                      /\ Times(Let(i)', Window) + tokens' <= Full + Times(last' - allowed'[i], Capacity)
                      /\ last' = 0 => Times(Let(i)', Window) <= Times(instant' - allowed'[i], Capacity)
    BY DEF Credit
  <2>1. i \in 1 .. Len(allowed) /\ Let(i)' = Let(i) /\ allowed'[i] = allowed[i]
    BY <1>1 DEF Let
  <2>2. CASE last # 0
    BY <1>1, <2>1, <2>2 DEF LimiterIInv, Credit
  <2>3. CASE last = 0
    <3>1. Times(Let(i), Window) <= Times(instant' - allowed[i], Capacity)
      BY <1>4, <2>1, <2>3
    <3>2. last' = 0
      BY <1>1, <2>3
    <3> QED  BY <2>1, <3>1, <3>2
  <2> QED  BY <2>2, <2>3
<1> QED  BY <1>3, <1>5 DEF LimiterIInv

(* However a client spaces its attempts, refused ones among them, fewer than   *)
(* twice Capacity get in during any Window: for every capacity, window and     *)
(* longer eviction, and any number of attempts.                                *)
THEOREM BurstsBounded == LimiterSpec => []BurstBounded
<1>1. LimiterInit => LimiterIInv
  <2> SUFFICES ASSUME LimiterInit  PROVE LimiterIInv
    OBVIOUS
  <2>1. tokens = 0 /\ last = 0 /\ allowed = <<>> /\ instant = 1 /\ Full \in Nat
    BY LimiterConstants DEF LimiterInit
  <2>2. \A i \in 1 .. Len(allowed) : FALSE
    BY <2>1
  <2>3. allowed \in Seq(Nat)
    BY <2>1
  <2> QED  BY <2>1, <2>2, <2>3 DEF LimiterIInv, LimiterTypes, Credit, BurstBounded
<1>2. LimiterIInv /\ [LimiterNext]_limiterVars => LimiterIInv'
  <2> SUFFICES ASSUME LimiterIInv, [LimiterNext]_limiterVars  PROVE LimiterIInv'
    OBVIOUS
  <2>1. CASE Attempt
    BY <2>1, AttemptKeeps
  <2>2. CASE Evict
    BY <2>2, EvictKeeps
  <2>3. CASE LimiterTick
    BY <2>3, LimiterTickKeeps
  <2>4. CASE UNCHANGED limiterVars
    BY <2>4 DEF limiterVars, LimiterIInv, LimiterTypes, Credit, Let, BurstBounded
  <2> QED  BY <2>1, <2>2, <2>3, <2>4 DEF LimiterNext
<1>3. LimiterIInv => BurstBounded
  BY DEF LimiterIInv
<1> QED  BY <1>1, <1>2, <1>3, PTL DEF LimiterSpec

-----------------------------------------------------------------------------
(* Scheduler.  OncePerInstant needs that every instant fired for is past, that
   the store's next run is later than all of them unless a launch of the tick
   is still to move it or a request has put an older one back, and that what the
   tick has picked is later too.  CapKept speaks of a schedule at rest, so the
   invariant follows the one request or launch under way: it works on the
   store's own settings, and from MakesRoom on there is room for one session. *)

JobType == [enabled : BOOLEAN, period : Nat, cap : Nat, remote : BOOLEAN, next : Nat, runs : Nat]
Real(j) == j \in JobType /\ SettingsOf(j) \in Settings

LaunchType == [pc : {"idle", "due", "create", "tag", "mark", "fail"}, job : JobType, at : Nat, session : Nat]

StoreTypes == (jobs = NoJob \/ Real(jobs)) /\ (jobsFile = NoJob \/ Real(jobsFile))

LaunchTypes ==
  /\ launch \in [Launchers -> LaunchType]
  /\ \A l \in Launchers : launch[l].pc # "idle" => Real(launch[l].job)
  /\ \A l \in Launchers : launch[l].pc = "tag" => launch[l].session \in 1 .. launches

PutTypes ==
  /\ put \in [pc : {"idle", "read", "cap"}, job : JobType]
  /\ put.pc # "idle" => Real(put.job)

SessionTypes == launches \in Nat /\ daemons \subseteq 1 .. launches /\ DOMAIN tags \subseteq 1 .. launches

HistoryTypes == fired \subseteq Nat /\ twice \in BOOLEAN /\ raced \in BOOLEAN /\ excused \in BOOLEAN

ScheduleTypes == clock \in Nat /\ StoreTypes /\ LaunchTypes /\ PutTypes /\ SessionTypes /\ HistoryTypes

\* The tick launches for instants that have come, in their order; what it marks is later.
InstantsPass ==
  LET t == launch["tick"] IN
  /\ \A f \in fired : f <= clock /\ (t.pc # "idle" => f <= t.at)
  /\ t.pc # "idle" => t.job.next <= t.at /\ t.at <= clock /\ t.job.enabled
  /\ ~raced => ~Repeats(jobs)
  /\ ~raced /\ t.pc \in {"due", "create"} => \A f \in fired : f < t.job.next
  /\ twice => raced

\* Without an excuse one request or launch works at a time, on the settings of the store,
\* and a launch under way has room for its session.
OneAtWork ==
  /\ SettingsOf(jobsFile) = SettingsOf(jobs)
  /\ \A l \in Launchers : launch[l].pc # "idle" => put.pc = "idle" /\ \A m \in Launchers \ {l} : launch[m].pc = "idle"
  /\ put.pc = "cap" /\ jobs # NoJob => SettingsOf(jobs) = SettingsOf(put.job)
  /\ \A l \in Launchers : launch[l].pc # "idle" /\ jobs # NoJob => SettingsOf(jobs) = SettingsOf(launch[l].job)

RoomKept ==
  /\ jobs # NoJob /\ put.pc # "cap" /\ jobs.cap > 0 => Cardinality(Tagged) <= jobs.cap
  /\ \A l \in Launchers : launch[l].pc \in {"create", "tag"} /\ jobs # NoJob /\ jobs.cap > 0 => Cardinality(Tagged) < jobs.cap

ScheduleIInv == ScheduleTypes /\ InstantsPass /\ IntentKept /\ (~excused => OneAtWork /\ RoomKept)

\* The next run is after the instant it is computed for.
LEMMA NextRunLater ==
  ASSUME NEW period \in Nat \ {0}, NEW now \in Nat
  PROVE  NextRunFor(period, now) \in Nat /\ NextRunFor(period, now) > now
<1>1. now % period \in 0 .. period - 1
  OBVIOUS
<1>2. now % period <= now
  OBVIOUS
<1> QED  BY <1>1, <1>2 DEF NextRunFor

\* Real jobs and what is made of them.
LEMMA SettingsRecords ==
  ASSUME NEW s \in Settings
  PROVE  /\ s \in [enabled : BOOLEAN, period : Nat \ {0}, cap : Nat, remote : BOOLEAN]
         /\ \A r \in Nat : Job(s, r) \in JobType /\ SettingsOf(Job(s, r)) = s
BY SchedulerAssumption DEF Job, SettingsOf, JobType

LEMMA RealJobs ==
  ASSUME NEW j, Real(j)
  PROVE  /\ j \in JobType /\ j.period \in Nat \ {0} /\ j # NoJob /\ SettingsOf(j) # SettingsOf(NoJob)
         /\ \A n \in Nat : Real([j EXCEPT !.next = n]) /\ SettingsOf([j EXCEPT !.next = n]) = SettingsOf(j)
         /\ \A n \in Nat : Real([j EXCEPT !.runs = n]) /\ SettingsOf([j EXCEPT !.runs = n]) = SettingsOf(j)
                           /\ [j EXCEPT !.runs = n].next = j.next
<1>1. j.period \in Nat \ {0}
  BY SchedulerAssumption DEF Real, SettingsOf
<1>2. SettingsOf(j).period # SettingsOf(NoJob).period
  BY <1>1 DEF SettingsOf, NoJob
<1>3. \A n \in Nat : Real([j EXCEPT !.next = n]) /\ SettingsOf([j EXCEPT !.next = n]) = SettingsOf(j)
  BY DEF Real, SettingsOf, JobType
<1>4. \A n \in Nat : Real([j EXCEPT !.runs = n]) /\ SettingsOf([j EXCEPT !.runs = n]) = SettingsOf(j)
                     /\ [j EXCEPT !.runs = n].next = j.next
  BY DEF Real, SettingsOf, JobType
<1> QED  BY <1>1, <1>2, <1>3, <1>4 DEF Real, NoJob

\* Sessions left by EnforceScheduleCap: each has fewer than keep after it, and no two as many.
LEMMA FewLeft ==
  ASSUME NEW T \in SUBSET Nat, IsFiniteSet(T), NEW keep \in Nat
  PROVE  Cardinality({s \in T : ~ Cardinality({o \in T : o > s}) >= keep}) <= keep
<1> DEFINE Above(s) == {o \in T : o > s}
           S == {s \in T : ~ Cardinality(Above(s)) >= keep}
           f == [s \in S |-> Cardinality(Above(s))]
<1>1. \A s \in T : Above(s) \in SUBSET T /\ IsFiniteSet(Above(s)) /\ Cardinality(Above(s)) \in Nat
  BY FS_Subset, FS_CardinalityType
<1>2. ASSUME NEW s \in S, NEW r \in S, s < r  PROVE f[s] # f[r]
  <2>0. r \in T /\ s \in T /\ r \in Nat /\ s \in Nat /\ \A o \in T : o \in Nat
    OBVIOUS
  <2>1. Above(r) \in SUBSET Above(s) /\ Above(r) # Above(s)
    <3>1. r \in Above(s) /\ r \notin Above(r)
      BY <1>2, <2>0
    <3>2. \A o \in Above(r) : o \in Above(s)
      BY <1>2, <2>0
    <3> HIDE DEF Above
    <3> QED  BY <3>1, <3>2
  <2>2. Cardinality(Above(s)) # Cardinality(Above(r))
    BY <1>1, <2>1, FS_Subset
  <2> QED  BY <2>2
<1>3. f \in [S -> 0 .. keep - 1]
  <2>1. \A s \in S : s \in T /\ ~ Cardinality(Above(s)) >= keep
    OBVIOUS
  <2> HIDE DEF Above, S
  <2>2. ASSUME NEW s \in S  PROVE Cardinality(Above(s)) \in 0 .. keep - 1
    <3>1. Cardinality(Above(s)) \in Nat /\ ~ Cardinality(Above(s)) >= keep
      BY <1>1, <2>1
    <3> QED  BY <3>1
  <2> QED  BY <2>2
<1>4. ASSUME NEW s \in S, NEW r \in S, f[s] = f[r]  PROVE s = r
  BY <1>2, <1>4
<1>5. f \in Injection(S, 0 .. keep - 1)
  BY <1>3, <1>4 DEF Injection, IsInjective
<1>6. IsFiniteSet(0 .. keep - 1) /\ Cardinality(0 .. keep - 1) = keep
  BY FS_Interval
<1>7. Cardinality(S) <= Cardinality(0 .. keep - 1)
  BY <1>5, <1>6, FS_Injection
<1> QED  BY <1>6, <1>7

\* What the actions write is a job again.
LEMMA NewJobs ==
  ASSUME ScheduleTypes, NEW s \in Settings, NEW r \in Nat
  PROVE  /\ Real(WithNext(Job(s, r), clock)) /\ SettingsOf(WithNext(Job(s, r), clock)) = s
         /\ WithNext(Job(s, r), clock).enabled => WithNext(Job(s, r), clock).next > clock
<1>1. Job(s, r) \in JobType /\ SettingsOf(Job(s, r)) = s
  BY SettingsRecords
<1> DEFINE j == Job(s, r)
           n == IF j.enabled THEN NextRunFor(j.period, clock) ELSE 0
<1>2. Real(j)
  BY <1>1 DEF Real
<1>3. j.period \in Nat \ {0} /\ clock \in Nat /\ j \in JobType
  BY <1>2, RealJobs DEF ScheduleTypes
<1>4. n \in Nat /\ (j.enabled => n > clock)
  BY <1>3, NextRunLater
<1>5. WithNext(j, clock) = [j EXCEPT !.next = n]
  BY DEF WithNext
<1> HIDE DEF j, n
<1>6. [j EXCEPT !.next = n].enabled = j.enabled /\ [j EXCEPT !.next = n].next = n
  BY <1>3 DEF JobType
<1> QED  BY <1>1, <1>2, <1>4, <1>5, <1>6, RealJobs DEF j

LEMMA RecordTypes ==
  ASSUME ScheduleTypes
  PROVE  /\ NoJob \in JobType /\ Idle \in LaunchType /\ NoPut \in [pc : {"idle", "read", "cap"}, job : JobType]
         /\ jobs \in JobType /\ jobsFile \in JobType
<1>1. NoJob \in JobType
  BY DEF NoJob, JobType
<1>2. jobs \in JobType /\ jobsFile \in JobType
  BY <1>1 DEF ScheduleTypes, StoreTypes, Real
<1>3. Idle \in LaunchType
  BY <1>1 DEF Idle, LaunchType
<1>4. NoPut \in [pc : {"idle", "read", "cap"}, job : JobType]
  BY <1>1 DEF NoPut
<1> QED  BY <1>1, <1>2, <1>3, <1>4

LEMMA UpdatedJobs ==
  ASSUME ScheduleTypes, NEW j, Real(j)
  PROVE  /\ Real(Updated(jobs, j)) /\ SettingsOf(Updated(jobs, j)) = SettingsOf(j)
         /\ Updated(jobs, j).next = j.next /\ Updated(jobs, j).enabled = j.enabled
<1>1. jobs.runs \in Nat /\ j.runs \in Nat
  BY RecordTypes, RealJobs DEF JobType
<1>2. Real(Updated(jobs, j)) /\ SettingsOf(Updated(jobs, j)) = SettingsOf(j) /\ Updated(jobs, j).next = j.next
  BY <1>1, RealJobs DEF Updated
<1>3. SettingsOf(Updated(jobs, j)).enabled = SettingsOf(j).enabled
  BY <1>2
<1> QED  BY <1>2, <1>3 DEF SettingsOf

LEMMA PutOffJobs ==
  ASSUME ScheduleTypes, launch["tick"].pc # "idle"
  PROVE  LET t == launch["tick"]
             j == [t.job EXCEPT !.next = NextRunFor(t.job.period, t.at)]
         IN  /\ Real(j) /\ SettingsOf(j) = SettingsOf(t.job)
             /\ j.next > t.at
<1> DEFINE t == launch["tick"]
           n == NextRunFor(t.job.period, t.at)
<1>1. Real(t.job) /\ t.at \in Nat
  BY DEF ScheduleTypes, StoreTypes, LaunchTypes, PutTypes, Launchers, LaunchType
<1>2. n \in Nat /\ n > t.at
  BY <1>1, RealJobs, NextRunLater
<1>3. t.job \in JobType
  BY <1>1, RealJobs
<1> HIDE DEF n
<1>4. [t.job EXCEPT !.next = n].next = n
  BY <1>3 DEF JobType
<1> QED  BY <1>1, <1>2, <1>4, RealJobs DEF n

LEMMA MarkedJobs ==
  ASSUME ScheduleTypes, jobs # NoJob, NEW l \in Launchers, launch[l].pc # "idle"
  PROVE  LET j == [jobs EXCEPT !.next = NextAfter(l), !.runs = @ + 1]
             k == [jobs EXCEPT !.next = NextAfter(l)]
         IN  /\ Real(j) /\ SettingsOf(j) = SettingsOf(jobs)
             /\ j.next = NextAfter(l) /\ k.next = NextAfter(l)
             /\ j.enabled = jobs.enabled /\ k.enabled = jobs.enabled
             /\ NextAfter(l) \in Nat
             /\ l = "tick" => NextAfter(l) > launch[l].at
<1>1. Real(launch[l].job) /\ launch[l].at \in Nat
  BY DEF ScheduleTypes, StoreTypes, LaunchTypes, PutTypes, LaunchType
<1>2. NextAfter(l) \in Nat /\ (l = "tick" => NextAfter(l) > launch[l].at)
  <2>1. launch[l].job.next \in Nat
    BY <1>1 DEF Real, JobType
  <2>2. NextRunFor(launch[l].job.period, launch[l].at) \in Nat
        /\ NextRunFor(launch[l].job.period, launch[l].at) > launch[l].at
    BY <1>1, RealJobs, NextRunLater
  <2> QED  BY <2>1, <2>2 DEF NextAfter
<1>3. Real(jobs)
  BY DEF ScheduleTypes, StoreTypes, LaunchTypes, PutTypes
<1> DEFINE n == NextAfter(l)
           k == [jobs EXCEPT !.next = n]
           r == jobs.runs + 1
<1>4. n \in Nat /\ jobs \in JobType
  BY <1>2, <1>3, RealJobs
<1> HIDE DEF n
<1>5. r \in Nat /\ k.next = n /\ k.enabled = jobs.enabled
  BY <1>4 DEF JobType
<1>6. [jobs EXCEPT !.next = n, !.runs = @ + 1] = [k EXCEPT !.runs = r]
  BY <1>4 DEF JobType
<1>7. Real(k) /\ SettingsOf(k) = SettingsOf(jobs)
  BY <1>3, <1>4, RealJobs
<1> HIDE DEF k, r
<1>8. Real([k EXCEPT !.runs = r]) /\ SettingsOf([k EXCEPT !.runs = r]) = SettingsOf(k) /\ [k EXCEPT !.runs = r].next = k.next
  BY <1>5, <1>7, RealJobs
<1>9. [k EXCEPT !.runs = r].enabled = k.enabled
  BY <1>7 DEF Real, JobType
<1> QED  BY <1>2, <1>5, <1>6, <1>7, <1>8, <1>9 DEF n, k

LEMMA ReconciledJobs ==
  ASSUME ScheduleTypes
  PROVE  /\ SettingsOf(Reconciled(jobsFile)) = SettingsOf(jobsFile)
         /\ jobsFile = NoJob => Reconciled(jobsFile) = NoJob
         /\ jobsFile # NoJob => Real(Reconciled(jobsFile))
         /\ Reconciled(jobsFile).enabled => Reconciled(jobsFile).next > clock
<1>1. CASE ~ jobsFile.enabled
  BY <1>1 DEF Reconciled, ScheduleTypes, StoreTypes, LaunchTypes, PutTypes
<1>2. CASE jobsFile.enabled
  <2> DEFINE n == NextRunFor(jobsFile.period, clock)
  <2>1. jobsFile # NoJob /\ Real(jobsFile) /\ jobsFile \in JobType
    BY <1>2, RealJobs DEF NoJob, ScheduleTypes, StoreTypes, LaunchTypes, PutTypes
  <2>2. n \in Nat /\ n > clock
    BY <2>1, RealJobs, NextRunLater DEF ScheduleTypes, StoreTypes, LaunchTypes, PutTypes
  <2>3. Reconciled(jobsFile) = [jobsFile EXCEPT !.next = n]
    BY <1>2 DEF Reconciled, WithNext
  <2> HIDE DEF n
  <2>4. [jobsFile EXCEPT !.next = n].next = n
    BY <2>1 DEF JobType
  <2> QED  BY <2>1, <2>2, <2>3, <2>4, RealJobs
<1> QED  BY <1>1, <1>2

\* The store and the file hold jobs after every step.
LEMMA StoreStep ==
  ASSUME ScheduleTypes, [SchedulerNext]_<<schVars, clock>>
  PROVE  StoreTypes'
<1>0. StoreTypes
  BY DEF ScheduleTypes
<1>1. ASSUME NEW w \in BOOLEAN, NEW s \in Settings, Add(s, w)  PROVE StoreTypes'
  <2>1. Real(WithNext(Job(s, 0), clock))
    BY NewJobs, 0 \in Nat
  <2>2. jobs' = WithNext(Job(s, 0), clock) /\ (jobsFile' = jobsFile \/ jobsFile' = jobs')
    BY <1>1 DEF Add, Save
  <2> QED  BY <1>0, <2>1, <2>2 DEF StoreTypes
<1>2. ASSUME NEW w \in BOOLEAN, RemoveSchedule(w)  PROVE StoreTypes'
  BY <1>0, <1>2 DEF StoreTypes, RemoveSchedule, Save
<1>3. ASSUME NEW w \in BOOLEAN, PutWrites(w)  PROVE StoreTypes'
  <2>1. Real(Updated(jobs, put.job))
    BY <1>3, UpdatedJobs DEF PutWrites, ScheduleTypes, PutTypes
  <2> QED  BY <1>0, <1>3, <2>1 DEF StoreTypes, PutWrites, Save
<1>4. ASSUME NEW w \in BOOLEAN, PutsOff(w)  PROVE StoreTypes'
  <2> DEFINE t == launch["tick"]
             j == [t.job EXCEPT !.next = NextRunFor(t.job.period, t.at)]
  <2>1. t.pc # "idle" /\ (IF Found(jobs) THEN Save(Updated(jobs, j), w) ELSE UNCHANGED <<jobs, jobsFile>>)
    BY <1>4 DEF PutsOff
  <2>2. Real(j)
    BY <2>1, PutOffJobs
  <2> HIDE DEF j
  <2>3. Real(Updated(jobs, j))
    BY <2>2, UpdatedJobs
  <2> QED  BY <1>0, <2>1, <2>3 DEF StoreTypes, Save
<1>5. ASSUME NEW w \in BOOLEAN, NEW l \in Launchers, MarkRan(l, w)  PROVE StoreTypes'
  <2> DEFINE j == [jobs EXCEPT !.next = NextAfter(l), !.runs = @ + 1]
  <2>1. launch[l].pc # "idle" /\ (jobs = NoJob => UNCHANGED <<jobs, jobsFile>>) /\ (jobs # NoJob => Save(j, w))
    BY <1>5 DEF MarkRan
  <2>2. jobs # NoJob => Real(j)
    BY <2>1, MarkedJobs
  <2> HIDE DEF j
  <2> QED  BY <1>0, <2>1, <2>2 DEF StoreTypes, Save
<1>6. ASSUME NEW w \in BOOLEAN, Restart(w)  PROVE StoreTypes'
  BY <1>0, <1>6, ReconciledJobs DEF StoreTypes, Restart
<1>7. ASSUME UNCHANGED <<jobs, jobsFile>>  PROVE StoreTypes'
  BY <1>0, <1>7 DEF StoreTypes
<1>8. CASE UNCHANGED <<schVars, clock>>
  BY <1>7, <1>8 DEF schVars
<1>9. ASSUME NEW s \in Settings, PutReads(s)  PROVE UNCHANGED <<jobs, jobsFile>>
  BY <1>9 DEF PutReads
<1>10. ASSUME NEW g \in SUBSET daemons, PutCaps(g) \/ \E l \in Launchers : MakesRoom(l, g)  PROVE UNCHANGED <<jobs, jobsFile>>
  BY <1>10 DEF PutCaps, MakesRoom
<1>11. ASSUME NEW l \in Launchers, Picks(l) \/ Launches(l) \/ LaunchFails(l) \/ Tags(l)  PROVE UNCHANGED <<jobs, jobsFile>>
  BY <1>11 DEF Picks, Launches, LaunchFails, Tags
<1>12. ASSUME NEW s \in 1 .. launches, SessionEnds(s) \/ PrunesTag(s)  PROVE UNCHANGED <<jobs, jobsFile>>
  BY <1>12 DEF SessionEnds, PrunesTag
<1>13. CASE SchedulerTick
  BY <1>7, <1>13 DEF SchedulerTick
<1> QED  BY <1>1, <1>2, <1>3, <1>4, <1>5, <1>6, <1>7, <1>8, <1>9, <1>10, <1>11, <1>12, <1>13 DEF SchedulerNext

LEMMA LaunchStep ==
  ASSUME ScheduleTypes, [SchedulerNext]_<<schVars, clock>>
  PROVE  LaunchTypes' /\ SessionTypes'
<1>0. LaunchTypes /\ SessionTypes /\ StoreTypes /\ clock \in Nat
  BY DEF ScheduleTypes
<1>a. Idle \in LaunchType /\ Idle.pc = "idle" /\ jobs \in JobType
  BY RecordTypes DEF Idle
<1>b. ASSUME NEW l \in Launchers, launch' = [launch EXCEPT ![l] = Idle], UNCHANGED <<launches, daemons, tags>>
      PROVE  LaunchTypes' /\ SessionTypes'
  BY <1>0, <1>a, <1>b DEF LaunchTypes, SessionTypes
<1>1. ASSUME NEW w \in BOOLEAN, PutsOff(w)  PROVE LaunchTypes' /\ SessionTypes'
  BY <1>1, <1>b DEF PutsOff, Launchers
<1>2. ASSUME NEW w \in BOOLEAN, NEW l \in Launchers, MarkRan(l, w)  PROVE LaunchTypes' /\ SessionTypes'
  BY <1>2, <1>b DEF MarkRan
<1>3. ASSUME NEW w \in BOOLEAN, Restart(w)  PROVE LaunchTypes' /\ SessionTypes'
  BY <1>0, <1>3, <1>a DEF Restart, LaunchTypes, SessionTypes
<1>4. ASSUME NEW l \in Launchers, Picks(l)  PROVE LaunchTypes' /\ SessionTypes'
  <2> DEFINE new == [Idle EXCEPT !.pc = "due", !.job = jobs, !.at = clock]
  <2>1. launch' = [launch EXCEPT ![l] = new] /\ UNCHANGED <<launches, daemons, tags>> /\ Real(jobs)
    BY <1>0, <1>4 DEF Picks, StoreTypes
  <2>2. new \in LaunchType /\ new.pc = "due" /\ new.job = jobs
    BY <1>0, <1>a DEF LaunchType
  <2> HIDE DEF new
  <2> QED  BY <1>0, <2>1, <2>2 DEF LaunchTypes, SessionTypes
<1>5. ASSUME NEW l \in Launchers, NEW g, MakesRoom(l, g)  PROVE LaunchTypes' /\ SessionTypes'
  <2> DEFINE new == [launch[l] EXCEPT !.pc = "create"]
  <2>1. launch' = [launch EXCEPT ![l] = new] /\ UNCHANGED <<launches, tags>> /\ daemons' \subseteq daemons /\ Real(launch[l].job)
    BY <1>0, <1>5 DEF MakesRoom, LaunchTypes, Enforce
  <2>2. new \in LaunchType /\ new.pc = "create" /\ new.job = launch[l].job
    BY <1>0 DEF LaunchTypes, LaunchType
  <2> HIDE DEF new
  <2> QED  BY <1>0, <2>1, <2>2 DEF LaunchTypes, SessionTypes
<1>6. ASSUME NEW l \in Launchers, Launches(l)  PROVE LaunchTypes' /\ SessionTypes'
  <2> DEFINE new == [launch[l] EXCEPT !.pc = IF launch[l].job.remote THEN "mark" ELSE "tag", !.session = launches']
  <2>1. launch' = [launch EXCEPT ![l] = new] /\ UNCHANGED tags /\ launches' = launches + 1
        /\ daemons' \subseteq daemons \cup {launches'} /\ Real(launch[l].job)
    BY <1>0, <1>6 DEF Launches, LaunchTypes
  <2>2. launches \in Nat /\ launches' \in Nat /\ launches' \in 1 .. launches' /\ 1 .. launches \subseteq 1 .. launches'
    BY <1>0, <2>1 DEF SessionTypes
  <2>3. new \in LaunchType /\ new.pc # "idle" /\ new.job = launch[l].job /\ new.session = launches'
    BY <1>0, <2>2 DEF LaunchTypes, LaunchType
  <2> HIDE DEF new
  <2>4. SessionTypes'
    BY <1>0, <2>1, <2>2 DEF SessionTypes
  <2> QED  BY <1>0, <2>1, <2>2, <2>3, <2>4 DEF LaunchTypes
<1>7. ASSUME NEW l \in Launchers, LaunchFails(l)  PROVE LaunchTypes' /\ SessionTypes'
  <2> DEFINE new == [launch[l] EXCEPT !.pc = "fail"]
  <2>1. CASE l # "tick"
    BY <1>7, <1>b, <2>1 DEF LaunchFails
  <2>2. CASE l = "tick"
    <3>1. launch' = [launch EXCEPT ![l] = new] /\ UNCHANGED <<launches, daemons, tags>> /\ Real(launch[l].job)
      BY <1>0, <1>7, <2>2 DEF LaunchFails, LaunchTypes
    <3>2. new \in LaunchType /\ new.pc = "fail" /\ new.job = launch[l].job
      BY <1>0 DEF LaunchTypes, LaunchType
    <3> HIDE DEF new
    <3> QED  BY <1>0, <3>1, <3>2 DEF LaunchTypes, SessionTypes
  <2> QED  BY <2>1, <2>2
<1>8. ASSUME NEW l \in Launchers, Tags(l)  PROVE LaunchTypes' /\ SessionTypes'
  <2> DEFINE new == [launch[l] EXCEPT !.pc = "mark"]
  <2>1. launch' = [launch EXCEPT ![l] = new] /\ UNCHANGED <<launches, daemons>> /\ Real(launch[l].job)
        /\ DOMAIN tags' = DOMAIN tags \cup {launch[l].session} /\ launch[l].session \in 1 .. launches
    BY <1>0, <1>8 DEF Tags, LaunchTypes
  <2>2. new \in LaunchType /\ new.pc = "mark" /\ new.job = launch[l].job
    BY <1>0 DEF LaunchTypes, LaunchType
  <2> HIDE DEF new
  <2> QED  BY <1>0, <2>1, <2>2 DEF LaunchTypes, SessionTypes
<1>9. ASSUME UNCHANGED <<launch, launches>>, daemons' \subseteq daemons, DOMAIN tags' \subseteq DOMAIN tags
      PROVE  LaunchTypes' /\ SessionTypes'
  BY <1>0, <1>9 DEF LaunchTypes, SessionTypes
<1>10. ASSUME NEW g \in SUBSET daemons, PutCaps(g)  PROVE LaunchTypes' /\ SessionTypes'
  BY <1>9, <1>10 DEF PutCaps, Enforce
<1>11. ASSUME NEW s \in 1 .. launches, SessionEnds(s) \/ PrunesTag(s)  PROVE LaunchTypes' /\ SessionTypes'
  BY <1>9, <1>11 DEF SessionEnds, PrunesTag
<1>12. ASSUME NEW w \in BOOLEAN, (\E s \in Settings : Add(s, w)) \/ RemoveSchedule(w) \/ PutWrites(w)
       PROVE  LaunchTypes' /\ SessionTypes'
  BY <1>9, <1>12 DEF Add, RemoveSchedule, PutWrites
<1>13. ASSUME (\E s \in Settings : PutReads(s)) \/ SchedulerTick \/ UNCHANGED <<schVars, clock>>  PROVE LaunchTypes' /\ SessionTypes'
  BY <1>9, <1>13 DEF PutReads, SchedulerTick, schVars
<1> QED  BY <1>1, <1>2, <1>3, <1>4, <1>5, <1>6, <1>7, <1>8, <1>10, <1>11, <1>12, <1>13 DEF SchedulerNext

LEMMA PutStep ==
  ASSUME ScheduleTypes, [SchedulerNext]_<<schVars, clock>>
  PROVE  PutTypes'
<1>0. PutTypes
  BY DEF ScheduleTypes
<1>a. NoPut \in [pc : {"idle", "read", "cap"}, job : JobType] /\ NoPut.pc = "idle"
  BY RecordTypes DEF NoPut
<1>b. ASSUME put' = NoPut \/ put' = put  PROVE PutTypes'
  BY <1>0, <1>a, <1>b DEF PutTypes
<1>1. ASSUME NEW s \in Settings, PutReads(s)  PROVE PutTypes'
  <2> DEFINE j == WithNext(Job(s, jobs.runs), clock)
  <2>1. jobs.runs \in Nat
    BY RecordTypes DEF JobType
  <2>2. Real(j)
    BY <2>1, NewJobs
  <2>3. put' = [pc |-> "read", job |-> j]
    BY <1>1 DEF PutReads
  <2> HIDE DEF j
  <2> QED  BY <2>2, <2>3 DEF PutTypes, Real
<1>2. ASSUME NEW w \in BOOLEAN, PutWrites(w)  PROVE PutTypes'
  <2>1. CASE put' = [put EXCEPT !.pc = "cap"]
    BY <1>0, <1>2, <2>1 DEF PutTypes, PutWrites
  <2> QED  BY <1>2, <1>b, <2>1 DEF PutWrites
<1>3. ASSUME NEW w \in BOOLEAN, (\E s \in Settings : Add(s, w)) \/ RemoveSchedule(w) \/ PutsOff(w) \/ Restart(w)
              \/ \E l \in Launchers : MarkRan(l, w)
      PROVE  PutTypes'
  BY <1>3, <1>b DEF Add, RemoveSchedule, PutsOff, Restart, MarkRan
<1>4. ASSUME NEW g \in SUBSET daemons, PutCaps(g) \/ \E l \in Launchers : MakesRoom(l, g)  PROVE PutTypes'
  BY <1>4, <1>b DEF PutCaps, MakesRoom
<1>5. ASSUME NEW l \in Launchers, Picks(l) \/ Launches(l) \/ LaunchFails(l) \/ Tags(l)  PROVE PutTypes'
  BY <1>5, <1>b DEF Picks, Launches, LaunchFails, Tags
<1>6. ASSUME NEW s \in 1 .. launches, SessionEnds(s) \/ PrunesTag(s)  PROVE PutTypes'
  BY <1>6, <1>b DEF SessionEnds, PrunesTag
<1>7. ASSUME SchedulerTick \/ UNCHANGED <<schVars, clock>>  PROVE PutTypes'
  BY <1>7, <1>b DEF SchedulerTick, schVars
<1> QED  BY <1>1, <1>2, <1>3, <1>4, <1>5, <1>6, <1>7 DEF SchedulerNext

LEMMA HistoryStep ==
  ASSUME ScheduleTypes, [SchedulerNext]_<<schVars, clock>>
  PROVE  clock' \in Nat /\ HistoryTypes'
<1>0. clock \in Nat /\ HistoryTypes
  BY DEF ScheduleTypes
<1>1. ASSUME NEW w \in BOOLEAN, (\E s \in Settings : Add(s, w)) \/ RemoveSchedule(w) \/ PutsOff(w) \/ Restart(w)
      PROVE  clock' \in Nat /\ HistoryTypes'
  BY <1>0, <1>1 DEF HistoryTypes, Add, RemoveSchedule, PutsOff, Restart
<1>2. ASSUME NEW w \in BOOLEAN, PutWrites(w) \/ \E l \in Launchers : MarkRan(l, w)
      PROVE  clock' \in Nat /\ HistoryTypes'
  BY <1>0, <1>2 DEF HistoryTypes, PutWrites, MarkRan
<1>3. ASSUME NEW s \in Settings, PutReads(s)  PROVE clock' \in Nat /\ HistoryTypes'
  BY <1>0, <1>3 DEF HistoryTypes, PutReads
<1>4. ASSUME NEW g \in SUBSET daemons, PutCaps(g) \/ \E l \in Launchers : MakesRoom(l, g)  PROVE clock' \in Nat /\ HistoryTypes'
  BY <1>0, <1>4 DEF HistoryTypes, PutCaps, MakesRoom
<1>5. ASSUME NEW l \in Launchers, Picks(l) \/ LaunchFails(l) \/ Tags(l)  PROVE clock' \in Nat /\ HistoryTypes'
  BY <1>0, <1>5 DEF HistoryTypes, Picks, LaunchFails, Tags
<1>6. ASSUME NEW l \in Launchers, Launches(l)  PROVE clock' \in Nat /\ HistoryTypes'
  <2>1. launch[l].job.next \in Nat
    BY DEF ScheduleTypes, LaunchTypes, LaunchType, JobType
  <2> QED  BY <1>0, <1>6, <2>1 DEF HistoryTypes, Launches
<1>7. ASSUME NEW s \in 1 .. launches, SessionEnds(s) \/ PrunesTag(s)  PROVE clock' \in Nat /\ HistoryTypes'
  BY <1>0, <1>7 DEF HistoryTypes, SessionEnds, PrunesTag
<1>8. ASSUME SchedulerTick \/ UNCHANGED <<schVars, clock>>  PROVE clock' \in Nat /\ HistoryTypes'
  <2>1. clock' = clock \/ clock' = clock + 1
    BY <1>8 DEF SchedulerTick, ClockAdvances
  <2>2. clock' \in Nat
    BY <1>0, <2>1
  <2>3. HistoryTypes'
    BY <1>0, <1>8 DEF HistoryTypes, SchedulerTick, schVars
  <2> QED  BY <2>2, <2>3
<1> QED  BY <1>1, <1>2, <1>3, <1>4, <1>5, <1>6, <1>7, <1>8 DEF SchedulerNext

LEMMA TypesStep == ScheduleTypes /\ [SchedulerNext]_<<schVars, clock>> => ScheduleTypes'
BY StoreStep, LaunchStep, PutStep, HistoryStep DEF ScheduleTypes

\* The store keeps what was last accepted.
LEMMA IntentStep ==
  ASSUME ScheduleTypes, IntentKept, [SchedulerNext]_<<schVars, clock>>
  PROVE  IntentKept'
<1>1. ASSUME NEW w \in BOOLEAN, NEW s \in Settings, Add(s, w)  PROVE IntentKept'
  <2>1. SettingsOf(WithNext(Job(s, 0), clock)) = s
    BY NewJobs, 0 \in Nat
  <2>2. jobs' = WithNext(Job(s, 0), clock) /\ intent' = s
    BY <1>1 DEF Add, Save
  <2> QED  BY <2>1, <2>2 DEF IntentKept
<1>2. ASSUME NEW w \in BOOLEAN, RemoveSchedule(w)  PROVE IntentKept'
  BY <1>2 DEF IntentKept, RemoveSchedule, Save
<1>3. ASSUME NEW w \in BOOLEAN, PutWrites(w)  PROVE IntentKept'
  <2>1. SettingsOf(Updated(jobs, put.job)) = SettingsOf(put.job)
    BY <1>3, UpdatedJobs DEF PutWrites, ScheduleTypes, PutTypes
  <2>2. IF jobs # NoJob THEN jobs' = Updated(jobs, put.job) /\ intent' = SettingsOf(put.job) ELSE UNCHANGED <<jobs, intent>>
    BY <1>3 DEF PutWrites, Save, Found
  <2> QED  BY <2>1, <2>2 DEF IntentKept
<1>4. ASSUME NEW w \in BOOLEAN, PutsOff(w)  PROVE IntentKept'
  <2> DEFINE t == launch["tick"]
             j == [t.job EXCEPT !.next = NextRunFor(t.job.period, t.at)]
  <2>1. t.pc # "idle"
        /\ (IF jobs # NoJob THEN jobs' = Updated(jobs, j) /\ intent' = SettingsOf(j) ELSE UNCHANGED <<jobs, intent>>)
    BY <1>4 DEF PutsOff, Save, Found
  <2>2. Real(j)
    BY <2>1, PutOffJobs
  <2> HIDE DEF j
  <2>3. SettingsOf(Updated(jobs, j)) = SettingsOf(j)
    BY <2>2, UpdatedJobs
  <2> QED  BY <2>1, <2>3 DEF IntentKept
<1>5. ASSUME NEW w \in BOOLEAN, NEW l \in Launchers, MarkRan(l, w)  PROVE IntentKept'
  <2> DEFINE j == [jobs EXCEPT !.next = NextAfter(l), !.runs = @ + 1]
  <2>1. launch[l].pc # "idle" /\ intent' = intent /\ (jobs = NoJob => jobs' = jobs) /\ (jobs # NoJob => jobs' = j)
    BY <1>5 DEF MarkRan, Save
  <2>2. jobs # NoJob => SettingsOf(j) = SettingsOf(jobs)
    BY <2>1, MarkedJobs
  <2> HIDE DEF j
  <2> QED  BY <2>1, <2>2 DEF IntentKept
<1>6. ASSUME NEW w \in BOOLEAN, Restart(w)  PROVE IntentKept'
  BY <1>6, ReconciledJobs DEF IntentKept, Restart
<1>7. ASSUME UNCHANGED <<jobs, intent>>  PROVE IntentKept'
  BY <1>7 DEF IntentKept
<1>8. ASSUME NEW g \in SUBSET daemons, PutCaps(g) \/ \E l \in Launchers : MakesRoom(l, g)  PROVE IntentKept'
  BY <1>7, <1>8 DEF PutCaps, MakesRoom
<1>9. ASSUME NEW l \in Launchers, Picks(l) \/ Launches(l) \/ LaunchFails(l) \/ Tags(l)  PROVE IntentKept'
  BY <1>7, <1>9 DEF Picks, Launches, LaunchFails, Tags
<1>10. ASSUME NEW s \in 1 .. launches, SessionEnds(s) \/ PrunesTag(s)  PROVE IntentKept'
  BY <1>7, <1>10 DEF SessionEnds, PrunesTag
<1>11. ASSUME (\E s \in Settings : PutReads(s)) \/ SchedulerTick \/ UNCHANGED <<schVars, clock>>  PROVE IntentKept'
  BY <1>7, <1>11 DEF PutReads, SchedulerTick, schVars
<1> QED  BY <1>1, <1>2, <1>3, <1>4, <1>5, <1>6, <1>8, <1>9, <1>10, <1>11 DEF SchedulerNext

LEMMA InstantsStep ==
  ASSUME ScheduleTypes, InstantsPass, [SchedulerNext]_<<schVars, clock>>
  PROVE  InstantsPass'
<1> DEFINE t == launch["tick"]
<1>0. /\ clock \in Nat /\ fired \subseteq Nat /\ raced \in BOOLEAN /\ t \in LaunchType /\ t.at \in Nat /\ t.job.next \in Nat
      /\ "tick" \in Launchers /\ jobs \in JobType /\ jobs.next \in Nat
  BY RecordTypes DEF ScheduleTypes, HistoryTypes, LaunchTypes, Launchers, LaunchType, JobType
<1>a. NoJob.enabled = FALSE /\ Idle.pc = "idle"
  BY DEF NoJob, Idle
<1>b. ASSUME t' = t, UNCHANGED <<jobs, fired, twice, raced, clock>>  PROVE InstantsPass'
  BY <1>b DEF InstantsPass, Repeats
<1>c. ASSUME t' = t, UNCHANGED <<fired, twice, clock>>, raced => raced', ~raced' => ~Repeats(jobs')  PROVE InstantsPass'
  BY <1>0, <1>c DEF InstantsPass, Repeats
<1>d. ASSUME t'.pc = "idle", UNCHANGED <<fired, twice, raced, clock>>, jobs'.enabled => \A f \in fired : f < jobs'.next,
             jobs'.next \in Nat
      PROVE  InstantsPass'
  <2>1. ~Repeats(jobs)'
    BY <1>0, <1>d DEF Repeats
  <2> QED  BY <1>d, <2>1 DEF InstantsPass
<1>1. ASSUME NEW w \in BOOLEAN, NEW s \in Settings, Add(s, w)  PROVE InstantsPass'
  <2>1. WithNext(Job(s, 0), clock).enabled => WithNext(Job(s, 0), clock).next > clock
    BY NewJobs, 0 \in Nat
  <2>2. Real(WithNext(Job(s, 0), clock))
    BY NewJobs, 0 \in Nat
  <2>3. jobs' = WithNext(Job(s, 0), clock) /\ UNCHANGED <<launch, fired, twice, raced, clock>>
    BY <1>1 DEF Add, Save
  <2>4. jobs'.next \in Nat /\ (jobs'.enabled => jobs'.next > clock)
    BY <2>1, <2>2, <2>3 DEF Real, JobType
  <2>5. \A f \in fired : f <= clock
    BY DEF InstantsPass
  <2>6. ~Repeats(jobs')
    BY <1>0, <2>4, <2>5 DEF Repeats
  <2> QED  BY <1>c, <2>3, <2>6
<1>2. ASSUME NEW w \in BOOLEAN, RemoveSchedule(w)  PROVE InstantsPass'
  BY <1>2, <1>a, <1>c DEF RemoveSchedule, Save, Repeats
<1>3. ASSUME NEW w \in BOOLEAN, PutWrites(w)  PROVE InstantsPass'
  <2>1. CASE ~Found(jobs)
    BY <1>3, <1>b, <2>1 DEF PutWrites
  <2>2. CASE Found(jobs)
    <3>1. jobs' = Updated(jobs, put.job) /\ raced' = (raced \/ Repeats(put.job)) /\ UNCHANGED <<launch, fired, twice, clock>>
      BY <1>3, <2>2 DEF PutWrites, Save
    <3>2. Updated(jobs, put.job).next = put.job.next /\ Updated(jobs, put.job).enabled = put.job.enabled
      BY <1>3, UpdatedJobs DEF PutWrites, ScheduleTypes, PutTypes
    <3>3. Repeats(jobs') = Repeats(put.job)
      BY <3>1, <3>2 DEF Repeats
    <3> QED  BY <1>c, <3>1, <3>3
  <2> QED  BY <2>1, <2>2
<1>4. ASSUME NEW w \in BOOLEAN, PutsOff(w)  PROVE InstantsPass'
  <2> DEFINE j == [t.job EXCEPT !.next = NextRunFor(t.job.period, t.at)]
  <2>1. t.pc # "idle" /\ (IF jobs # NoJob THEN jobs' = Updated(jobs, j) ELSE jobs' = jobs)
        /\ launch' = [launch EXCEPT !["tick"] = Idle] /\ UNCHANGED <<fired, twice, raced, clock>>
    BY <1>4 DEF PutsOff, Save, Found
  <2>2. Real(j) /\ j.next > t.at
    BY <2>1, PutOffJobs
  <2> HIDE DEF j
  <2>3. Updated(jobs, j).next = j.next /\ j.next \in Nat
    BY <2>2, UpdatedJobs DEF Real, JobType
  <2>4. t'.pc = "idle"
    BY <1>0, <1>a, <2>1 DEF ScheduleTypes, LaunchTypes
  <2>5. \A f \in fired : f <= t.at
    BY <2>1 DEF InstantsPass
  <2>6. jobs'.next \in Nat /\ (jobs'.enabled => \A f \in fired : f < jobs'.next)
    BY <1>0, <1>a, <2>1, <2>2, <2>3, <2>5
  <2> QED  BY <1>d, <2>1, <2>4, <2>6
<1>5. ASSUME NEW w \in BOOLEAN, NEW l \in Launchers, MarkRan(l, w)  PROVE InstantsPass'
  <2> DEFINE j == [jobs EXCEPT !.next = NextAfter(l), !.runs = @ + 1]
             k == [jobs EXCEPT !.next = NextAfter(l)]
  <2>1. launch[l].pc # "idle" /\ (jobs = NoJob => jobs' = jobs /\ raced' = raced)
        /\ (jobs # NoJob => jobs' = j /\ raced' = (raced \/ (l = "run" /\ Repeats(k))))
        /\ launch' = [launch EXCEPT ![l] = Idle] /\ UNCHANGED <<fired, twice, clock>>
    BY <1>5 DEF MarkRan, Save
  <2>2. jobs # NoJob => /\ j.next = NextAfter(l) /\ k.next = NextAfter(l) /\ j.enabled = jobs.enabled /\ k.enabled = jobs.enabled
                        /\ NextAfter(l) \in Nat /\ (l = "tick" => NextAfter(l) > launch[l].at)
    BY <2>1, MarkedJobs
  <2> HIDE DEF j, k
  <2>3. CASE l = "tick"
    <3>1. t'.pc = "idle" /\ raced' = raced
      BY <1>0, <1>a, <2>1, <2>3 DEF ScheduleTypes, LaunchTypes
    <3>2. \A f \in fired : f <= t.at
      BY <2>1, <2>3 DEF InstantsPass
    <3>3. jobs'.next \in Nat /\ (jobs'.enabled => \A f \in fired : f < jobs'.next)
      BY <1>0, <1>a, <2>1, <2>2, <2>3, <3>2
    <3> QED  BY <1>d, <2>1, <3>1, <3>3
  <2>4. CASE l # "tick"
    <3>1. t' = t /\ l = "run"
      BY <1>0, <2>1, <2>4 DEF ScheduleTypes, LaunchTypes, Launchers
    <3>2. CASE jobs = NoJob
      BY <1>b, <2>1, <3>1, <3>2
    <3>3. CASE jobs # NoJob
      <4>1. Repeats(jobs') = Repeats(k)
        BY <2>1, <2>2, <3>3 DEF Repeats
      <4> QED  BY <1>c, <2>1, <3>1, <3>3, <4>1
    <3> QED  BY <3>2, <3>3
  <2> QED  BY <2>3, <2>4
<1>6. ASSUME NEW w \in BOOLEAN, Restart(w)  PROVE InstantsPass'
  <2>1. t'.pc = "idle" /\ jobs' = Reconciled(jobsFile) /\ UNCHANGED <<fired, twice, raced, clock>>
    BY <1>0, <1>6, <1>a DEF Restart
  <2>2. jobs'.enabled => jobs'.next > clock
    BY <2>1, ReconciledJobs
  <2>3. jobs' \in JobType
    BY <2>1, ReconciledJobs, RecordTypes, RealJobs
  <2>4. jobs'.next \in Nat
    BY <2>3 DEF JobType
  <2>5. \A f \in fired : f <= clock
    BY DEF InstantsPass
  <2> QED  BY <1>0, <1>d, <2>1, <2>2, <2>4, <2>5
<1>7. ASSUME NEW l \in Launchers, l # "tick", Picks(l) \/ Launches(l) \/ LaunchFails(l) \/ Tags(l) \/ \E g \in SUBSET daemons : MakesRoom(l, g)
      PROVE  InstantsPass'
  <2>1. t' = t
    BY <1>0, <1>7 DEF Picks, Launches, LaunchFails, Tags, MakesRoom, ScheduleTypes, LaunchTypes
  <2>2. CASE Launches(l)
    <3>1. twice \in BOOLEAN
      BY DEF ScheduleTypes, HistoryTypes
    <3>2. twice' = twice /\ UNCHANGED <<jobs, fired, raced, clock>>
      BY <1>7, <2>2, <3>1 DEF Launches
    <3> QED  BY <1>b, <2>1, <3>2
  <2> QED  BY <1>7, <1>b, <2>1, <2>2 DEF Picks, LaunchFails, Tags, MakesRoom
<1>8. ASSUME Picks("tick")  PROVE InstantsPass'
  <2> DEFINE new == [Idle EXCEPT !.pc = "due", !.job = jobs, !.at = clock]
  <2>1. t.pc = "idle" /\ jobs.enabled /\ jobs.next <= clock /\ launch' = [launch EXCEPT !["tick"] = new]
        /\ UNCHANGED <<jobs, fired, twice, raced, clock>>
    BY <1>8 DEF Picks, DueNow
  <2>2. new.pc = "due" /\ new.job = jobs /\ new.at = clock
    BY DEF Idle
  <2> HIDE DEF new
  <2>3. t' = new
    BY <1>0, <2>1 DEF ScheduleTypes, LaunchTypes
  <2>4. ~raced => \A f \in fired : f < jobs.next
    BY <1>0, <2>1 DEF InstantsPass, Repeats
  <2> QED  BY <1>0, <2>1, <2>2, <2>3, <2>4 DEF InstantsPass, Repeats
<1>9. ASSUME NEW p \in {"create", "fail", "mark"}, launch' = [launch EXCEPT !["tick"].pc = p],
             p = "create" => t.pc = "due", p = "fail" => t.pc = "create", p = "mark" => t.pc = "tag",
             UNCHANGED <<jobs, fired, twice, raced, clock>>
      PROVE  InstantsPass'
  <2>1. t' = [t EXCEPT !.pc = p]
    BY <1>0, <1>9 DEF ScheduleTypes, LaunchTypes
  <2>2. t'.pc = p /\ t'.job = t.job /\ t'.at = t.at
    BY <1>0, <2>1 DEF LaunchType
  <2> QED  BY <1>9, <2>2 DEF InstantsPass, Repeats
<1>10. ASSUME NEW g \in SUBSET daemons, MakesRoom("tick", g)  PROVE InstantsPass'
  BY <1>9, <1>10 DEF MakesRoom
<1>11. ASSUME LaunchFails("tick") \/ Tags("tick")  PROVE InstantsPass'
  BY <1>9, <1>11 DEF LaunchFails, Tags
<1>12. ASSUME Launches("tick")  PROVE InstantsPass'
  <2> DEFINE new == [t EXCEPT !.pc = IF t.job.remote THEN "mark" ELSE "tag", !.session = launches']
  <2>1. t.pc = "create" /\ launch' = [launch EXCEPT !["tick"] = new] /\ fired' = fired \cup {t.job.next}
        /\ twice' = (twice \/ t.job.next \in fired) /\ UNCHANGED <<jobs, raced, clock>>
    BY <1>12 DEF Launches
  <2>2. new.pc \in {"tag", "mark"} /\ new.job = t.job /\ new.at = t.at
    BY <1>0 DEF LaunchType
  <2> HIDE DEF new
  <2>3. t' = new
    BY <1>0, <2>1 DEF ScheduleTypes, LaunchTypes
  <2>4. t.job.next \in fired => raced
    BY <1>0, <2>1 DEF InstantsPass
  <2>5. twice' => raced'
    BY <2>1, <2>4 DEF InstantsPass
  <2> QED  BY <1>0, <2>1, <2>2, <2>3, <2>5 DEF InstantsPass, Repeats
<1>13. ASSUME NEW g \in SUBSET daemons, PutCaps(g)  PROVE InstantsPass'
  BY <1>b, <1>13 DEF PutCaps
<1>14. ASSUME NEW s \in 1 .. launches, SessionEnds(s) \/ PrunesTag(s)  PROVE InstantsPass'
  BY <1>b, <1>14 DEF SessionEnds, PrunesTag
<1>15. ASSUME (\E s \in Settings : PutReads(s)) \/ UNCHANGED <<schVars, clock>>  PROVE InstantsPass'
  BY <1>b, <1>15 DEF PutReads, schVars
<1>16. ASSUME SchedulerTick  PROVE InstantsPass'
  <2>1. clock' = clock + 1 /\ UNCHANGED <<jobs, launch, fired, twice, raced>>
    BY <1>16 DEF SchedulerTick, ClockAdvances
  <2> QED  BY <1>0, <2>1 DEF InstantsPass, Repeats
<1> HIDE DEF t
<1> QED  BY <1>1, <1>2, <1>3, <1>4, <1>5, <1>6, <1>7, <1>8, <1>10, <1>11, <1>12, <1>13, <1>14, <1>15, <1>16 DEF SchedulerNext

LEMMA NumberedFinite ==
  ASSUME NEW n \in Nat, NEW T \in SUBSET (1 .. n)
  PROVE  T \in SUBSET Nat /\ IsFiniteSet(T) /\ Cardinality(T) \in Nat
<1>1. IsFiniteSet(1 .. n)
  BY FS_Interval
<1>2. T \in SUBSET Nat
  OBVIOUS
<1>3. IsFiniteSet(T)
  BY <1>1, FS_Subset
<1> QED  BY <1>2, <1>3, FS_CardinalityType

LEMMA TaggedFinite ==
  ASSUME SessionTypes
  PROVE  Tagged \in SUBSET Nat /\ IsFiniteSet(Tagged) /\ Cardinality(Tagged) \in Nat
BY NumberedFinite DEF Tagged, SessionTypes

LEMMA TaggedShrinks ==
  ASSUME SessionTypes, SessionTypes', Tagged' \subseteq Tagged
  PROVE  Cardinality(Tagged') <= Cardinality(Tagged)
BY TaggedFinite, FS_Subset

\* EnforceScheduleCap leaves at most keep tagged sessions, if every kill succeeds.
LEMMA EnforceLeaves ==
  ASSUME SessionTypes, NEW keep \in Nat, Enforce(keep, {}), UNCHANGED tags
  PROVE  Cardinality(Tagged') <= keep
<1>1. Tagged' = {s \in Tagged : ~ Cardinality({o \in Tagged : o > s}) >= keep}
  BY DEF Enforce, Victims, Tagged
<1> QED  BY <1>1, TaggedFinite, FewLeft

\* A schedule's settings tell it from none, and hold its cap.
LEMMA SettingsTell ==
  ASSUME NEW j, NEW k, j = NoJob \/ Real(j), k = NoJob \/ Real(k), SettingsOf(j) = SettingsOf(k)
  PROVE  (j = NoJob <=> k = NoJob) /\ j.cap = k.cap
<1>1. SettingsOf(j).cap = SettingsOf(k).cap
  OBVIOUS
<1>2. j.cap = k.cap
  BY <1>1 DEF SettingsOf
<1> QED  BY <1>2, RealJobs

\* Jobs are written back with their settings, and a launcher moves on with its job.
LEMMA WorkGoesOn ==
  ASSUME ScheduleTypes, StoreTypes', OneAtWork,
         SettingsOf(jobs') = SettingsOf(jobs), SettingsOf(jobsFile') = SettingsOf(jobs),
         put' = put,
         \A l \in Launchers : launch'[l].pc # "idle" => launch[l].pc # "idle" /\ launch'[l].job = launch[l].job
  PROVE  OneAtWork' /\ (jobs' = NoJob <=> jobs = NoJob) /\ jobs'.cap = jobs.cap
<1>1. (jobs' = NoJob <=> jobs = NoJob) /\ jobs'.cap = jobs.cap
  BY SettingsTell DEF ScheduleTypes, StoreTypes
<1> QED  BY <1>1 DEF OneAtWork

\* Nothing is under way: what is left to show is the cap of the schedule.
LEMMA AllIdle ==
  ASSUME \A l \in Launchers : launch'[l].pc = "idle", put'.pc # "cap",
         SettingsOf(jobsFile') = SettingsOf(jobs'),
         jobs' # NoJob /\ jobs'.cap > 0 => Cardinality(Tagged') <= jobs'.cap
  PROVE  OneAtWork' /\ RoomKept'
BY DEF OneAtWork, RoomKept

LEMMA RoomStep ==
  ASSUME ScheduleTypes, ScheduleTypes', ~excused => OneAtWork /\ RoomKept, [SchedulerNext]_<<schVars, clock>>, ~excused'
  PROVE  OneAtWork' /\ RoomKept'
<1>0. StoreTypes /\ LaunchTypes /\ SessionTypes /\ StoreTypes' /\ SessionTypes' /\ excused \in BOOLEAN
  BY DEF ScheduleTypes, HistoryTypes
<1>a. Idle.pc = "idle" /\ NoPut.pc = "idle" /\ NoJob.cap = 0
  BY DEF Idle, NoPut, NoJob
<1>b. Cardinality(Tagged) \in Nat /\ Cardinality(Tagged') \in Nat
  BY <1>0, NumberedFinite DEF Tagged, SessionTypes
<1>c. ASSUME ~Busy, UNCHANGED launch  PROVE \A l \in Launchers : launch'[l].pc = "idle"
  BY <1>c DEF Busy
<1>d. ASSUME OneAtWork, RoomKept, UNCHANGED <<jobs, jobsFile, put, launch>>, Tagged' \subseteq Tagged  PROVE OneAtWork' /\ RoomKept'
  <2>1. Cardinality(Tagged') <= Cardinality(Tagged)
    BY <1>0, <1>d, TaggedShrinks
  <2>2. OneAtWork'
    BY <1>d DEF OneAtWork
  <2>3. jobs.cap \in Nat
    BY RecordTypes DEF JobType
  <2> QED  BY <1>b, <1>d, <2>1, <2>2, <2>3 DEF RoomKept
<1>1. ASSUME NEW w \in BOOLEAN, NEW s \in Settings, Add(s, w)  PROVE OneAtWork' /\ RoomKept'
  <2>1. SettingsOf(WithNext(Job(s, 0), clock)) = s
    BY NewJobs, 0 \in Nat
  <2>2. jobs' = WithNext(Job(s, 0), clock) /\ ~Busy /\ w /\ ~(s.cap > 0 /\ Cardinality(Tagged) > s.cap)
        /\ jobsFile' = jobs' /\ UNCHANGED <<launch, put, daemons, tags>>
    BY <1>1 DEF Add, Save
  <2>3. SettingsOf(jobs').cap = s.cap
    BY <2>1, <2>2
  <2>4. jobs'.cap = s.cap /\ s.cap \in Nat
    BY <2>3, SettingsRecords DEF SettingsOf
  <2>5. Tagged' = Tagged /\ put'.pc # "cap"
    BY <2>2 DEF Tagged, Busy
  <2>6. jobs'.cap > 0 => Cardinality(Tagged') <= jobs'.cap
    BY <1>b, <2>2, <2>4, <2>5
  <2> QED  BY <1>c, <2>2, <2>5, <2>6, AllIdle
<1>2. ASSUME NEW w \in BOOLEAN, RemoveSchedule(w)  PROVE OneAtWork' /\ RoomKept'
  <2>1. ~excused /\ jobs' = NoJob /\ jobsFile' = NoJob /\ UNCHANGED <<launch, put>>
    BY <1>2 DEF RemoveSchedule, Save
  <2> QED  BY <2>1 DEF OneAtWork, RoomKept
<1>3. ASSUME NEW w \in BOOLEAN, PutWrites(w)  PROVE OneAtWork' /\ RoomKept'
  <2>1. ~excused /\ w /\ put.pc = "read" /\ UNCHANGED <<launch, daemons, tags>>
    BY <1>3 DEF PutWrites
  <2>2. \A l \in Launchers : launch'[l].pc = "idle"
    BY <2>1 DEF OneAtWork
  <2>3. CASE jobs = NoJob
    <3>1. jobs' = NoJob /\ jobsFile' = jobsFile /\ put' = NoPut
      BY <1>3, <2>3 DEF PutWrites, Found
    <3> QED  BY <1>a, <2>1, <2>2, <2>3, <3>1, AllIdle DEF OneAtWork
  <2>4. CASE jobs # NoJob
    <3>1. jobs' = Updated(jobs, put.job) /\ jobsFile' = jobs' /\ put' = IF put.job.cap > 0 THEN [put EXCEPT !.pc = "cap"] ELSE NoPut
      BY <1>3, <2>1, <2>4 DEF PutWrites, Found, Save
    <3>2. SettingsOf(jobs') = SettingsOf(put.job) /\ Real(put.job) /\ put.job.cap \in Nat
      BY <2>1, <3>1, UpdatedJobs DEF ScheduleTypes, PutTypes, Real, JobType
    <3>3. jobs'.cap = put.job.cap
      BY <1>0, <3>2, SettingsTell DEF StoreTypes
    <3>4. CASE put.job.cap > 0
      <4>1. put'.pc = "cap" /\ put'.job = put.job
        BY <3>1, <3>4 DEF ScheduleTypes, PutTypes
      <4> QED  BY <2>2, <3>1, <3>2, <4>1 DEF OneAtWork, RoomKept
    <3>5. CASE ~(put.job.cap > 0)
      BY <1>a, <2>2, <3>1, <3>3, <3>5, AllIdle
    <3> QED  BY <3>4, <3>5
  <2> QED  BY <2>3, <2>4
<1>4. ASSUME NEW w \in BOOLEAN, PutsOff(w)  PROVE OneAtWork' /\ RoomKept'
  <2> DEFINE t == launch["tick"]
             j == [t.job EXCEPT !.next = NextRunFor(t.job.period, t.at)]
  <2>1. t.pc # "idle" /\ w /\ ~excused /\ ~(jobs # NoJob /\ SettingsOf(jobs) # SettingsOf(j))
        /\ (IF jobs # NoJob THEN jobs' = Updated(jobs, j) /\ jobsFile' = jobs' ELSE UNCHANGED <<jobs, jobsFile>>)
        /\ launch' = [launch EXCEPT !["tick"] = Idle] /\ UNCHANGED <<put, daemons, tags>>
    BY <1>4 DEF PutsOff, Save, Found
  <2>2. Real(j)
    BY <2>1, PutOffJobs
  <2> HIDE DEF j
  <2>3. SettingsOf(Updated(jobs, j)) = SettingsOf(j)
    BY <2>2, UpdatedJobs
  <2>4. SettingsOf(jobs') = SettingsOf(jobs) /\ SettingsOf(jobsFile') = SettingsOf(jobs)
    BY <2>1, <2>3 DEF OneAtWork
  <2>5. \A l \in Launchers : launch'[l].pc # "idle" => launch'[l] = launch[l]
    BY <1>0, <1>a, <2>1 DEF LaunchTypes
  <2>6. OneAtWork' /\ (jobs' = NoJob <=> jobs = NoJob) /\ jobs'.cap = jobs.cap
    BY <1>0, <2>1, <2>4, <2>5, WorkGoesOn
  <2>7. Tagged' = Tagged
    BY <2>1 DEF Tagged
  <2> QED  BY <2>1, <2>5, <2>6, <2>7 DEF RoomKept
<1>5. ASSUME NEW w \in BOOLEAN, NEW l \in Launchers, MarkRan(l, w)  PROVE OneAtWork' /\ RoomKept'
  <2> DEFINE j == [jobs EXCEPT !.next = NextAfter(l), !.runs = @ + 1]
  <2>1. launch[l].pc # "idle" /\ ~excused /\ (jobs = NoJob => UNCHANGED <<jobs, jobsFile>>)
        /\ (jobs # NoJob => jobs' = j /\ (jobsFile' = j \/ jobsFile' = jobsFile))
        /\ launch' = [launch EXCEPT ![l] = Idle] /\ UNCHANGED <<put, daemons, tags>>
    BY <1>5 DEF MarkRan, Save
  <2>2. jobs # NoJob => SettingsOf(j) = SettingsOf(jobs)
    BY <2>1, MarkedJobs
  <2> HIDE DEF j
  <2>4. SettingsOf(jobs') = SettingsOf(jobs) /\ SettingsOf(jobsFile') = SettingsOf(jobs)
    BY <2>1, <2>2 DEF OneAtWork
  <2>5. \A m \in Launchers : launch'[m].pc # "idle" => launch'[m] = launch[m]
    BY <1>0, <1>a, <2>1 DEF LaunchTypes
  <2>6. OneAtWork' /\ (jobs' = NoJob <=> jobs = NoJob) /\ jobs'.cap = jobs.cap
    BY <1>0, <2>1, <2>4, <2>5, WorkGoesOn
  <2>7. Tagged' = Tagged
    BY <2>1 DEF Tagged
  <2> QED  BY <2>1, <2>5, <2>6, <2>7 DEF RoomKept
<1>6. ASSUME NEW w \in BOOLEAN, Restart(w)  PROVE OneAtWork' /\ RoomKept'
  <2>1. ~excused /\ ~Busy /\ jobs' = Reconciled(jobsFile) /\ (jobsFile' = jobs' \/ jobsFile' = jobsFile)
        /\ launch' = [l \in Launchers |-> Idle] /\ put' = NoPut /\ UNCHANGED <<daemons, tags>>
    BY <1>6 DEF Restart
  <2>2. SettingsOf(jobs') = SettingsOf(jobsFile) /\ SettingsOf(jobsFile) = SettingsOf(jobs)
    BY <2>1, ReconciledJobs DEF OneAtWork
  <2>3. (jobs' = NoJob <=> jobs = NoJob) /\ jobs'.cap = jobs.cap
    BY <1>0, <2>2, SettingsTell DEF StoreTypes
  <2>4. jobs' # NoJob /\ jobs'.cap > 0 => Cardinality(Tagged') <= jobs'.cap
    BY <2>1, <2>3 DEF RoomKept, Busy, Tagged
  <2> QED  BY <1>a, <2>1, <2>2, <2>4, AllIdle
<1>7. ASSUME NEW s \in Settings, PutReads(s)  PROVE OneAtWork' /\ RoomKept'
  <2>1. ~excused /\ ~Busy /\ put'.pc = "read" /\ UNCHANGED <<jobs, jobsFile, launch, daemons, tags>>
    BY <1>7 DEF PutReads
  <2>2. jobs' # NoJob /\ jobs'.cap > 0 => Cardinality(Tagged') <= jobs'.cap
    BY <2>1 DEF RoomKept, Busy, Tagged
  <2> QED  BY <1>c, <2>1, <2>2, AllIdle DEF OneAtWork
<1>8. ASSUME NEW g \in SUBSET daemons, PutCaps(g)  PROVE OneAtWork' /\ RoomKept'
  <2>1. ~excused /\ g = {} /\ put.pc = "cap" /\ Enforce(put.job.cap, {}) /\ put' = NoPut /\ UNCHANGED <<jobs, jobsFile, launch, tags>>
    BY <1>8 DEF PutCaps
  <2>2. put.job.cap \in Nat /\ Real(put.job)
    BY <2>1 DEF ScheduleTypes, PutTypes, JobType
  <2>3. Cardinality(Tagged') <= put.job.cap
    BY <1>0, <2>1, <2>2, EnforceLeaves
  <2>4. jobs # NoJob => jobs.cap = put.job.cap
    BY <1>0, <2>1, <2>2, SettingsTell DEF OneAtWork, StoreTypes
  <2>5. \A l \in Launchers : launch'[l].pc = "idle"
    BY <2>1 DEF OneAtWork
  <2> QED  BY <1>a, <2>1, <2>3, <2>4, <2>5, AllIdle DEF OneAtWork
<1>9. ASSUME NEW l \in Launchers, Picks(l)  PROVE OneAtWork' /\ RoomKept'
  <2> DEFINE new == [Idle EXCEPT !.pc = "due", !.job = jobs, !.at = clock]
  <2>1. ~excused /\ ~Busy /\ launch' = [launch EXCEPT ![l] = new] /\ UNCHANGED <<jobs, jobsFile, put, daemons, tags>>
    BY <1>9 DEF Picks
  <2>2. new.pc = "due" /\ new.job = jobs
    BY DEF Idle
  <2> HIDE DEF new
  <2>3. put'.pc = "idle" /\ \A m \in Launchers : IF m = l THEN launch'[m] = new ELSE launch'[m].pc = "idle"
    BY <1>0, <2>1 DEF Busy, LaunchTypes
  <2>4. OneAtWork'
    BY <2>1, <2>2, <2>3 DEF OneAtWork
  <2>5. Tagged' = Tagged
    BY <2>1 DEF Tagged
  <2> QED  BY <2>1, <2>2, <2>3, <2>4, <2>5 DEF RoomKept
<1>10. ASSUME NEW l \in Launchers, NEW new, launch' = [launch EXCEPT ![l] = new], launch[l].pc # "idle",
              new.pc # "idle" => new.job = launch[l].job, UNCHANGED <<jobs, jobsFile, put>>, OneAtWork, RoomKept
       PROVE  /\ OneAtWork' /\ launch'[l] = new
              /\ \A m \in Launchers : m # l => launch'[m].pc = "idle"
              /\ put'.pc = "idle"
              /\ jobs # NoJob => jobs.cap = launch[l].job.cap
              /\ jobs # NoJob /\ jobs.cap > 0 => Cardinality(Tagged) <= jobs.cap
  <2>1. \A m \in Launchers : launch'[m] = IF m = l THEN new ELSE launch[m]
    BY <1>0, <1>10 DEF LaunchTypes
  <2>2. SettingsOf(jobsFile) = SettingsOf(jobs)
    BY <1>10 DEF OneAtWork
  <2>3. OneAtWork'
    BY <1>0, <1>10, <2>1, <2>2, WorkGoesOn
  <2>4. put.pc = "idle" /\ \A m \in Launchers : m # l => launch[m].pc = "idle"
    BY <1>10 DEF OneAtWork
  <2>5. Real(launch[l].job)
    BY <1>0, <1>10 DEF LaunchTypes
  <2>6. jobs # NoJob => jobs.cap = launch[l].job.cap
    BY <1>0, <1>10, <2>5, SettingsTell DEF OneAtWork, StoreTypes
  <2>7. jobs # NoJob /\ jobs.cap > 0 => Cardinality(Tagged) <= jobs.cap
    BY <1>10, <2>4 DEF RoomKept
  <2> QED  BY <1>10, <2>1, <2>3, <2>4, <2>6, <2>7
<1>11. ASSUME NEW l \in Launchers, NEW g \in SUBSET daemons, MakesRoom(l, g)  PROVE OneAtWork' /\ RoomKept'
  <2> DEFINE new == [launch[l] EXCEPT !.pc = "create"]
  <2>1. ~excused /\ g = {} /\ launch[l].pc = "due" /\ launch' = [launch EXCEPT ![l] = new] /\ UNCHANGED <<jobs, jobsFile, put, tags>>
        /\ (IF launch[l].job.cap > 0 THEN Enforce(launch[l].job.cap - 1, {}) ELSE UNCHANGED daemons)
    BY <1>11 DEF MakesRoom
  <2>2. new.pc = "create" /\ new.job = launch[l].job /\ launch[l].job.cap \in Nat
    BY <1>0 DEF LaunchTypes, LaunchType, JobType
  <2> HIDE DEF new
  <2>3. /\ OneAtWork' /\ launch'[l] = new /\ \A m \in Launchers : m # l => launch'[m].pc = "idle"
        /\ put'.pc = "idle" /\ (jobs # NoJob => jobs.cap = launch[l].job.cap)
    BY <1>10, <2>1, <2>2
  <2>4. launch[l].job.cap > 0 => Cardinality(Tagged') <= launch[l].job.cap - 1
    <3>1. launch[l].job.cap > 0 => launch[l].job.cap - 1 \in Nat
      BY <2>2
    <3> QED  BY <1>0, <2>1, <3>1, EnforceLeaves
  <2>5. jobs' # NoJob /\ jobs'.cap > 0 => Cardinality(Tagged') < jobs'.cap
    BY <1>b, <2>1, <2>2, <2>3, <2>4
  <2>6. jobs'.cap \in Nat
    BY <2>1, RecordTypes DEF JobType
  <2>7. jobs' # NoJob /\ jobs'.cap > 0 => Cardinality(Tagged') <= jobs'.cap
    BY <1>b, <2>5, <2>6
  <2> QED  BY <2>3, <2>5, <2>7 DEF RoomKept
<1>12. ASSUME NEW l \in Launchers, Launches(l)  PROVE OneAtWork' /\ RoomKept'
  <2> DEFINE new == [launch[l] EXCEPT !.pc = IF launch[l].job.remote THEN "mark" ELSE "tag", !.session = launches']
  <2>1. ~excused /\ launch[l].pc = "create" /\ launch' = [launch EXCEPT ![l] = new] /\ UNCHANGED <<jobs, jobsFile, put, tags>>
        /\ daemons \subseteq daemons' /\ daemons' \subseteq daemons \cup {launches + 1}
    BY <1>12 DEF Launches
  <2>2. new.pc # "idle" /\ new.job = launch[l].job
    BY <1>0 DEF LaunchTypes, LaunchType
  <2> HIDE DEF new
  <2>3. /\ OneAtWork' /\ launch'[l] = new /\ \A m \in Launchers : m # l => launch'[m].pc = "idle"
        /\ (jobs # NoJob /\ jobs.cap > 0 => Cardinality(Tagged) <= jobs.cap)
    BY <1>10, <2>1, <2>2
  <2>4. launches + 1 \notin DOMAIN tags
    BY <1>0 DEF SessionTypes
  <2>5. Tagged' = Tagged
    BY <2>1, <2>4 DEF Tagged
  <2> QED  BY <2>1, <2>3, <2>5 DEF RoomKept
<1>13. ASSUME NEW l \in Launchers, LaunchFails(l)  PROVE OneAtWork' /\ RoomKept'
  <2> DEFINE new == IF l = "tick" THEN [launch[l] EXCEPT !.pc = "fail"] ELSE Idle
  <2>1. ~excused /\ launch[l].pc = "create" /\ launch' = [launch EXCEPT ![l] = new] /\ UNCHANGED <<jobs, jobsFile, put, tags, daemons>>
    BY <1>13 DEF LaunchFails
  <2>2. new.pc \in {"fail", "idle"} /\ (new.pc # "idle" => new.job = launch[l].job)
    BY <1>0, <1>a DEF LaunchTypes, LaunchType
  <2> HIDE DEF new
  <2>3. /\ OneAtWork' /\ launch'[l] = new /\ \A m \in Launchers : m # l => launch'[m].pc = "idle"
        /\ (jobs # NoJob /\ jobs.cap > 0 => Cardinality(Tagged) <= jobs.cap)
    BY <1>10, <2>1, <2>2
  <2>4. Tagged' = Tagged
    BY <2>1 DEF Tagged
  <2> QED  BY <2>1, <2>2, <2>3, <2>4 DEF RoomKept
<1>14. ASSUME NEW l \in Launchers, Tags(l)  PROVE OneAtWork' /\ RoomKept'
  <2> DEFINE new == [launch[l] EXCEPT !.pc = "mark"]
             id == launch[l].session
  <2>1. ~excused /\ launch[l].pc = "tag" /\ launch' = [launch EXCEPT ![l] = new] /\ UNCHANGED <<jobs, jobsFile, put, daemons>>
        /\ DOMAIN tags' = DOMAIN tags \cup {id}
    BY <1>14 DEF Tags
  <2>2. new.pc = "mark" /\ new.job = launch[l].job
    BY <1>0 DEF LaunchTypes, LaunchType
  <2> HIDE DEF new
  <2>3. /\ OneAtWork' /\ launch'[l] = new /\ \A m \in Launchers : m # l => launch'[m].pc = "idle"
    BY <1>10, <2>1, <2>2
  <2>4. jobs # NoJob /\ jobs.cap > 0 => Cardinality(Tagged) < jobs.cap
    BY <2>1 DEF RoomKept
  <2>5. Tagged' \in SUBSET (Tagged \cup {id})
    BY <2>1 DEF Tagged
  <2>6. IsFiniteSet(Tagged \cup {id}) /\ Cardinality(Tagged \cup {id}) <= Cardinality(Tagged) + 1
    <3>1. IsFiniteSet(Tagged)
      BY <1>0, TaggedFinite
    <3>2. IsFiniteSet(Tagged \cup {id})
          /\ Cardinality(Tagged \cup {id}) = IF id \in Tagged THEN Cardinality(Tagged) ELSE Cardinality(Tagged) + 1
      BY <3>1, FS_AddElement
    <3> QED  BY <1>b, <3>2
  <2>7. Cardinality(Tagged') <= Cardinality(Tagged \cup {id}) /\ Cardinality(Tagged \cup {id}) \in Nat
    <3>1. Cardinality(Tagged') <= Cardinality(Tagged \cup {id})
      BY <2>5, <2>6, FS_Subset
    <3> QED  BY <2>6, <3>1, FS_CardinalityType
  <2>8. jobs.cap \in Nat
    BY RecordTypes DEF JobType
  <2>9. jobs' # NoJob /\ jobs'.cap > 0 => Cardinality(Tagged') <= jobs'.cap
    BY <1>b, <2>1, <2>4, <2>6, <2>7, <2>8
  <2> QED  BY <2>2, <2>3, <2>9 DEF RoomKept
<1>15. ASSUME NEW s \in 1 .. launches, SessionEnds(s) \/ PrunesTag(s)  PROVE OneAtWork' /\ RoomKept'
  <2>1. ~excused /\ UNCHANGED <<jobs, jobsFile, put, launch>> /\ Tagged' \subseteq Tagged
    BY <1>15 DEF SessionEnds, PrunesTag, Tagged
  <2> QED  BY <1>d, <2>1
<1>16. ASSUME SchedulerTick \/ UNCHANGED <<schVars, clock>>  PROVE OneAtWork' /\ RoomKept'
  <2>1. ~excused /\ UNCHANGED <<jobs, jobsFile, put, launch>> /\ Tagged' \subseteq Tagged
    BY <1>16 DEF SchedulerTick, schVars, Tagged
  <2> QED  BY <1>d, <2>1
<1> QED  BY <1>1, <1>2, <1>3, <1>4, <1>5, <1>6, <1>7, <1>8, <1>9, <1>11, <1>12, <1>13, <1>14, <1>15, <1>16 DEF SchedulerNext

LEMMA ScheduleStarts == SchedulerInit => ScheduleIInv
<1> SUFFICES ASSUME SchedulerInit  PROVE ScheduleIInv
  OBVIOUS
<1>1. NoJob \in JobType
  BY DEF NoJob, JobType
<1>2. Idle \in LaunchType /\ Idle.pc = "idle"
  BY <1>1 DEF Idle, LaunchType
<1>3. NoPut \in [pc : {"idle", "read", "cap"}, job : JobType] /\ NoPut.pc = "idle"
  BY <1>1 DEF NoPut
<1>4. DOMAIN tags = {} /\ clock \in Nat
  BY DEF SchedulerInit
<1>5. LaunchTypes /\ PutTypes
  BY <1>2, <1>3 DEF SchedulerInit, LaunchTypes, PutTypes
<1>6. StoreTypes /\ SessionTypes /\ HistoryTypes
  BY <1>4 DEF SchedulerInit, StoreTypes, SessionTypes, HistoryTypes
<1>7. launch["tick"].pc = "idle" /\ "tick" \in Launchers
  BY <1>2 DEF SchedulerInit, Launchers
<1>8. InstantsPass
  BY <1>7 DEF SchedulerInit, InstantsPass, Repeats
<1>9. OneAtWork /\ RoomKept
  BY <1>2, <1>3 DEF SchedulerInit, OneAtWork, RoomKept
<1> QED  BY <1>4, <1>5, <1>6, <1>8, <1>9 DEF ScheduleIInv, ScheduleTypes, IntentKept, SchedulerInit

(* Whatever overlaps, fails or restarts, a schedule runs once per instant, as
   its user last set it, and within its cap: the runner's tick, the manual run
   and the edits may come in any order. *)
THEOREM ScheduleKept == SchedulerSpec => []SchedulerInv
<1>1. ScheduleIInv /\ [SchedulerNext]_<<schVars, clock>> => ScheduleIInv'
  BY TypesStep, InstantsStep, IntentStep, RoomStep DEF ScheduleIInv
<1>2. ScheduleIInv => SchedulerInv
  BY DEF ScheduleIInv, SchedulerInv, InstantsPass, OncePerInstant, CapKept, RoomKept, Busy
<1> QED  BY <1>1, <1>2, ScheduleStarts, PTL DEF SchedulerSpec

-----------------------------------------------------------------------------
(* ToolEvents.  AlertsDurable speaks of the moment every write has finished,
   so it is not inductive: SnapshotUnderWay says where the stored event is
   until then, and NewestLast that a snapshot not overtaken holds the event
   once every Record has taken its own. *)

WritesFinite == IsFiniteSet(writing) /\ IsFiniteSet(hooks)

\* The stored event still waits for its snapshot, is in one, or was written.
SnapshotUnderWay ==
  "persist" \in crew /\ events # "none"
    => unsnapped > 0 \/ [val |-> events, stale |-> FALSE] \in writing \/ disk.stale \/ disk.val = events

\* When every Record has its snapshot, only the newest is not overtaken.
NewestLast ==
  "persist" \in crew /\ events # "none" /\ unsnapped = 0
    => \A w \in writing : w.stale \/ w.val = events

TrackerIInv == TrackerTypeOK /\ WritesFinite /\ TurnIsTimed /\ SnapshotUnderWay /\ NewestLast

\* Record, whoever calls it, with an event of a hook or of a goroutine.
LEMMA RecordKeeps ==
  ASSUME TrackerIInv, NEW status \in {"active", "waiting", "error", "completed"}, NEW auto \in BOOLEAN,
         Record(status, auto), UNCHANGED <<crew, tool>>
  PROVE  /\ events' \in Stored /\ lastActive' \in BOOLEAN /\ activeTurns' \in BOOLEAN
         /\ unsnapped' \in 0..MaxWrites
         /\ writing' = writing /\ disk' = disk /\ unsnapped' + Cardinality(writing') <= MaxWrites
         /\ activeTurns' /\ tool \notin Native => lastActive' \/ promoter = "record"
         /\ SnapshotUnderWay' /\ NewestLast'
<1>1. /\ lastActive \in BOOLEAN /\ activeTurns \in BOOLEAN
      /\ unsnapped \in 0..MaxWrites /\ MaxWrites \in Nat /\ unsnapped + Cardinality(writing) <= MaxWrites
      /\ Cardinality(writing) \in Nat
  BY ToolEventsAssumption, FS_CardinalityType DEF TrackerIInv, TrackerTypeOK, WritesFinite
<1>2. /\ events' = IF status \in {"active", "completed"} THEN "none" ELSE status
      /\ lastActive' = IF tool \in Native \/ auto THEN lastActive ELSE status = "active"
      /\ activeTurns' = IF auto THEN activeTurns ELSE status = "active"
  BY DEF Record, TurnAfter
<1>3. /\ "persist" \in crew => unsnapped + Cardinality(writing) < MaxWrites /\ unsnapped' = unsnapped + 1
      /\ "persist" \notin crew => unsnapped' = unsnapped
      /\ writing' = writing /\ disk' = disk
  BY DEF Record, Persists, files
<1>4. events' \in Stored
  BY <1>1, <1>2 DEF Stored
<1>5. lastActive' \in BOOLEAN /\ activeTurns' \in BOOLEAN
  BY <1>1, <1>2
<1>6. unsnapped' \in 0..MaxWrites /\ unsnapped' + Cardinality(writing') <= MaxWrites
  BY <1>1, <1>3
<1>7. activeTurns' /\ tool \notin Native => lastActive' \/ promoter = "record"
  <2>1. CASE auto
    BY <1>2, <2>1, Zenon DEF TrackerIInv, TurnIsTimed
  <2>2. CASE ~ auto
    BY <1>2, <2>2
  <2> QED  BY <2>1, <2>2
<1>8. "persist" \in crew => unsnapped' > 0
  BY <1>1, <1>3
<1>9. SnapshotUnderWay' /\ NewestLast'
  BY <1>1, <1>3, <1>8 DEF SnapshotUnderWay, NewestLast
<1> QED  BY <1>3, <1>4, <1>5, <1>6, <1>7, <1>9

\* The steps that call Record.
LEMMA RecordStep ==
  ASSUME TrackerIInv, HookReceived \/ PromoteRecord \/ ReconcileRecord \/ DetectActive
                      \/ DetectExited \/ SilenceWaiting \/ SilenceReap
  PROVE  TrackerIInv'
<1>1. UNCHANGED <<crew, tool, proc, restarts, outputs, seen, monitored>> /\ hooks' \subseteq hooks
  BY DEF HookReceived, PromoteRecord, ReconcileRecord, DetectActive, DetectExited,
         SilenceWaiting, SilenceReap, world, monitors
<1>2. PICK status \in {"active", "waiting", "error", "completed"}, auto \in BOOLEAN : Record(status, auto)
  BY DEF HookReceived, PromoteRecord, ReconcileRecord, DetectActive, DetectExited,
         SilenceWaiting, SilenceReap, TrackerIInv, TrackerTypeOK, HookStatuses
<1>3. /\ events' \in Stored /\ lastActive' \in BOOLEAN /\ activeTurns' \in BOOLEAN
      /\ unsnapped' \in 0..MaxWrites
      /\ writing' = writing /\ disk' = disk /\ unsnapped' + Cardinality(writing') <= MaxWrites
      /\ activeTurns' /\ tool \notin Native => lastActive' \/ promoter = "record"
      /\ SnapshotUnderWay' /\ NewestLast'
  BY <1>1, <1>2, RecordKeeps
<1>4. /\ promoter' \in {promoter, "idle"} /\ reconciler' \in {reconciler, "idle"}
      /\ detector' \in {detector, "idle"} /\ silence' \in {silence, "idle"}
  BY DEF HookReceived, PromoteRecord, ReconcileRecord, DetectActive, DetectExited,
         SilenceWaiting, SilenceReap, monitors
<1>5. IsFiniteSet(hooks') /\ Cardinality(hooks') <= MaxHooks
  <2>1. IsFiniteSet(hooks) /\ Cardinality(hooks) <= MaxHooks /\ MaxHooks \in Nat
    BY ToolEventsAssumption DEF TrackerIInv, WritesFinite, TrackerTypeOK
  <2>2. IsFiniteSet(hooks') /\ Cardinality(hooks') <= Cardinality(hooks)
    BY <1>1, <2>1, FS_Subset
  <2> QED  BY <2>1, <2>2, FS_CardinalityType
<1>6. TrackerTypeOK'
  BY <1>1, <1>3, <1>4, <1>5 DEF TrackerIInv, TrackerTypeOK
<1>7. TurnIsTimed'
  <2>1. CASE PromoteRecord
    <3>1. activeTurns' = ("waiting" = "active")
      BY <2>1 DEF PromoteRecord, Record, TurnAfter
    <3> QED  BY <3>1 DEF TurnIsTimed
  <2>2. CASE ~ PromoteRecord
    <3>1. promoter' = promoter
      BY <2>2 DEF HookReceived, ReconcileRecord, DetectActive, DetectExited,
                  SilenceWaiting, SilenceReap, monitors
    <3> QED  BY <1>1, <1>3, <3>1, Zenon DEF TurnIsTimed
  <2> QED  BY <2>1, <2>2
<1> QED  BY <1>3, <1>5, <1>6, <1>7 DEF TrackerIInv, WritesFinite

\* The steps of persist.
LEMMA PersistStep ==
  ASSUME TrackerIInv, PersistSnapshot \/ PersistWrite
  PROVE  TrackerIInv'
<1>0. /\ IsFiniteSet(writing) /\ Cardinality(writing) \in Nat /\ unsnapped \in Nat /\ MaxWrites \in Nat
      /\ unsnapped + Cardinality(writing) <= MaxWrites
      /\ writing \subseteq [val : Stored, stale : BOOLEAN] /\ events \in Stored
  BY ToolEventsAssumption, FS_CardinalityType DEF TrackerIInv, WritesFinite, TrackerTypeOK
<1>1. UNCHANGED <<world, tracker, monitors>>
  BY DEF PersistSnapshot, PersistWrite
<1>2. CASE PersistSnapshot
  <2> DEFINE aged == {[w EXCEPT !.stale = TRUE] : w \in writing}
             new == [val |-> events, stale |-> FALSE]
  <2>1. unsnapped > 0 /\ unsnapped' = unsnapped - 1 /\ writing' = aged \cup {new} /\ disk' = disk
    BY <1>2 DEF PersistSnapshot
  <2>2. new \in [val : Stored, stale : BOOLEAN]
    BY <1>0
  <2>3. \A w \in aged : w \in [val : Stored, stale : BOOLEAN] /\ w.stale
    BY <1>0
  <2>4. IsFiniteSet(aged) /\ Cardinality(aged) <= Cardinality(writing)
    <3> DEFINE age == [w \in writing |-> [w EXCEPT !.stale = TRUE]]
    <3>1. age \in Surjection(writing, aged)
      BY DEF Surjection
    <3> QED  BY <1>0, <3>1, FS_Surjection
  <2> HIDE DEF aged
  <2>5. IsFiniteSet(aged \cup {new}) /\ Cardinality(aged \cup {new}) <= Cardinality(aged) + 1
    <3>1. Cardinality(aged) \in Nat
      BY <2>4, FS_CardinalityType
    <3>2. IsFiniteSet(aged \cup {new})
          /\ (Cardinality(aged \cup {new}) = Cardinality(aged) \/ Cardinality(aged \cup {new}) = Cardinality(aged) + 1)
      BY <2>4, FS_AddElement
    <3> QED  BY <3>1, <3>2
  <2>6. unsnapped' + Cardinality(writing') <= MaxWrites /\ unsnapped' \in 0..MaxWrites
    <3>1. Cardinality(aged) \in Nat /\ Cardinality(aged \cup {new}) \in Nat
      BY <2>4, <2>5, FS_CardinalityType
    <3> QED  BY <1>0, <2>1, <2>4, <2>5, <3>1
  <2>7. writing' \subseteq [val : Stored, stale : BOOLEAN]
    BY <2>1, <2>2, <2>3
  <2>8. TrackerTypeOK'
    BY <1>1, <2>1, <2>6, <2>7 DEF TrackerIInv, TrackerTypeOK, world, tracker, monitors
  <2>9. events' = events /\ new \in writing' /\ new.val = events
    BY <1>1, <2>1 DEF tracker
  <2>10. SnapshotUnderWay'
    BY <2>9 DEF SnapshotUnderWay
  <2>11. NewestLast'
    BY <2>1, <2>3, <2>9 DEF NewestLast
  <2>12. TurnIsTimed' /\ WritesFinite'
    BY <1>1, <2>1, <2>5 DEF TrackerIInv, TurnIsTimed, WritesFinite, world, tracker, monitors
  <2> QED  BY <2>8, <2>10, <2>11, <2>12 DEF TrackerIInv
<1>3. CASE PersistWrite
  <2>1. PICK w \in writing : disk' = w /\ writing' = writing \ {w}
    BY <1>3 DEF PersistWrite
  <2>2. unsnapped' = unsnapped
    BY <1>3 DEF PersistWrite
  <2>3. IsFiniteSet(writing') /\ Cardinality(writing') = Cardinality(writing) - 1
    BY <1>0, <2>1, FS_RemoveElement
  <2>4. unsnapped' + Cardinality(writing') <= MaxWrites
    BY <1>0, <2>2, <2>3
  <2>5. TrackerTypeOK'
    BY <1>0, <1>1, <2>1, <2>2, <2>4 DEF TrackerIInv, TrackerTypeOK, world, tracker, monitors
  <2>6. SnapshotUnderWay'
    <3> SUFFICES ASSUME "persist" \in crew, events # "none", ~(unsnapped > 0)
                 PROVE  w.stale \/ w.val = events
      BY <1>1, <2>1, <2>2 DEF SnapshotUnderWay, world, tracker
    <3>1. unsnapped = 0
      BY <1>0
    <3> QED  BY <3>1 DEF TrackerIInv, NewestLast
  <2>7. NewestLast'
    BY <1>1, <2>1, <2>2 DEF TrackerIInv, NewestLast, world, tracker
  <2>8. TurnIsTimed' /\ WritesFinite'
    BY <1>1, <2>3 DEF TrackerIInv, TurnIsTimed, WritesFinite, world, tracker, monitors
  <2> QED  BY <2>5, <2>6, <2>7, <2>8 DEF TrackerIInv
<1> QED  BY <1>2, <1>3

\* The user, the restart, and the reads of the goroutines.
LEMMA TrackerQuietStep ==
  ASSUME TrackerIInv, \/ World \/ User \/ DetectElsewhere \/ PromoteCollect
                      \/ ReconcileCollect \/ ReconcileLook \/ DetectStart \/ DetectInspect \/ DetectSweep
                      \/ SilenceSync \/ SilenceCollect \/ SilenceCapture \/ UNCHANGED toolEventsVars
  PROVE  TrackerIInv'
<1> USE ToolEventsAssumption
<1>0. TrackerTypeOK /\ WritesFinite /\ TurnIsTimed /\ SnapshotUnderWay /\ NewestLast
  BY DEF TrackerIInv
<1>1. ASSUME UNCHANGED <<crew, tool, hooks, events, activeTurns, files>>, restarts' = restarts,
             lastActive \/ promoter = "record" => lastActive' \/ promoter' = "record",
             lastActive' \in BOOLEAN, proc' \in {"agent", "shell", "gone"}, outputs' \in 0..MaxOutputs,
             promoter' \in {"idle", "record"},
             reconciler' \in {"idle", "look", "record"}, seen' \in BOOLEAN,
             detector' \in {"idle", "inspect", "active", "sweep", "exited"},
             silence' \in {"idle", "synced", "capture", "waiting", "reap"},
             monitored' \in [on : BOOLEAN, checks : 0..MaxSilenceChecks, prompted : BOOLEAN]
      PROVE  TrackerIInv'
  <2>1. TrackerTypeOK'
    BY <1>0, <1>1 DEF TrackerTypeOK, files
  <2>2. TurnIsTimed'
    BY <1>0, <1>1 DEF TurnIsTimed
  <2>3. WritesFinite' /\ SnapshotUnderWay' /\ NewestLast'
    BY <1>0, <1>1 DEF WritesFinite, SnapshotUnderWay, NewestLast, files
  <2> QED  BY <2>1, <2>2, <2>3 DEF TrackerIInv
<1>2. /\ lastActive \in BOOLEAN /\ proc \in {"agent", "shell", "gone"} /\ outputs \in 0..MaxOutputs
      /\ promoter \in {"idle", "record"}
      /\ reconciler \in {"idle", "look", "record"} /\ seen \in BOOLEAN
      /\ detector \in {"idle", "inspect", "active", "sweep", "exited"}
      /\ silence \in {"idle", "synced", "capture", "waiting", "reap"}
      /\ monitored \in [on : BOOLEAN, checks : 0..MaxSilenceChecks, prompted : BOOLEAN]
  BY <1>0 DEF TrackerTypeOK
<1>3. CASE AgentStarts \/ AgentExits \/ PaneGone
  BY <1>1, <1>2, <1>3 DEF AgentStarts, AgentExits, PaneGone, tracker, monitors
<1>4. CASE RecordOutput
  <2>1. monitored' \in [on : BOOLEAN, checks : 0..MaxSilenceChecks, prompted : BOOLEAN] /\ outputs' \in 0..MaxOutputs
    <3>1. 0 \in 0..MaxSilenceChecks
      BY DEF MaxSilenceChecks
    <3>2. monitored' = [monitored EXCEPT !.checks = 0, !.prompted = FALSE]
      BY <1>4 DEF RecordOutput
    <3>3. monitored' \in [on : BOOLEAN, checks : 0..MaxSilenceChecks, prompted : BOOLEAN]
      BY <1>2, <3>1, <3>2
    <3>4. outputs' \in 0..MaxOutputs
      BY <1>2, <1>4 DEF RecordOutput
    <3> QED  BY <3>3, <3>4
  <2> QED  BY <1>1, <1>2, <1>4, <2>1 DEF RecordOutput, tracker
<1>5. CASE HookSent
  <2>1. PICK s \in HookStatuses \ hooks : hooks' = hooks \cup {s}
    BY <1>5 DEF HookSent
  <2>2. Cardinality(hooks) < MaxHooks /\ UNCHANGED <<crew, tool, proc, restarts, outputs, tracker, monitors, files>>
    BY <1>5 DEF HookSent
  <2>3. IsFiniteSet(hooks) /\ hooks \subseteq HookStatuses
    BY <1>0 DEF WritesFinite, TrackerTypeOK
  <2>4. IsFiniteSet(hooks') /\ Cardinality(hooks') = Cardinality(hooks) + 1
    BY <2>1, <2>3, FS_AddElement
  <2>5. Cardinality(hooks') <= MaxHooks
    BY <2>2, <2>3, <2>4, FS_CardinalityType
  <2>6. TrackerTypeOK'
    BY <1>0, <2>1, <2>2, <2>3, <2>5 DEF TrackerTypeOK, tracker, monitors, files
  <2>7. WritesFinite' /\ TurnIsTimed' /\ SnapshotUnderWay' /\ NewestLast'
    BY <1>0, <2>2, <2>4 DEF WritesFinite, TurnIsTimed, SnapshotUnderWay, NewestLast, tracker, monitors, files
  <2> QED  BY <2>6, <2>7 DEF TrackerIInv
<1>6. CASE TrackerRestarts
  <2>1. /\ events' = disk.val /\ lastActive' = FALSE /\ activeTurns' = FALSE
        /\ promoter' = "idle" /\ reconciler' = "idle" /\ detector' = "idle" /\ seen' = FALSE
        /\ silence' = "idle" /\ monitored' = Unmonitored /\ unsnapped' = 0 /\ writing' = {}
        /\ disk' = [disk EXCEPT !.stale = FALSE] /\ UNCHANGED <<crew, tool, proc, hooks, outputs>>
        /\ restarts < MaxRestarts /\ restarts' = restarts + 1
    BY <1>6 DEF TrackerRestarts, NewTracker
  <2>2. disk \in [val : Stored, stale : BOOLEAN]
    BY <1>0 DEF TrackerTypeOK
  <2>3. disk' \in [val : Stored, stale : BOOLEAN] /\ disk'.val = events' /\ events' \in Stored
    BY <2>1, <2>2
  <2>4. IsFiniteSet({}) /\ Cardinality({}) = 0
    BY FS_EmptySet
  <2>5. unsnapped' \in 0..MaxWrites /\ unsnapped' + Cardinality(writing') <= MaxWrites
    BY <2>1, <2>4
  <2>6. monitored' \in [on : BOOLEAN, checks : 0..MaxSilenceChecks, prompted : BOOLEAN]
    BY <2>1 DEF Unmonitored, MaxSilenceChecks
  <2>7. restarts' \in 0..MaxRestarts
    BY <1>0, <2>1 DEF TrackerTypeOK
  <2>8. TrackerTypeOK'
    BY <1>0, <2>1, <2>3, <2>5, <2>6, <2>7 DEF TrackerTypeOK
  <2>9. WritesFinite' /\ TurnIsTimed' /\ SnapshotUnderWay' /\ NewestLast'
    BY <1>0, <2>1, <2>3, <2>4 DEF WritesFinite, TurnIsTimed, SnapshotUnderWay, NewestLast
  <2> QED  BY <2>8, <2>9 DEF TrackerIInv
<1>7. CASE User
  <2>1. UNCHANGED <<world, lastActive, monitors, files>> /\ events' \in {events, "none"}
    BY <1>7 DEF User, Clear, ClearAll, PruneStale
  <2>2. activeTurns' = activeTurns \/ activeTurns' = FALSE
    BY <1>7, Zenon DEF User, Clear, ClearAll, PruneStale
  <2>3. activeTurns' \in BOOLEAN /\ (activeTurns' => activeTurns)
    <3>1. activeTurns \in BOOLEAN
      BY <1>0 DEF TrackerTypeOK
    <3>2. CASE activeTurns' = activeTurns
      BY <3>1, <3>2
    <3>3. CASE activeTurns' = FALSE
      BY <3>3
    <3> QED  BY <2>2, <3>2, <3>3, Zenon
  <2>4. TrackerTypeOK'
    BY <1>0, <2>1, <2>3 DEF TrackerTypeOK, world, monitors, files, Stored
  <2>5. TurnIsTimed'
    BY <1>0, <2>1, <2>3 DEF TurnIsTimed, world, monitors
  <2>6. WritesFinite' /\ SnapshotUnderWay' /\ NewestLast'
    BY <1>0, <2>1 DEF WritesFinite, SnapshotUnderWay, NewestLast, world, files
  <2> QED  BY <2>4, <2>5, <2>6 DEF TrackerIInv
<1>8. CASE PromoteCollect
  <2>1. lastActive' \in BOOLEAN /\ promoter' = "record"
    BY <1>8, Zenon DEF PromoteCollect
  <2> QED  BY <1>1, <1>2, <1>8, <2>1 DEF PromoteCollect, world
<1>9. CASE ReconcileCollect \/ ReconcileLook \/ DetectStart \/ DetectElsewhere
  BY <1>1, <1>2, <1>9 DEF ReconcileCollect, ReconcileLook, DetectStart, DetectElsewhere, world, tracker
<1>11. CASE DetectInspect \/ DetectSweep
  <2>1. seen' \in BOOLEAN
    BY <1>11 DEF DetectInspect, DetectSweep
  <2> QED  BY <1>1, <1>2, <1>11, <2>1 DEF DetectInspect, DetectSweep, world, tracker
<1>12. CASE SilenceSync \/ SilenceCollect \/ SilenceCapture
  <2>1. monitored' \in [on : BOOLEAN, checks : 0..MaxSilenceChecks, prompted : BOOLEAN]
    <3>1. CASE SilenceSync
      <4>1. monitored' \in {Unmonitored, monitored, [Unmonitored EXCEPT !.on = TRUE]}
        BY <3>1 DEF SilenceSync
      <4>2. Unmonitored \in [on : BOOLEAN, checks : 0..MaxSilenceChecks, prompted : BOOLEAN]
        BY DEF Unmonitored, MaxSilenceChecks
      <4>3. [Unmonitored EXCEPT !.on = TRUE] \in [on : BOOLEAN, checks : 0..MaxSilenceChecks, prompted : BOOLEAN]
        BY <4>2
      <4> QED  BY <1>2, <4>1, <4>2, <4>3
    <3>2. CASE SilenceCollect
      BY <1>2, <3>2 DEF SilenceCollect, SilenceDue, MaxSilenceChecks
    <3>3. CASE SilenceCapture
      BY <1>2, <3>3 DEF SilenceCapture
    <3> QED  BY <1>12, <3>1, <3>2, <3>3
  <2>2. silence' \in {"idle", "synced", "capture", "waiting", "reap"}
    BY <1>12 DEF SilenceSync, SilenceCollect, SilenceCapture
  <2> QED  BY <1>1, <1>2, <1>12, <2>1, <2>2 DEF SilenceSync, SilenceCollect, SilenceCapture, world, tracker
<1>13. CASE UNCHANGED toolEventsVars
  BY <1>1, <1>2, <1>13 DEF toolEventsVars, world, tracker, monitors
<1> QED  BY <1>3, <1>4, <1>5, <1>6, <1>7, <1>8, <1>9, <1>11, <1>12, <1>13 DEF World

\* The open turn of an agent without waiting hooks is always timed and a stored alert always on its way to the
\* disk: TrackerInv, for every crew, tool and bound.
THEOREM TrackerTheorem == TrackerSpec => []TrackerInv
<1>1. TrackerInit => TrackerIInv
  <2> SUFFICES ASSUME TrackerInit  PROVE TrackerIInv
    OBVIOUS
  <2>1. IsFiniteSet({}) /\ Cardinality({}) = 0
    BY FS_EmptySet
  <2>2. TrackerTypeOK
    <3>1. Unmonitored \in [on : BOOLEAN, checks : 0..MaxSilenceChecks, prompted : BOOLEAN]
      BY DEF Unmonitored, MaxSilenceChecks
    <3>2. [val |-> "none", stale |-> FALSE] \in [val : Stored, stale : BOOLEAN] /\ "none" \in Stored
      BY DEF Stored
    <3>3. 0 <= MaxHooks /\ 0 \in 0..MaxWrites /\ 0 \in 0..MaxRestarts /\ 0 \in 0..MaxOutputs /\ 0 + 0 <= MaxWrites
      BY ToolEventsAssumption
    <3>4. lastActive \in BOOLEAN /\ activeTurns \in BOOLEAN /\ seen \in BOOLEAN
      BY Zenon DEF TrackerInit
    <3> QED  BY <2>1, <3>1, <3>2, <3>3, <3>4 DEF TrackerInit, TrackerTypeOK
  <2> QED  BY <2>1, <2>2 DEF TrackerInit, TrackerIInv, WritesFinite, TurnIsTimed, SnapshotUnderWay, NewestLast
<1>2. TrackerIInv /\ [TrackerNext]_toolEventsVars => TrackerIInv'
  BY RecordStep, PersistStep, TrackerQuietStep
     DEF TrackerNext, Promoter, Reconciler, Detector, SilenceMonitor
<1>3. TrackerIInv => TrackerInv
  BY ToolEventsAssumption DEF TrackerIInv, TrackerInv, AlertsDurable, SnapshotUnderWay
<1> QED  BY <1>1, <1>2, <1>3, PTL DEF TrackerSpec
=============================================================================
