---------------------------- MODULE PeerRequests ----------------------------
(***************************************************************************)
(* Requests that a hub sends to a host over the control link and whose     *)
(* answer comes back as a message: the visible buffer of a pane            *)
(* (CaptureRegistry) and the content of a file (FileReadRegistry).  Both   *)
(* registries match answers to requests by token.  The content of a file   *)
(* is put in a temporary directory and the browser gets a grant for it,    *)
(* a token that is good for a limited time.                                *)
(***************************************************************************)
EXTENDS WallClock, FiniteSets

CONSTANTS
  Requests,   \* tokens of the requests that browsers make
  Files,      \* the requests among them that read a file
  GrantTTL,   \* fileGrantTTL
  Grace       \* the minute added to it before the directory is removed

ASSUME PeerRequestsAssumption ==
  /\ Files \subseteq Requests
  /\ GrantTTL \in Nat \ {0} /\ Grace \in Nat \ {0}

VARIABLES
  stage,     \* per request, where its handler is
  pending,   \* tokens that have a channel in the registry
  box,       \* per request, what is in its channel
  asked,     \* requests on their way to the host or being served there
  answers,   \* answers on their way back: [token, error]
  arrived,   \* history: tokens whose answer reached the hub in time
  grant,     \* per file request, when the grant expires; 0 if there is none
  removeAt   \* per file request, when its directory goes; 0 if it is not there

reqVars == <<stage, pending, box, asked, answers, arrived, grant, removeAt>>

Answer == [token: Requests, error: BOOLEAN]
Ended == {"shown", "failed", "timeout"}

RequestsTypeOK ==
  /\ stage \in [Requests -> {"idle", "registered", "waiting"} \cup Ended]
  /\ pending \subseteq Requests /\ asked \subseteq Requests
  /\ box \in [Requests -> SUBSET Answer]
  /\ answers \subseteq Answer /\ arrived \subseteq Requests
  /\ clock \in 1..MaxTime
  /\ grant \in [Files -> 0..(MaxTime + GrantTTL)]
  /\ removeAt \in [Files -> 0..(MaxTime + GrantTTL + Grace)]

RequestsInit ==
  /\ stage = [t \in Requests |-> "idle"]
  /\ pending = {} /\ asked = {} /\ answers = {} /\ arrived = {}
  /\ box = [t \in Requests |-> {}]
  /\ clock = 1
  /\ grant = [t \in Files |-> 0] /\ removeAt = [t \in Files |-> 0]

---------------------------------------------------------------------------
(* Registry *)

AfterRegister_Forgets(t) == pending
AfterRegister(t) == pending \cup {t}
AfterCancel(t) == pending \ {t}

---------------------------------------------------------------------------
(* Hub: the handlers of /pane-capture and of /file/grant for a remote host *)

\* Register before Enqueue.
Begin(t) ==
  /\ stage[t] = "idle"
  /\ stage' = [stage EXCEPT ![t] = "registered"]
  /\ pending' = AfterRegister(t)
  /\ UNCHANGED <<box, asked, answers, arrived, clock, grant, removeAt>>

\* The lane takes the message or is full; the deferred cancel runs on return.
Ask(t) ==
  /\ stage[t] = "registered"
  /\ \/ /\ stage' = [stage EXCEPT ![t] = "waiting"]
        /\ asked' = asked \cup {t}
        /\ UNCHANGED pending
     \/ /\ stage' = [stage EXCEPT ![t] = "failed"]
        /\ pending' = AfterCancel(t)
        /\ UNCHANGED asked
  /\ UNCHANGED <<box, answers, arrived, clock, grant, removeAt>>

Conclude(t, result) ==
  /\ stage' = [stage EXCEPT ![t] = result]
  /\ pending' = AfterCancel(t)

\* The answer is taken from the channel.  A file is written to a directory of
\* its own whose removal is scheduled before the grant is made.
RemovalTime(now) == now + GrantTTL + Grace

\* grant forgets what has expired, then adds the new token.
Granted(t) ==
  [u \in Files |-> IF u = t THEN clock + GrantTTL
                   ELSE IF clock > grant[u] THEN 0 ELSE grant[u]]

\* A peer that reports an error, or a file that cannot be decoded or written
\* here, ends the request without a grant.
Take(t) ==
  /\ stage[t] = "waiting" /\ box[t] # {}
  /\ box' = [box EXCEPT ![t] = {}]
  /\ \/ /\ t \in Files \/ \E a \in box[t] : a.error
        /\ Conclude(t, "failed") /\ UNCHANGED <<grant, removeAt>>
     \/ /\ ~\E a \in box[t] : a.error
        /\ Conclude(t, "shown")
        /\ grant' = IF t \in Files THEN Granted(t) ELSE grant
        /\ removeAt' = IF t \in Files THEN [removeAt EXCEPT ![t] = RemovalTime(clock)]
                                       ELSE removeAt
  /\ UNCHANGED <<asked, answers, arrived, clock>>

\* 3 seconds for a capture, 10 for a file.
GiveUp(t) ==
  /\ stage[t] = "waiting"
  /\ Conclude(t, "timeout")
  /\ UNCHANGED <<box, asked, answers, arrived, clock, grant, removeAt>>

\* Deliver, in the reader of the control link.
Deliver(a) ==
  /\ a \in answers
  /\ answers' = answers \ {a}
  /\ IF a.token \in pending
       THEN /\ pending' = pending \ {a.token}
            /\ box' = [box EXCEPT ![a.token] = {a}]
       ELSE UNCHANGED <<pending, box>>
  /\ arrived' = IF stage[a.token] \in Ended THEN arrived ELSE arrived \cup {a.token}
  /\ UNCHANGED <<stage, asked, clock, grant, removeAt>>

---------------------------------------------------------------------------
(* Host: every request in a goroutine of its own, so answers may overtake
   each other; a full lane drops one. *)

Serve(t) ==
  /\ t \in asked
  /\ asked' = asked \ {t}
  /\ answers' \in {answers} \cup {answers \cup {[token |-> t, error |-> e]} : e \in BOOLEAN}
  /\ UNCHANGED <<stage, pending, box, arrived, clock, grant, removeAt>>

---------------------------------------------------------------------------
(* Time and grants *)

Due == {t \in Files : removeAt[t] # 0 /\ removeAt[t] <= clock}

RequestsTick ==
  /\ ClockAdvances
  /\ UNCHANGED <<stage, pending, box, asked, answers, arrived, grant, removeAt>>

RemoveDir(t) ==
  /\ t \in Due
  /\ removeAt' = [removeAt EXCEPT ![t] = 0]
  /\ UNCHANGED <<stage, pending, box, asked, answers, arrived, clock, grant>>

\* resolve drops a grant that has expired.
Good(t) == grant[t] # 0 /\ ~(clock > grant[t])

Open(t) ==
  /\ t \in Files /\ grant[t] # 0
  /\ grant' = IF Good(t) THEN grant ELSE [grant EXCEPT ![t] = 0]
  /\ UNCHANGED <<stage, pending, box, asked, answers, arrived, clock, removeAt>>

RequestsNext ==
  \/ \E t \in Requests : Begin(t) \/ Ask(t) \/ Take(t) \/ GiveUp(t) \/ Serve(t)
  \/ \E a \in answers : Deliver(a)
  \/ \E t \in Files : RemoveDir(t) \/ Open(t)
  \/ RequestsTick

RequestsSpec == RequestsInit /\ [][RequestsNext]_<<reqVars, clock>>

---------------------------------------------------------------------------
(* Properties *)

\* The registry holds a channel only for a handler that is still there: no
\* order of timeout, answer and refused send leaks an entry.
PendingFreed == \A t \in pending : stage[t] \in {"registered", "waiting"}

\* An answer that reaches the hub before its handler has given up is never
\* dropped, however fast it is: it waits in the channel of that handler, or the
\* handler has returned.  Each answer goes to the request it answers.
AnswerKept ==
  /\ \A t \in arrived : box[t] # {} \/ stage[t] \in Ended
  /\ \A t \in Requests : \A a \in box[t] : a.token = t

\* While a grant for a file of another host is good, the file is still there.
GrantServes == \A t \in Files : Good(t) => removeAt[t] # 0

\* A request to a peer gets its own answer if one comes in time, leaves nothing
\* behind, and what it was granted can be opened.
RequestsInv == PendingFreed /\ AnswerKept /\ GrantServes
=============================================================================
