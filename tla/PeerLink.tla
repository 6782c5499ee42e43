------------------------------ MODULE PeerLink ------------------------------
(***************************************************************************)
(* The control link between two servers: pairing, the reconnector of       *)
(* LinkSupervisor, the handshake of Handler.HandlePeer, runSession at both *)
(* ends and the registration of the connection in peer.Manager.            *)
(*                                                                         *)
(* Each end of a connection runs on its own: one may notice a failure long *)
(* before the other, whose read deadline is 30 seconds, while the          *)
(* reconnector redials after one second.  A refused redial ("already       *)
(* connected") makes the dialer a listener for good, which is meant for    *)
(* two servers that dial each other at once.                               *)
(*                                                                         *)
(* Messages other than the handshake and MsgForget, addresses, signatures  *)
(* and backoff lengths are left out, and so is the time POST /peers takes. *)
(***************************************************************************)
EXTENDS Naturals, FiniteSets

CONSTANTS
    Node,           \* the two servers
    Conn,           \* connection slots
    None,
    Commands,       \* what users do: some of Command
    MaxCommands,    \* bound on commands, pairing included
    MaxBreaks,      \* bound on network failures and restarts
    HalfOpen        \* may one end redial before the other notices a failure

Command == {"pair", "repair", "reconnect", "enable", "disable", "forget"}

ASSUME LinkAssumption ==
    /\ \E a, b \in Node : a # b /\ Node = {a, b}
    /\ None \notin Conn \cup Node
    /\ Commands \subseteq Command
    /\ MaxCommands \in Nat /\ MaxBreaks \in Nat
    /\ HalfOpen \in BOOLEAN

VARIABLES
    peer,       \* peer[n]: n's PeerStore record of the other server
    recon,      \* recon[n]: the reconnector goroutine of n's current peerLink
    conn,       \* conn[c]: the two ends of a connection
    reg,        \* reg[n]: the connection in n's Manager (HostState.Conn)
    pending,    \* pending[n]: the record ReconnectNow holds while it sleeps
    commands, breaks,
    cut         \* history: a registration was removed before its session ended

vars == <<peer, recon, conn, reg, pending, commands, breaks, cut>>

Other(n) == CHOOSE m \in Node : m # n

PeerRecord == [known : BOOLEAN, enabled : BOOLEAN, dialer : BOOLEAN]
Unknown == [known |-> FALSE, enabled |-> FALSE, dialer |-> FALSE]

\* off: no goroutine.  ready: about to dial, or backing off.  busy: in dialOnce.
ReconState == {"off", "ready", "busy"}

\* auth: before the verdict.  ok: the listener sent MsgAuthOK, or the dialer
\* read it.  closing: runSession has returned and its deferred calls are due.
\* stray: the listener's runSession found the peer registered and returned
\* without closing the connection.
EndState == {"auth", "ok", "rejected", "unknown", "session", "closing", "stray", "done"}

\* forget: the end that has queued MsgForget.
Free == [dialer |-> None, wire |-> "open", dial |-> "done", listen |-> "done",
         cancelled |-> FALSE, forget |-> None]

TypeOK ==
    /\ peer \in [Node -> PeerRecord]
    /\ recon \in [Node -> ReconState]
    /\ conn \in [Conn -> [dialer : Node \cup {None}, wire : {"open", "broken"},
                          dial : EndState, listen : EndState,
                          cancelled : BOOLEAN, forget : Node \cup {None}]]
    /\ reg \in [Node -> Conn \cup {None}]
    /\ pending \in [Node -> PeerRecord \cup {None}]
    /\ commands \in 0 .. MaxCommands /\ breaks \in 0 .. MaxBreaks
    /\ cut \in BOOLEAN

Init ==
    /\ peer = [n \in Node |-> Unknown]
    /\ recon = [n \in Node |-> "off"]
    /\ conn = [c \in Conn |-> Free]
    /\ reg = [n \in Node |-> None]
    /\ pending = [n \in Node |-> None]
    /\ commands = 0 /\ breaks = 0 /\ cut = FALSE

-----------------------------------------------------------------------------
(* Which end of which connection. *)

Ended(e) == e \in {"done", "stray", "rejected", "unknown"}

\* Both ends are through with it.
IsFree(c) == conn[c].dial = "done" /\ Ended(conn[c].listen)

\* The field of conn[c] that holds n's end.
EndOf(c, n) == IF conn[c].dialer = n THEN "dial" ELSE "listen"
EndAt(c, n) == conn[c][EndOf(c, n)]

\* The connection is of use to nobody at m's end, which has not noticed.
Stale(c, m) ==
    /\ ~ IsFree(c)
    /\ EndAt(c, m) \in {"ok", "session", "closing"}
    /\ conn[c].wire = "broken" \/ Ended(EndAt(c, Other(m))) \/ EndAt(c, Other(m)) = "closing"

-----------------------------------------------------------------------------
(* The reconnector and the handshake. *)

\* spawnLink starts a reconnector if we dial.
Spawned(record) == IF record.enabled /\ record.dialer THEN "ready" ELSE "off"

\* runReconnector calls dialOnce and reaches the other server.
Dial(n, c) ==
    /\ recon[n] = "ready"
    /\ IsFree(c)
    /\ HalfOpen \/ \A d \in Conn : ~ Stale(d, Other(n))
    /\ conn' = [conn EXCEPT ![c] = [Free EXCEPT !.dialer = n, !.dial = "auth", !.listen = "auth"]]
    /\ recon' = [recon EXCEPT ![n] = "busy"]
    /\ UNCHANGED <<peer, reg, pending, commands, breaks, cut>>

\* HandlePeer after authenticatePeer: an unpaired peer and a second connection
\* are refused.
Accept(c) ==
    LET m == Other(conn[c].dialer)
    IN  /\ ~ IsFree(c) /\ conn[c].listen = "auth"
        /\ conn' = [conn EXCEPT ![c].listen =
                      IF conn[c].wire = "broken" \/ conn[c].dial = "done" THEN "done"
                      ELSE IF ~ peer[m].known THEN "unknown"
                      ELSE IF reg[m] # None THEN "rejected"
                      ELSE "ok"]
        /\ UNCHANGED <<peer, recon, reg, pending, commands, breaks, cut>>

\* Mutant: a reconnector gives up after one dial.
AfterDial_GivesUp(c) ==
    recon' = [recon EXCEPT ![conn[c].dialer] = IF conn[c].cancelled THEN @ ELSE "off"]

\* The reconnector goes on after dialOnce, unless its context is cancelled:
\* then the goroutine ends and a newer one, if any, is not affected.
AfterDial(c) ==
    recon' = [recon EXCEPT ![conn[c].dialer] = IF conn[c].cancelled THEN @ ELSE "ready"]

\* dialOnce reads the verdict.
ReadVerdict(c) ==
    /\ ~ IsFree(c) /\ conn[c].dial = "auth"
    /\ conn[c].wire = "open"
    /\ conn[c].listen \in {"ok", "session", "closing", "stray"}
    /\ conn' = [conn EXCEPT ![c].dial = "ok"]
    /\ UNCHANGED <<peer, recon, reg, pending, commands, breaks, cut>>

\* "already connected": the dialer becomes a listener, in the store too, and
\* its reconnector returns.
RoleFlip(c) ==
    LET n == conn[c].dialer
    IN  /\ ~ IsFree(c) /\ conn[c].dial = "auth"
        /\ conn[c].wire = "open" /\ conn[c].listen = "rejected"
        /\ conn' = [conn EXCEPT ![c].dial = "done"]
        /\ peer' = [peer EXCEPT ![n].dialer = @ /\ ~ peer[n].known]
        /\ recon' = [recon EXCEPT ![n] = IF conn[c].cancelled THEN @ ELSE "off"]
        /\ UNCHANGED <<reg, pending, commands, breaks, cut>>

\* The handshake fails in any other way: the dialer backs off.
DialFails(c) ==
    /\ ~ IsFree(c) /\ conn[c].dial = "auth"
    /\ conn[c].wire = "broken" \/ conn[c].listen \in {"unknown", "done"}
    /\ conn' = [conn EXCEPT ![c].dial = "done"]
    /\ AfterDial(c)
    /\ UNCHANGED <<peer, reg, pending, commands, breaks, cut>>

-----------------------------------------------------------------------------
(* runSession, at either end. *)

\* Mutant: the connection is registered over a live one.
Register_Always(c, n) ==
    /\ ~ IsFree(c) /\ EndAt(c, n) = "ok"
    /\ reg' = [reg EXCEPT ![n] = c]
    /\ conn' = [conn EXCEPT ![c][EndOf(c, n)] = "session"]
    /\ UNCHANGED <<peer, recon, pending, commands, breaks, cut>>

\* TryRegisterPeer.  The end that is refused just returns: dialOnce closes its
\* connection, HandlePeer does not.
Register(c, n) ==
    /\ ~ IsFree(c) /\ EndAt(c, n) = "ok"
    /\ IF reg[n] = None
       THEN /\ reg' = [reg EXCEPT ![n] = c]
            /\ conn' = [conn EXCEPT ![c][EndOf(c, n)] = "session"]
            /\ UNCHANGED recon
       ELSE /\ conn' = [conn EXCEPT ![c][EndOf(c, n)] =
                           IF n = conn[c].dialer THEN "done" ELSE "stray"]
            /\ IF n = conn[c].dialer THEN AfterDial(c) ELSE UNCHANGED recon
            /\ UNCHANGED reg
    /\ UNCHANGED <<peer, pending, commands, breaks, cut>>

\* The read loop ends: cancelled, a dead connection, or the other end is gone
\* or does not answer pings.
SessionEnds(c, n) ==
    /\ ~ IsFree(c) /\ EndAt(c, n) = "session"
    /\ \/ n = conn[c].dialer /\ conn[c].cancelled
       \/ Stale(c, n)
    /\ conn' = [conn EXCEPT ![c][EndOf(c, n)] = "closing"]
    /\ UNCHANGED <<peer, recon, reg, pending, commands, breaks, cut>>

\* The deferred calls: UnregisterPeer takes the peer's id, so it drops
\* whichever connection is registered.
Teardown(c, n) ==
    /\ ~ IsFree(c) /\ EndAt(c, n) = "closing"
    /\ conn' = [conn EXCEPT ![c][EndOf(c, n)] = "done"]
    /\ reg' = [reg EXCEPT ![n] = None]
    /\ IF n = conn[c].dialer THEN AfterDial(c) ELSE UNCHANGED recon
    /\ UNCHANGED <<peer, pending, commands, breaks, cut>>

\* The writer gets a queued MsgForget out before its end is torn down; the
\* other end drops the peer and returns.  Its reconnector is not told.
DeliverForget(c) ==
    LET n == conn[c].forget
        m == Other(n)
    IN  /\ ~ IsFree(c) /\ n # None
        /\ conn[c].wire = "open" /\ EndAt(c, n) = "session" /\ EndAt(c, m) = "session"
        /\ conn' = [conn EXCEPT ![c].forget = None, ![c][EndOf(c, m)] = "closing"]
        /\ peer' = [peer EXCEPT ![m] = Unknown]
        /\ reg' = [reg EXCEPT ![m] = None] /\ cut' = TRUE
        /\ UNCHANGED <<recon, pending, commands, breaks>>

\* The network loses a connection.
Break(c) ==
    /\ breaks < MaxBreaks
    /\ ~ IsFree(c) /\ conn[c].wire = "open"
    /\ conn' = [conn EXCEPT ![c].wire = "broken"]
    /\ breaks' = breaks + 1
    /\ UNCHANGED <<peer, recon, reg, pending, commands, cut>>

\* A server is killed and comes back with its peers.json; Start spawns the
\* links.  The other end may not notice.
Restart(n) ==
    /\ breaks < MaxBreaks
    /\ breaks' = breaks + 1
    /\ conn' = [c \in Conn |-> IF IsFree(c) THEN conn[c]
                              ELSE [conn[c] EXCEPT ![EndOf(c, n)] = "done"]]
    /\ recon' = [recon EXCEPT ![n] = Spawned(peer[n])]
    /\ reg' = [reg EXCEPT ![n] = None]
    /\ pending' = [pending EXCEPT ![n] = None]
    /\ UNCHANGED <<peer, commands, cut>>

-----------------------------------------------------------------------------
(* What users do. *)

Asked(command) ==
    /\ command \in Commands
    /\ commands < MaxCommands
    /\ commands' = commands + 1
    /\ UNCHANGED breaks

\* Mutant: the link is replaced, its context is not cancelled.
Cancelled_Not(servers) == conn

\* The link's context is cancelled: the dial or session in progress will end.
Cancelled(servers) ==
    [c \in Conn |-> IF conn[c].dialer \in servers /\ conn[c].dial # "done"
                    THEN [conn[c] EXCEPT !.cancelled = TRUE] ELSE conn[c]]

\* UnregisterPeer or RemoveHost in a request, ahead of the session's own end.
Unregister(n) ==
    /\ reg' = [reg EXCEPT ![n] = None]
    /\ cut' = (cut \/ reg[n] # None)

\* POST /peers on n, and the bootstrap request it makes to the other server: a
\* peer that already knows n keeps its record.
Pair(n, auto) ==
    LET m     == Other(n)
        ours  == [known |-> TRUE, enabled |-> auto, dialer |-> TRUE]
        fresh == [known |-> TRUE, enabled |-> TRUE, dialer |-> FALSE]
    IN  /\ Asked(IF peer[n].known \/ peer[m].known THEN "repair" ELSE "pair")
        /\ peer' = [peer EXCEPT ![n] = ours, ![m] = IF peer[m].known THEN @ ELSE fresh]
        /\ conn' = Cancelled(IF peer[m].known THEN {n} ELSE {n, m})
        /\ recon' = [recon EXCEPT ![n] = Spawned(ours),
                                  ![m] = IF peer[m].known THEN @ ELSE "off"]
        /\ UNCHANGED <<reg, pending, cut>>

\* ReconnectNow up to its sleep.
ReconnectStart(n) ==
    /\ Asked("reconnect")
    /\ peer[n].known /\ pending[n] = None
    /\ conn' = Cancelled({n})
    /\ recon' = [recon EXCEPT ![n] = "off"]
    /\ Unregister(n)
    /\ pending' = [pending EXCEPT ![n] = peer[n]]
    /\ UNCHANGED peer

\* ... and from there: spawnLink with the record read before it.
ReconnectFinish(n) ==
    /\ pending[n] # None
    /\ conn' = Cancelled({n})
    /\ recon' = [recon EXCEPT ![n] = Spawned(pending[n])]
    /\ pending' = [pending EXCEPT ![n] = None]
    /\ UNCHANGED <<peer, reg, commands, breaks, cut>>

\* PATCH /peers with enabled=true.
Enable(n) ==
    /\ Asked("enable")
    /\ peer[n].known
    /\ peer' = [peer EXCEPT ![n].enabled = TRUE]
    /\ conn' = Cancelled({n})
    /\ recon' = [recon EXCEPT ![n] = Spawned(peer'[n])]
    /\ UNCHANGED <<reg, pending, cut>>

\* PATCH /peers with enabled=false.
Disable(n) ==
    /\ Asked("disable")
    /\ peer[n].known
    /\ peer' = [peer EXCEPT ![n].enabled = FALSE]
    /\ conn' = Cancelled({n})
    /\ recon' = [recon EXCEPT ![n] = "off"]
    /\ Unregister(n)
    /\ UNCHANGED pending

\* DELETE /peers: RemovePeer queues MsgForget on the live link, then cancels.
Forget(n) ==
    /\ Asked("forget")
    /\ peer[n].known
    /\ conn' = [c \in Conn |-> [Cancelled({n})[c] EXCEPT !.forget = IF reg[n] = c THEN n ELSE @]]
    /\ recon' = [recon EXCEPT ![n] = "off"]
    /\ Unregister(n)
    /\ peer' = [peer EXCEPT ![n] = Unknown]
    /\ UNCHANGED pending

-----------------------------------------------------------------------------
Progress(c) ==
    \/ Accept(c) \/ ReadVerdict(c) \/ RoleFlip(c) \/ DialFails(c) \/ DeliverForget(c)
    \/ \E n \in Node : Register(c, n) \/ SessionEnds(c, n) \/ Teardown(c, n)

Next ==
    \/ \E c \in Conn : Progress(c) \/ Break(c)
    \/ \E n \in Node :
         \/ \E c \in Conn : Dial(n, c)
         \/ (\E auto \in BOOLEAN : Pair(n, auto)) \/ ReconnectStart(n) \/ ReconnectFinish(n)
         \/ Enable(n) \/ Disable(n) \/ Forget(n) \/ Restart(n)

\* Goroutines run, timers and read deadlines fire; users and the network owe
\* nothing.
Fairness ==
    /\ \A c \in Conn : WF_vars(Progress(c))
    /\ \A n \in Node : WF_vars(\E c \in Conn : Dial(n, c)) /\ WF_vars(ReconnectFinish(n))

Spec == Init /\ [][Next]_vars
FairSpec == Spec /\ Fairness
-----------------------------------------------------------------------------
(* Properties. *)

Running(c, n) == ~ IsFree(c) /\ EndAt(c, n) = "session"

\* Over an open connection that both ends are using, and that both servers
\* can send on.
Linked == \E c \in Conn : /\ conn[c].wire = "open" /\ ~ conn[c].cancelled
                          /\ \A n \in Node : Running(c, n) /\ reg[n] = c

\* A server runs at most one session with its peer, however dials, refusals,
\* failures and restarts interleave: TryRegisterPeer closes the window between
\* HandlePeer's check and runSession.  A request that unregisters a live
\* session (reconnect, disable, forget) ends the guarantee.
OneSession == cut \/ \A n \in Node : \A c, d \in Conn : Running(c, n) /\ Running(d, n) => c = d

\* The Manager and the sessions agree: a registered connection has not been
\* torn down, and a running session is the registered one, so a fan-out
\* reaches exactly the peers that are listening, and UnregisterPeer, which
\* takes no connection, never drops a newer one; until a request unregisters
\* a live session.
Registered ==
    cut \/ \A n \in Node :
        /\ reg[n] # None => ~ IsFree(reg[n]) /\ EndAt(reg[n], n) \in {"session", "closing"}
        /\ \A c \in Conn : Running(c, n) => reg[n] = c

\* One running session per peer, the one the Manager has registered.
LinkInv == TypeOK /\ OneSession /\ Registered

\* The supervisor owns one reconnector per peer: whatever the requests that
\* replace a link and the sleep inside ReconnectNow, at most one dial is not
\* cancelled, and it is the current reconnector's.
OneReconnector ==
    \A n \in Node :
        LET live == {c \in Conn : /\ conn[c].dialer = n /\ conn[c].dial # "done"
                                  /\ ~ conn[c].cancelled}
        IN  Cardinality(live) = IF recon[n] = "busy" THEN 1 ELSE 0

\* "A dropped link auto-recovers": the two servers always end up linked again
\* when both mean to be.
AutoRecovers == (\A n \in Node : peer[n].known /\ peer[n].enabled) ~> Linked
=============================================================================
