---------------------------- MODULE PeerStreams ----------------------------
(***************************************************************************)
(* A dedicated connection between two servers, from the request on the     *)
(* control link to the end of its use.  The viewer asks the host to open a *)
(* terminal or to receive an upload.  Whichever server dialled the control *)
(* link dials the data connection as well and presents the token of the    *)
(* request; the other end registers the token in its StreamRegistry and    *)
(* waits.  The request and the connection may arrive in either order.      *)
(*                                                                         *)
(* For an upload the viewer then relays the browser's body to the host,    *)
(* which passes it through a pipe to a file and answers.  No write of the  *)
(* relay has a deadline: a full connection or a pipe without a reader      *)
(* blocks the handler that writes.                                         *)
(***************************************************************************)
EXTENDS Naturals, Sequences, FiniteSets

CONSTANTS
  Peers,      \* fingerprints of the paired servers that can reach the registry
  Expected,   \* the one the token is bound to
  MaxBody,    \* bound: chunks of the body the browser sends
  WireCap     \* frames the connection holds before a write blocks

ASSUME PeerStreamsAssumption ==
  Expected \in Peers /\ MaxBody \in Nat /\ WireCap \in Nat \ {0}

VARIABLES
  request,   \* [upload: is it an upload, viewerDials: who dials, body: chunks]
  viewer,    \* where the viewer's handler is
  host,      \* where the host's handler is
  ask,       \* MsgOpenTerminal / MsgOpenUpload on the control link
  pending,   \* StreamRegistry.pending has an entry for the token
  expired,   \* StreamRegistry.expired has the token
  claim,     \* per peer, where HandlePeerStream is with its connection
  resolved,  \* the peers whose connection is in PendingStream.resolved
  used,      \* the peer whose connection the registering end took, if any
  wire,      \* frames from viewer to host
  closed,    \* the ends that have closed the connection of Expected
  sent,      \* chunks written to the wire
  stored,    \* chunks written to the host's file
  file,      \* StoreUploadedFile: "open" while it reads the pipe, "failed" once
             \* it has returned early and removed the file, "kept" or "none" at the end
  reply,     \* what the host wrote back
  timedOut   \* history: a setup timer fired or the browser went away

vars == <<request, viewer, host, ask, pending, expired, claim, resolved, used,
          wire, closed, sent, stored, file, reply, timedOut>>

registry == <<pending, expired, claim>>
transfer == <<wire, sent, stored, file, reply>>

ViewerEnded == {"failed", "gone", "ok", "error"}

TypeOK ==
  /\ request \in [upload: BOOLEAN, viewerDials: BOOLEAN, body: 0..MaxBody]
  /\ viewer \in {"start", "asking", "waiting", "open", "result", "aborting"}
                \cup ViewerEnded
  /\ host \in {"idle", "opening", "waiting", "open", "blocked", "ended"}
  /\ ask \in {"none", "sent", "lost", "taken"}
  /\ pending \in BOOLEAN /\ expired \in BOOLEAN /\ timedOut \in BOOLEAN
  /\ claim \in [Peers -> {"none", "sent", "waiting", "matched", "dropped",
                           "claimed", "resolved", "refused"}]
  /\ resolved \subseteq Peers /\ Cardinality(resolved) <= 1
  /\ used \subseteq Peers
  /\ Len(wire) <= WireCap
  /\ closed \subseteq {"viewer", "host", "listener"}
  /\ sent \in 0..MaxBody /\ stored \in 0..sent
  /\ file \in {"none", "open", "failed", "kept"}
  /\ reply \in {"none", "path", "error"}

Init ==
  /\ request \in [upload: BOOLEAN, viewerDials: BOOLEAN, body: 0..MaxBody]
  /\ ~request.upload => request.body = 0
  /\ viewer = "start" /\ host = "idle" /\ ask = "none"
  /\ pending = FALSE /\ expired = FALSE /\ timedOut = FALSE
  /\ claim = [p \in Peers |-> "none"]
  /\ resolved = {} /\ used = {}
  /\ wire = <<>> /\ closed = {} /\ sent = 0 /\ stored = 0
  /\ file = "none" /\ reply = "none"

---------------------------------------------------------------------------
(* StreamRegistry *)

Waiting(p) == claim[p] = "waiting"

\* The waiter that Register hands the stream to.
Matches(p) == Waiting(p) /\ p = Expected

\* The other waiters of the token find their channel closed.
DropWaiters(c) == [p \in Peers |-> IF c[p] = "waiting" THEN "dropped" ELSE c[p]]

Register_IgnoresWaiters ==
  \/ expired /\ UNCHANGED registry
  \/ ~expired /\ pending' = TRUE /\ UNCHANGED <<expired, claim>>

Register ==
  \/ expired /\ UNCHANGED registry
  \/ /\ ~expired
     /\ \E p \in Peers :
          /\ Matches(p)
          /\ claim' = DropWaiters([claim EXCEPT ![p] = "matched"])
     /\ expired' = TRUE
     /\ UNCHANGED pending
  \/ /\ ~expired
     /\ \A p \in Peers : ~Matches(p)
     /\ pending' = TRUE
     /\ UNCHANGED <<expired, claim>>

Entitled(p) == p = Expected

AfterClaim_LeavesOpen(p) == UNCHANGED closed

\* HandlePeerStream closes a connection whose claim fails.
AfterClaim(p) ==
  closed' = IF claim'[p] = "refused" /\ p = Expected
              THEN closed \cup {"listener"} ELSE closed

\* Claim takes the entry of the expected peer, refuses any other peer, and
\* waits when the request has not arrived yet.
Claim(p) ==
  /\ claim[p] = "sent"
  /\ \/ expired /\ claim' = [claim EXCEPT ![p] = "refused"]
        /\ UNCHANGED <<pending, expired>>
     \/ /\ ~expired /\ pending /\ ~Entitled(p)
        /\ claim' = [claim EXCEPT ![p] = "refused"]
        /\ UNCHANGED <<pending, expired>>
     \/ /\ ~expired /\ pending /\ Entitled(p)
        /\ claim' = DropWaiters([claim EXCEPT ![p] = "claimed"])
        /\ pending' = FALSE /\ expired' = TRUE
     \/ /\ ~expired /\ ~pending
        /\ claim' = [claim EXCEPT ![p] = "waiting"]
        /\ UNCHANGED <<pending, expired>>
  /\ AfterClaim(p)
  /\ UNCHANGED <<request, viewer, host, ask, resolved, used, transfer, timedOut>>

\* Claim's select: the stream, a closed channel, or the timer.  The timer may
\* fire although a stream is already in the channel.
ClaimReturns(p) ==
  /\ \/ claim[p] = "matched" /\ claim' = [claim EXCEPT ![p] = "claimed"]
        /\ UNCHANGED timedOut
     \/ claim[p] = "dropped" /\ claim' = [claim EXCEPT ![p] = "refused"]
        /\ UNCHANGED timedOut
     \/ claim[p] \in {"waiting", "matched", "dropped"}
        /\ claim' = [claim EXCEPT ![p] = "refused"]
        /\ timedOut' = TRUE
  /\ AfterClaim(p)
  /\ UNCHANGED <<request, viewer, host, ask, pending, expired, resolved, used, transfer>>

\* HandlePeerStream ends with Resolve, which closes a connection that finds
\* the channel full.
Resolve(p) ==
  /\ claim[p] = "claimed"
  /\ claim' = [claim EXCEPT ![p] = "resolved"]
  /\ IF resolved = {}
       THEN resolved' = {p} /\ UNCHANGED closed
       ELSE UNCHANGED resolved
            /\ closed' = IF p = Expected THEN closed \cup {"listener"} ELSE closed
  /\ UNCHANGED <<request, viewer, host, ask, pending, expired, used, transfer, timedOut>>

\* The timer of Register.
Expire ==
  /\ pending
  /\ pending' = FALSE /\ expired' = TRUE
  /\ claim' = DropWaiters(claim)
  /\ timedOut' = TRUE
  /\ UNCHANGED <<request, viewer, host, ask, resolved, used, closed, transfer>>

\* Another paired server presents the token.
Stray(p) ==
  /\ p # Expected /\ claim[p] = "none"
  /\ claim' = [claim EXCEPT ![p] = "sent"]
  /\ UNCHANGED <<request, viewer, host, ask, pending, expired, resolved, used,
                 closed, transfer, timedOut>>

---------------------------------------------------------------------------
(* The two handlers while the connection is set up *)

\* DialPeerStream: connect, authenticate, send the token, do not wait for
\* the claim.
Dial == claim' = [claim EXCEPT ![Expected] = "sent"] /\ UNCHANGED <<pending, expired>>

ViewerSetsUp ==
  /\ viewer = "start"
  /\ IF request.viewerDials
       THEN \/ Dial /\ viewer' = "asking" /\ UNCHANGED timedOut
            \/ viewer' = "failed" /\ timedOut' = TRUE /\ UNCHANGED registry
       ELSE Register /\ viewer' = "asking" /\ UNCHANGED timedOut
  /\ UNCHANGED <<request, host, ask, resolved, used, closed, transfer>>

\* EnqueueHi, which fails when the lane is full.
ViewerAsks ==
  /\ viewer = "asking"
  /\ \/ /\ ask' = "sent"
        /\ viewer' = IF request.viewerDials THEN "open" ELSE "waiting"
        /\ UNCHANGED closed
     \/ /\ viewer' = "failed"
        /\ closed' = IF request.viewerDials THEN closed \cup {"viewer"} ELSE closed
        /\ UNCHANGED ask
  /\ UNCHANGED <<request, host, registry, resolved, used, transfer, timedOut>>

AskLost ==
  /\ ask = "sent" /\ ask' = "lost"
  /\ UNCHANGED <<request, viewer, host, registry, resolved, used, closed, transfer, timedOut>>

HostAsked ==
  /\ ask = "sent" /\ ask' = "taken" /\ host' = "opening"
  /\ UNCHANGED <<request, viewer, registry, resolved, used, closed, transfer, timedOut>>

\* StoreUploadedFile starts as soon as the host's end of an upload is open; it
\* fails at once when it cannot create the file.
OpenFile == file' \in IF request.upload THEN {"open", "failed"} ELSE {file}

HostSetsUp ==
  /\ host = "opening"
  /\ IF request.viewerDials
       THEN Register /\ host' = "waiting" /\ UNCHANGED <<file, timedOut>>
       ELSE \/ Dial /\ host' = "open" /\ OpenFile /\ UNCHANGED timedOut
            \/ host' = "ended" /\ timedOut' = TRUE /\ UNCHANGED <<registry, file>>
  /\ UNCHANGED <<request, viewer, ask, resolved, used, closed, wire, sent, stored, reply>>

\* WaitResolved at the end that registered: the connection, or the timer.
Taken == resolved # {} /\ used' = resolved /\ resolved' = {} /\ UNCHANGED timedOut
GivenUp == timedOut' = TRUE /\ UNCHANGED <<used, resolved>>

ViewerWaits ==
  /\ viewer = "waiting"
  /\ \/ Taken /\ viewer' = "open"
     \/ GivenUp /\ viewer' = "failed"
  /\ UNCHANGED <<request, host, ask, registry, closed, transfer>>

HostWaits ==
  /\ host = "waiting"
  /\ \/ Taken /\ host' = "open" /\ OpenFile
     \/ GivenUp /\ host' = "ended" /\ UNCHANGED file
  /\ UNCHANGED <<request, viewer, ask, registry, closed, wire, sent, stored, reply>>

---------------------------------------------------------------------------
(* Use: the viewer relays the body, the host stores it *)

\* A write fails once the other end, or the listener, has closed.
Broken == closed # {}

BodyLeft == sent < request.body

ViewerSends ==
  /\ viewer = "open" /\ request.upload
  /\ BodyLeft /\ Len(wire) < WireCap /\ ~Broken
  /\ wire' = Append(wire, "chunk") /\ sent' = sent + 1
  /\ UNCHANGED <<request, viewer, host, ask, registry, resolved, used, closed, stored,
                 file, reply, timedOut>>

\* A failed write ends the request; the browser sees no result.
ViewerWriteFails ==
  /\ viewer = "open" /\ request.upload /\ Broken
  /\ viewer' = "failed" /\ closed' = closed \cup {"viewer"}
  /\ UNCHANGED <<request, host, ask, registry, resolved, used, transfer, timedOut>>

\* The browser goes away, which the handler notices while it waits for the
\* connection, the body or the answer, and not while a write is blocked.
BrowserGone ==
  /\ request.upload /\ viewer \in {"waiting", "open", "result"}
  /\ viewer' = IF viewer = "waiting" THEN "gone" ELSE "aborting"
  /\ timedOut' = TRUE
  /\ UNCHANGED <<request, host, ask, registry, resolved, used, closed, transfer>>

\* Then it writes an abort frame, waiting for room, and closes the connection.
ViewerAborts ==
  /\ viewer = "aborting" /\ viewer' = "gone"
  /\ \/ Broken /\ UNCHANGED wire
     \/ ~Broken /\ Len(wire) < WireCap /\ wire' = Append(wire, "abort")
  /\ closed' = closed \cup {"viewer"}
  /\ UNCHANGED <<request, host, ask, registry, resolved, used, sent, stored, file, reply,
                 timedOut>>

ViewerSendsEof ==
  /\ viewer = "open" /\ request.upload
  /\ ~BodyLeft /\ Len(wire) < WireCap /\ ~Broken
  /\ wire' = Append(wire, "eof") /\ viewer' = "result"
  /\ UNCHANGED <<request, host, ask, registry, resolved, used, closed, sent, stored,
                 file, reply, timedOut>>

\* The answer, the end of the connection, or 30 seconds without either.
ViewerReads ==
  /\ viewer = "result"
  /\ viewer' = CASE reply = "path" -> "ok" [] reply = "error" -> "error"
                 [] OTHER -> "failed"
  /\ closed' = closed \cup {"viewer"}
  /\ UNCHANGED <<request, host, ask, registry, resolved, used, transfer, timedOut>>

\* handleOpenUpload ends: the file is kept or removed and the answer, if
\* any, is written before the connection is closed.
HostEnds(keep, answer) ==
  /\ host' = "ended" /\ closed' = closed \cup {"host"}
  /\ file' = IF keep THEN "kept" ELSE "none"
  /\ reply' = IF Broken THEN reply ELSE answer

\* What a frame of text does to the pipe StoreUploadedFile reads from: an
\* empty file is refused, an aborted or a failed one removed.
Complete(frame) == frame = "eof" /\ file = "open" /\ stored > 0

\* A chunk goes into the pipe.  The disk may fail with the chunk consumed, or
\* with part of it still in the pipe.  Nobody closes the reading end, so a
\* handler whose chunk no one reads is blocked for good: it reads no frame,
\* sends no answer and closes nothing.
StoreChunk ==
  \/ file = "open" /\ stored' = stored + 1 /\ UNCHANGED <<host, file>>
  \/ file = "open" /\ file' = "failed" /\ host' \in {"open", "blocked"} /\ UNCHANGED stored
  \/ file = "failed" /\ host' = "blocked" /\ UNCHANGED <<file, stored>>

HostReads ==
  /\ host = "open" /\ request.upload /\ wire # <<>>
  /\ wire' = Tail(wire)
  /\ IF Head(wire) = "chunk"
       THEN StoreChunk /\ UNCHANGED <<closed, reply>>
       ELSE /\ HostEnds(Complete(Head(wire)), CASE Head(wire) = "abort" -> "none"
                                                [] Complete(Head(wire)) -> "path"
                                                [] OTHER -> "error")
            /\ UNCHANGED stored
  /\ UNCHANGED <<request, viewer, ask, registry, resolved, used, sent, timedOut>>

KeepOnError_LikeEof == stored > 0

\* The connection breaks or 60 seconds pass without a frame: the pipe is
\* closed with an error, so the file is removed.
KeepOnError == FALSE

HostReadFails ==
  /\ host = "open" /\ request.upload /\ wire = <<>>
  /\ HostEnds(KeepOnError, IF KeepOnError THEN "path" ELSE "error")
  /\ UNCHANGED <<request, viewer, ask, registry, resolved, used, wire, sent, stored, timedOut>>

\* The network drops the connection and what it still held.
Break ==
  /\ viewer \in {"open", "result", "aborting"} /\ claim[Expected] # "none" /\ ~Broken
  /\ closed' = closed \cup {"listener"}
  /\ \E n \in 0..Len(wire) : wire' = SubSeq(wire, 1, n)
  /\ UNCHANGED <<request, viewer, host, ask, registry, resolved, used, sent, stored,
                 file, reply, timedOut>>

\* The bridge of a terminal ends at both ends when either closes.
TerminalEnds ==
  /\ ~request.upload
  /\ \/ viewer = "open" /\ viewer' = "ok" /\ closed' = closed \cup {"viewer"}
        /\ UNCHANGED host
     \/ host = "open" /\ host' = "ended" /\ closed' = closed \cup {"host"}
        /\ UNCHANGED viewer
  /\ UNCHANGED <<request, ask, registry, resolved, used, transfer, timedOut>>

---------------------------------------------------------------------------
Next ==
  \/ \E p \in Peers : Claim(p) \/ ClaimReturns(p) \/ Resolve(p) \/ Stray(p)
  \/ Expire \/ ViewerSetsUp \/ ViewerAsks \/ AskLost \/ HostAsked \/ HostSetsUp
  \/ ViewerWaits \/ HostWaits
  \/ ViewerSends \/ ViewerWriteFails \/ BrowserGone \/ ViewerAborts \/ ViewerSendsEof \/ ViewerReads
  \/ HostReads \/ HostReadFails \/ Break \/ TerminalEnds

\* Handlers and timers run.  The network need not break, the browser need not
\* leave, a terminal may stay open, and nobody need present a stray token.
Fairness ==
  /\ WF_vars(ViewerSetsUp) /\ WF_vars(ViewerAsks) /\ WF_vars(HostAsked)
  /\ WF_vars(HostSetsUp) /\ WF_vars(ViewerWaits) /\ WF_vars(HostWaits)
  /\ WF_vars(ViewerSends) /\ WF_vars(ViewerWriteFails) /\ WF_vars(ViewerAborts)
  /\ WF_vars(ViewerSendsEof)
  /\ WF_vars(ViewerReads) /\ WF_vars(HostReads) /\ WF_vars(HostReadFails)
  /\ \A p \in Peers : WF_vars(Claim(p)) /\ WF_vars(ClaimReturns(p)) /\ WF_vars(Resolve(p))

Spec == Init /\ [][Next]_vars /\ Fairness

---------------------------------------------------------------------------
(* Properties *)

\* Only the connection of the peer that the token is bound to ever reaches the
\* end that registered it, whatever order Register, the claims of several
\* peers and the timers take.
OnlyExpectedPeer == resolved \cup used \subseteq {Expected}

\* The two ends never wait for each other: once the request has registered the
\* token, the expected connection is not left among the waiters of Claim.
NoMutualWait == "waiting" \in {viewer, host} => ~Waiting(Expected)

\* The registry joins a token with the right connection, and does not miss it.
RegistryInv == TypeOK /\ OnlyExpectedPeer /\ NoMutualWait

\* A file is kept on the host only when every chunk of the browser's body is in
\* it, and the browser is told a path only for such a file, whatever breaks in
\* between (handleRemoteUpload, handleOpenUpload, StoreUploadedFile).
UploadWhole ==
  /\ file = "kept" => stored = request.body
  /\ request.upload /\ viewer = "ok" => file = "kept"

\* A connection that Resolve delivered after the waiting end had given up:
\* nobody reads it and nobody closes it.
Orphaned == resolved # {} /\ "waiting" \notin {viewer, host}

\* The host's handler is blocked on its pipe, and the viewer's on the full
\* connection that nobody reads and nobody closes.
BothBlocked ==
  /\ host = "blocked" /\ viewer \in {"open", "aborting"}
  /\ Len(wire) = WireCap /\ ~Broken

\* Every upload request ends, with a result or an error, although no write of
\* the relay has a deadline.  There are two exceptions: an orphaned connection,
\* and a store that failed with more still to be written than the connection
\* holds.  A failed store by itself is none: once its frames are sent, the
\* viewer waits 30 seconds for an answer and gives up.
UploadEnds ==
  (viewer = "start" /\ request.upload) ~> (viewer \in ViewerEnded \/ Orphaned \/ BothBlocked)

\* What StoreUploadedFile's comment says, "disk limits surface as write errors":
\* an upload whose store fails ends.  It does not: see the README.
DiskLimitsSurface ==
  (request.upload /\ file = "failed" /\ viewer \notin ViewerEnded) ~> (viewer \in ViewerEnded)
=============================================================================
