---------------------------- MODULE TerminalPath ----------------------------
(***************************************************************************)
(* One terminal from the shell to the browser: the session daemon's pump   *)
(* and fan-out (pty/daemon.go), the DaemonSession client with its two      *)
(* buffers (pty/daemon_client.go), the bridge's reader and main loops      *)
(* (ws/pty_terminal.go) and the output coalescer (ws/coalescer.go).  Seven *)
(* goroutines in two processes; a step is what one of them does between    *)
(* two points where another may act.                                       *)
(*                                                                         *)
(* The shell prints the bytes 1, 2, 3, ...  A daemon client's queue and    *)
(* the kernel's socket buffer are one FIFO.  Input, resizing and pongs     *)
(* carry no output and are left out.                                       *)
(***************************************************************************)
EXTENDS RingBuffer, SequencesExt

CONSTANTS
    Modes,        \* values of gated: may the browser ask for framed replay?
    RingSize,     \* BufferSize of the ring
    QueueCap,     \* capacity of a client's write channel
    BufferCap,    \* maxClientBuffer
    ReadSize,     \* the reader's buffer
    ChunkCap,     \* outputQueueCapacity
    MaxFrame,     \* maxOutputFrameBytes
    MaxPrinted,   \* bound: bytes the shell prints
    MaxChunk      \* bound: bytes in one read of the PTY

ASSUME TerminalAssumption ==
    /\ Modes \subseteq BOOLEAN
    /\ {RingSize, QueueCap, BufferCap, ReadSize, ChunkCap, MaxFrame, MaxChunk}
         \subseteq Nat \ {0}
    /\ MaxPrinted \in Nat

VARIABLES
    gated,        \* replayGated, from the browser's query
    printed,      \* bytes printed so far
    ring,         \* the daemon's scrollback
    unsent,       \* bytes in the ring that pumpPTY has not broadcast yet
    alive,        \* the daemon runs
    client,       \* this viewer at the daemon: "absent", "added", "snapped",
                  \* "attached" or "gone"
    replay,       \* handleClient's snapshot, between taking and queueing it
    from,         \* first byte of that snapshot's window
    queue,        \* frames on their way to the client: [k, bytes]
    lost,         \* some output for this viewer was discarded on purpose
    replayBuf, liveBuf, replaySeen, boundaryEmitted, sessDone,  \* DaemonSession
    reader,       \* the bridge's reader: [pc, k, bytes, eof]
    firstChunkDone, inReplay,
    chunks, chunksClosed, control, acked,   \* the coalescer's channels
    buffered, coalescer, writeFailed, \* and its goroutine
    browser,      \* "open" or "closed"
    nudged,       \* the browser connection's read deadline was forced
    main,         \* the bridge's main loop: "reading", "closing" or "ended"
    feed          \* what the browser received

shellVars == <<printed, ring, unsent, alive>>
daemonVars == <<client, replay, from, queue>>
sessVars == <<replayBuf, liveBuf, replaySeen, boundaryEmitted, sessDone>>
readerVars == <<reader, firstChunkDone, inReplay>>
channelVars == <<chunks, chunksClosed, control, acked>>
coalVars == <<buffered, coalescer, writeFailed, feed>>
connVars == <<browser, nudged, main>>
terminalVars == <<gated, lost, shellVars, daemonVars, sessVars, readerVars, channelVars, coalVars, connVars>>

Frames == [k : {"replay", "live"}, bytes : Seq(1..MaxPrinted)]
Idle == [pc |-> "call", k |-> "live", bytes |-> <<>>, eof |-> FALSE]

TerminalTypeOK ==
    /\ gated \in Modes /\ lost \in BOOLEAN
    /\ printed \in 0..MaxPrinted /\ alive \in BOOLEAN
    /\ ring.size \in 0..RingSize /\ ring.head \in 0..(RingSize - 1) /\ ring.tail \in 0..(RingSize - 1)
    /\ client \in {"absent", "added", "snapped", "attached", "gone"}
    /\ queue \in Seq(Frames) /\ Len(queue) <= QueueCap
    /\ Len(replayBuf) <= BufferCap /\ Len(liveBuf) <= BufferCap
    /\ {replaySeen, boundaryEmitted, sessDone, firstChunkDone, inReplay, chunksClosed,
        acked, writeFailed, nudged} \subseteq BOOLEAN
    /\ reader.pc \in {"call", "wait", "submit", "control", "ack", "close", "flush", "done"}
    /\ Len(chunks) <= ChunkCap /\ control \in {"none", "start", "end"}
    /\ Len(buffered) < MaxFrame
    /\ coalescer \in {"drain", "controls", "select", "discard", "done"}
    /\ browser \in {"open", "closed"} /\ main \in {"reading", "closing", "ended"}

TerminalInit ==
    /\ gated \in Modes /\ lost = FALSE
    /\ printed = 0 /\ ring = newRingBuffer(RingSize) /\ unsent = <<>> /\ alive = TRUE
    /\ client = "absent" /\ replay = <<>> /\ from = 1 /\ queue = <<>>
    /\ replayBuf = <<>> /\ liveBuf = <<>>
    /\ replaySeen = FALSE /\ boundaryEmitted = FALSE /\ sessDone = FALSE
    /\ reader = Idle /\ firstChunkDone = FALSE /\ inReplay = FALSE
    /\ chunks = <<>> /\ chunksClosed = FALSE /\ control = "none" /\ acked = FALSE
    /\ buffered = <<>> /\ coalescer = "drain" /\ writeFailed = FALSE
    /\ browser = "open" /\ nudged = FALSE /\ main = "reading" /\ feed = <<>>

-----------------------------------------------------------------------------
(* The daemon. *)

(* pumpPTY: read, then write the ring.                                     *)
PumpRead ==
    /\ alive /\ unsent = <<>>
    /\ \E m \in 1..MaxChunk :
         LET out == [i \in 1..m |-> printed + i]
         IN  /\ printed + m <= MaxPrinted
             /\ printed' = printed + m /\ unsent' = out /\ ring' = RingWrite(ring, out)
    /\ UNCHANGED <<gated, lost, alive, daemonVars, sessVars, readerVars, channelVars, coalVars, connVars>>

InClients_AfterReplay == client = "attached"

(* Is the viewer in the clients map?  addClient comes first.               *)
InClients == client \in {"added", "snapped", "attached"}

(* broadcast: a full queue drops the frame.                                *)
Broadcast ==
    /\ alive /\ unsent # <<>> /\ unsent' = <<>>
    /\ IF ~InClients THEN UNCHANGED <<queue, lost>>
       ELSE IF Len(queue) < QueueCap
       THEN queue' = Append(queue, [k |-> "live", bytes |-> unsent]) /\ UNCHANGED lost
       ELSE lost' = TRUE /\ UNCHANGED queue
    /\ UNCHANGED <<gated, printed, ring, alive, client, replay, from,
                   sessVars, readerVars, channelVars, coalVars, connVars>>

(* NewDaemonSession connects; handleClient begins with addClient.          *)
AddClient ==
    /\ alive /\ client = "absent" /\ client' = "added"
    /\ UNCHANGED <<gated, lost, shellVars, replay, from, queue,
                   sessVars, readerVars, channelVars, coalVars, connVars>>

TakeSnapshot ==
    /\ alive /\ client = "added" /\ client' = "snapped"
    /\ replay' = Snapshot(ring) /\ from' = printed - ring.size + 1
    /\ UNCHANGED <<gated, lost, shellVars, queue, sessVars, readerVars, channelVars, coalVars, connVars>>

(* Queue the replay; disconnect a client whose queue is full already.      *)
QueueReplay ==
    /\ alive /\ client = "snapped" /\ replay' = <<>>
    /\ \/ replay = <<>> /\ client' = "attached" /\ UNCHANGED <<queue, lost>>
       \/ /\ replay # <<>> /\ Len(queue) < QueueCap /\ client' = "attached"
          /\ queue' = Append(queue, [k |-> "replay", bytes |-> replay]) /\ UNCHANGED lost
       \/ /\ replay # <<>> /\ Len(queue) = QueueCap /\ client' = "gone"
          /\ lost' = TRUE /\ UNCHANGED queue
    /\ UNCHANGED <<gated, shellVars, from, sessVars, readerVars, channelVars, coalVars, connVars>>

(***************************************************************************)
(* shutdown: every client connection is closed; frames the writer had      *)
(* already put into the socket can still be read.                          *)
(***************************************************************************)
Shutdown ==
    /\ alive /\ alive' = FALSE /\ unsent' = <<>> /\ replay' = <<>>
    /\ client' = IF client = "absent" THEN "absent" ELSE "gone"
    /\ \E n \in 0..Len(queue) : queue' = SubSeq(queue, 1, n)
    /\ lost' = TRUE
    /\ UNCHANGED <<gated, printed, ring, from, sessVars, readerVars, channelVars, coalVars, connVars>>

-----------------------------------------------------------------------------
(* DaemonSession. *)

(* appendReplay and appendLive: a buffer that would overflow is emptied.   *)
Bounded(buf, data) ==
    IF Len(buf) + Len(data) <= BufferCap THEN buf \o data
    ELSE SubSeq(data, IF Len(data) > BufferCap THEN Len(data) - BufferCap + 1 ELSE 1, Len(data))

(* readFrames: the next frame goes to the buffer of its kind.              *)
ReadFrame ==
    /\ queue # <<>> /\ ~sessDone /\ queue' = Tail(queue)
    /\ LET f   == Head(queue)
           buf == IF f.k = "replay" THEN replayBuf ELSE liveBuf
       IN  /\ lost' = (lost \/ Len(buf) + Len(f.bytes) > BufferCap)
           /\ IF f.k = "replay"
              THEN replayBuf' = Bounded(buf, f.bytes) /\ replaySeen' = TRUE /\ UNCHANGED liveBuf
              ELSE liveBuf' = Bounded(buf, f.bytes) /\ UNCHANGED <<replayBuf, replaySeen>>
    /\ UNCHANGED <<gated, shellVars, client, replay, from, boundaryEmitted, sessDone,
                   readerVars, channelVars, coalVars, connVars>>

(* The connection ended: signalDone.                                       *)
SignalDone ==
    /\ client = "gone" /\ queue = <<>> /\ ~sessDone /\ sessDone' = TRUE
    /\ UNCHANGED <<gated, lost, shellVars, daemonVars, replayBuf, liveBuf, replaySeen, boundaryEmitted,
                   readerVars, channelVars, coalVars, connVars>>

-----------------------------------------------------------------------------
(* The bridge's reader. *)

Chunk(kind, bytes, pc) == [pc |-> pc, k |-> kind, bytes |-> bytes, eof |-> FALSE]
FirstOf(buf) == SubSeq(buf, 1, IF Len(buf) < ReadSize THEN Len(buf) ELSE ReadSize)
RestOf(buf) == SubSeq(buf, ReadSize + 1, Len(buf))

(* A live chunk, or the end of the session, closes a replay still open.    *)
TakeLive ==
    /\ IF liveBuf # <<>>
       THEN /\ reader' = Chunk("live", FirstOf(liveBuf), IF inReplay THEN "control" ELSE "submit")
            /\ liveBuf' = RestOf(liveBuf)
       ELSE /\ reader' = [pc |-> IF inReplay THEN "control" ELSE "close", k |-> "live",
                          bytes |-> <<>>, eof |-> TRUE]
            /\ UNCHANGED liveBuf

(***************************************************************************)
(* ReadFramed: replay, then the boundary once, then live bytes.  A call    *)
(* that finds nothing waits for live bytes or the end, and for nothing     *)
(* else: a replay that arrives meanwhile does not end the wait.            *)
(***************************************************************************)
ReadFramed ==
    /\ gated /\ reader.pc = "call" /\ client # "absent"
    /\ CASE replayBuf # <<>> ->
              /\ reader' = Chunk("replay", FirstOf(replayBuf), IF firstChunkDone THEN "submit" ELSE "control")
              /\ replayBuf' = RestOf(replayBuf) /\ UNCHANGED <<liveBuf, boundaryEmitted>>
         [] replayBuf = <<>> /\ replaySeen /\ ~boundaryEmitted ->
              /\ boundaryEmitted' = TRUE
              /\ reader' = IF inReplay THEN [Idle EXCEPT !.pc = "control"] ELSE Idle
              /\ UNCHANGED <<replayBuf, liveBuf>>
         [] replayBuf = <<>> /\ (~replaySeen \/ boundaryEmitted) /\ (liveBuf # <<>> \/ sessDone) ->
              TakeLive /\ UNCHANGED <<replayBuf, boundaryEmitted>>
         [] OTHER ->
              reader' = [Idle EXCEPT !.pc = "wait"] /\ UNCHANGED <<replayBuf, liveBuf, boundaryEmitted>>
    /\ UNCHANGED <<gated, lost, shellVars, daemonVars, replaySeen, sessDone,
                   firstChunkDone, inReplay, channelVars, coalVars, connVars>>

ReadFramedWoken ==
    /\ reader.pc = "wait" /\ (liveBuf # <<>> \/ sessDone)
    /\ TakeLive
    /\ UNCHANGED <<gated, lost, shellVars, daemonVars, replayBuf, replaySeen, boundaryEmitted, sessDone,
                   firstChunkDone, inReplay, channelVars, coalVars, connVars>>

(* Read, without framing: replay bytes before live bytes.                  *)
ReadFlat ==
    /\ ~gated /\ reader.pc = "call" /\ client # "absent"
    /\ \/ /\ replayBuf # <<>>
          /\ reader' = Chunk("replay", FirstOf(replayBuf), "submit")
          /\ replayBuf' = RestOf(replayBuf) /\ UNCHANGED liveBuf
       \/ /\ replayBuf = <<>> /\ (liveBuf # <<>> \/ sessDone)
          /\ TakeLive /\ UNCHANGED replayBuf
    /\ UNCHANGED <<gated, lost, shellVars, daemonVars, replaySeen, boundaryEmitted, sessDone,
                   firstChunkDone, inReplay, channelVars, coalVars, connVars>>

(* SubmitControl, first half: replay-start before a first replay chunk,    *)
(* replay-end otherwise.                                                   *)
SubmitControl ==
    /\ reader.pc = "control" /\ reader' = [reader EXCEPT !.pc = "ack"]
    /\ control' = IF reader.k = "replay" THEN "start" ELSE "end"
    /\ acked' = FALSE
    /\ firstChunkDone' = (firstChunkDone \/ reader.k = "replay")
    /\ inReplay' = (reader.k = "replay")
    /\ UNCHANGED <<gated, lost, shellVars, daemonVars, sessVars, chunks, chunksClosed, coalVars, connVars>>

(* SubmitControl, second half: until the frame is written or the           *)
(* coalescer has stopped.                                                  *)
ControlAcked ==
    /\ reader.pc = "ack" /\ (acked \/ coalescer = "done")
    /\ reader' = IF reader.eof THEN [reader EXCEPT !.pc = "close"]
                 ELSE IF reader.bytes = <<>> THEN Idle ELSE [reader EXCEPT !.pc = "submit"]
    /\ UNCHANGED <<gated, lost, shellVars, daemonVars, sessVars, firstChunkDone, inReplay,
                   channelVars, coalVars, connVars>>

Submit ==
    /\ reader.pc = "submit" /\ Len(chunks) < ChunkCap
    /\ chunks' = Append(chunks, [i \in 1..Len(reader.bytes) |-> [k |-> reader.k, b |-> reader.bytes[i]]])
    /\ reader' = Idle
    /\ UNCHANGED <<gated, lost, shellVars, daemonVars, sessVars, firstChunkDone, inReplay,
                   chunksClosed, control, acked, coalVars, connVars>>

(* The session ended: force the main loop's read, CloseAndFlush, wait.     *)
ReaderCloses ==
    /\ reader.pc = "close" /\ reader' = [reader EXCEPT !.pc = "flush"]
    /\ chunksClosed' = TRUE /\ nudged' = TRUE
    /\ UNCHANGED <<gated, lost, shellVars, daemonVars, sessVars, firstChunkDone, inReplay,
                   chunks, control, acked, coalVars, browser, main>>

ReaderDone ==
    /\ reader.pc = "flush" /\ coalescer = "done" /\ reader' = [reader EXCEPT !.pc = "done"]
    /\ UNCHANGED <<gated, lost, shellVars, daemonVars, sessVars, firstChunkDone, inReplay,
                   channelVars, coalVars, connVars>>

-----------------------------------------------------------------------------
(* The coalescer.  A write to a closed browser fails and forces the main   *)
(* loop's read; what was to be written is gone.                            *)

Write(items, rest) ==
    /\ buffered' = rest
    /\ IF items = <<>> \/ browser = "open"
       THEN feed' = feed \o items /\ UNCHANGED <<writeFailed, nudged, lost>>
       ELSE writeFailed' = TRUE /\ nudged' = TRUE /\ lost' = TRUE /\ UNCHANGED feed

AppendChunk_KeepsFlushed(all) ==
    LET n == (Len(all) \div MaxFrame) * MaxFrame
    IN  Write(SubSeq(all, 1, n), IF n = 0 THEN all ELSE SubSeq(all, n, Len(all)))

(* appendChunk: whole frames leave at once, the rest waits for the timer.  *)
AppendChunk(all) ==
    LET n == (Len(all) \div MaxFrame) * MaxFrame
    IN  Write(SubSeq(all, 1, n), SubSeq(all, n + 1, Len(all)))

Top_StopsAtFailure(failed) == IF failed THEN "done" ELSE "drain"

(* The top of run's loop: after a failed write, only discard.              *)
Top(failed) == IF failed THEN "discard" ELSE "drain"

CoalescerRest == <<gated, shellVars, daemonVars, sessVars, readerVars, chunksClosed, browser, main>>

(* Take what was accepted already; look for controls once that is done.    *)
Drain ==
    /\ coalescer = "drain"
    /\ \/ /\ chunks # <<>> /\ AppendChunk(buffered \o Head(chunks))
          /\ chunks' = Tail(chunks) /\ UNCHANGED coalescer
       \/ /\ chunks = <<>> /\ ~chunksClosed /\ coalescer' = "controls"
          /\ UNCHANGED <<chunks, buffered, feed, writeFailed, nudged, lost>>
    /\ UNCHANGED <<CoalescerRest, control, acked>>

(* processControl: flush, then the control; a failed write leaves the      *)
(* submitter without its acknowledgement.                                  *)
ProcessControl ==
    /\ coalescer \in {"controls", "select"} /\ control # "none" /\ control' = "none"
    /\ Write(Append(buffered, [k |-> control, b |-> 0]), <<>>)
    /\ acked' = (browser = "open")
    /\ coalescer' = Top(writeFailed')
    /\ UNCHANGED <<CoalescerRest, chunks>>

NoControl ==
    /\ coalescer = "controls" /\ control = "none" /\ coalescer' = "select"
    /\ UNCHANGED <<CoalescerRest, lost, channelVars, buffered, writeFailed, feed, nudged>>

(* The quiet window runs while something is buffered.                      *)
TimerFired == buffered # <<>>

(* The blocking select: a chunk, or the quiet window has passed.           *)
SelectChunk ==
    /\ coalescer = "select" /\ chunks # <<>>
    /\ AppendChunk(buffered \o Head(chunks)) /\ chunks' = Tail(chunks)
    /\ coalescer' = Top(writeFailed')
    /\ UNCHANGED <<CoalescerRest, control, acked>>

SelectTimer ==
    /\ coalescer = "select" /\ TimerFired
    /\ Write(buffered, <<>>)
    /\ coalescer' = Top(writeFailed')
    /\ UNCHANGED <<CoalescerRest, chunks, control, acked>>

(* chunks was closed: flush and stop.                                      *)
Finish ==
    /\ coalescer \in {"drain", "select"} /\ chunksClosed /\ chunks = <<>>
    /\ Write(buffered, <<>>) /\ coalescer' = "done"
    /\ UNCHANGED <<CoalescerRest, chunks, control, acked>>

Discard ==
    /\ coalescer = "discard"
    /\ \/ chunks # <<>> /\ chunks' = Tail(chunks) /\ UNCHANGED coalescer
       \/ chunks = <<>> /\ chunksClosed /\ coalescer' = "done" /\ UNCHANGED chunks
    /\ UNCHANGED <<CoalescerRest, lost, control, acked, buffered, writeFailed, feed, nudged>>

-----------------------------------------------------------------------------
(* The browser leaves, or its connection dies.                             *)
BrowserCloses ==
    /\ browser = "open" /\ browser' = "closed"
    /\ UNCHANGED <<gated, lost, shellVars, daemonVars, sessVars, readerVars, channelVars, coalVars,
                   nudged, main>>

(* The main loop's read fails: sess.Close, which disconnects from the      *)
(* daemon without ending it, and wait for the reader.                      *)
MainCloses ==
    /\ main = "reading" /\ client # "absent" /\ (nudged \/ browser = "closed")
    /\ main' = "closing" /\ sessDone' = TRUE /\ client' = "gone" /\ queue' = <<>> /\ replay' = <<>>
    /\ lost' = TRUE
    /\ UNCHANGED <<gated, shellVars, from, replayBuf, liveBuf, replaySeen, boundaryEmitted,
                   readerVars, channelVars, coalVars, browser, nudged>>

MainEnds ==
    /\ main = "closing" /\ reader.pc = "done" /\ main' = "ended"
    /\ UNCHANGED <<gated, lost, shellVars, daemonVars, sessVars, readerVars, channelVars, coalVars,
                   browser, nudged>>

-----------------------------------------------------------------------------
Daemon == PumpRead \/ Broadcast \/ AddClient \/ TakeSnapshot \/ QueueReplay
Session == ReadFrame \/ SignalDone
Reader == ReadFramed \/ ReadFramedWoken \/ ReadFlat \/ SubmitControl \/ ControlAcked
          \/ Submit \/ ReaderCloses \/ ReaderDone
Coalescer == Drain \/ ProcessControl \/ NoControl \/ SelectChunk \/ SelectTimer \/ Finish \/ Discard
Main == MainCloses \/ MainEnds

TerminalNext == Daemon \/ Shutdown \/ Session \/ Reader \/ Coalescer \/ BrowserCloses \/ Main

(* Every goroutine that can take a step takes it; the shell, the user and  *)
(* the end of the session are not bound to act.                            *)
TerminalFairness ==
    /\ WF_terminalVars(Broadcast) /\ WF_terminalVars(TakeSnapshot \/ QueueReplay)
    /\ WF_terminalVars(Session) /\ WF_terminalVars(Reader)
    /\ WF_terminalVars(Coalescer) /\ WF_terminalVars(Main)

TerminalSpec == TerminalInit /\ [][TerminalNext]_terminalVars /\ TerminalFairness

-----------------------------------------------------------------------------
(***************************************************************************)
(* The scrollback is the last RingSize bytes printed, and any tail of it   *)
(* the last bytes of those, after writes of every size.                    *)
(***************************************************************************)
RingKeepsTail ==
    LET kept == IF printed < RingSize THEN printed ELSE RingSize
    IN  \A k \in 0..RingSize :
          LET m == IF k < kept THEN k ELSE kept
          IN  SnapshotTail(ring, k) = [i \in 1..m |-> printed - m + i]

Bytes(items) == {items[i].b : i \in DOMAIN items}
FrameBytes == UNION {Range(queue[i].bytes) : i \in DOMAIN queue}

InPipeline ==
    Range(replay) \cup FrameBytes \cup Range(replayBuf) \cup Range(liveBuf) \cup Range(reader.bytes)
      \cup (UNION {Bytes(chunks[i]) : i \in DOMAIN chunks}) \cup Bytes(buffered) \cup Bytes(feed)

(***************************************************************************)
(* A viewer that nothing was discarded for misses no byte: each one since  *)
(* the start of its replay is on its way or shown, although the pump, the  *)
(* snapshot and the broadcast run concurrently.                            *)
(***************************************************************************)
NoGap ==
    client \in {"snapped", "attached"} /\ ~lost
      => from..(printed - Len(unsent)) \subseteq InPipeline

(***************************************************************************)
(* Every buffer of the path within its limit and no byte missing.          *)
(***************************************************************************)
PathInv == TerminalTypeOK /\ NoGap

(***************************************************************************)
(* The path implements TerminalFeed: live output in order and never twice, *)
(* replay unbroken, through every buffer, drop and shutdown.               *)
(***************************************************************************)
Viewer == INSTANCE TerminalFeed WITH printed <- printed, feed <- feed
FeedKept == Viewer!FeedSpec

(***************************************************************************)
(* Without framing the bridge always ends once the browser is gone or the  *)
(* session is over: no goroutine stays behind, blocked on a channel.       *)
(***************************************************************************)
FlatBridgeEnds == (browser = "closed" \/ sessDone) /\ client # "absent" /\ ~gated ~> main = "ended"

(***************************************************************************)
(* Without framing and while the browser stays, everything printed before  *)
(* the path falls quiet is shown, the last bytes included.                 *)
(***************************************************************************)
FlatOutputShown == []<>(gated \/ lost \/ InPipeline \subseteq Bytes(feed))

(***************************************************************************)
(* A bridge without framing delivers what it takes in, and ends.           *)
(***************************************************************************)
FlatBridgeDelivers == FlatBridgeEnds /\ FlatOutputShown

(***************************************************************************)
(* A write failure ends the bridge, framed or not, as the coalescer's      *)
(* write-failure test expects of the coalescer.                            *)
(***************************************************************************)
BridgeEnds == browser = "closed" /\ client # "absent" ~> main = "ended"

(***************************************************************************)
(* The order ReadFramed documents, as the browser sees it: no replay byte  *)
(* after live output has begun.                                            *)
(***************************************************************************)
ReplayFirst ==
    gated => \A i, j \in DOMAIN feed :
               feed[i].k \in {"live", "end"} /\ feed[j].k \in {"replay", "start"} => j < i

=============================================================================
