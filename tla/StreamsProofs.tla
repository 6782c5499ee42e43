---------------------------- MODULE StreamsProofs ----------------------------
(***************************************************************************)
(* Proofs about what flows between two processes: the terminal output path *)
(* from the shell to the browser, and the streams between two peers.       *)
(*                                                                         *)
(* TInv is what the promises of the path rest on.  Its stages are where    *)
(* the bytes of one kind (live or replay) can be: shown, buffered by the   *)
(* coalescer, in its channel, in the reader's hands, in the session's      *)
(* buffer, in the queue and at their source in the daemon.  For each kind  *)
(* the stages form a chain: every byte further down was printed before     *)
(* every byte further up, and each stage is in order (StageInv), so that   *)
(* whoever moves the oldest bytes of one stage to the end of the next      *)
(* keeps the order.  Chunks of live output are increasing, snapshots are a *)
(* stretch without a gap (SeqInv); there is one replay, queued while       *)
(* nothing of it has arrived, and all of it that is left is one stretch    *)
(* (OneReplay).  Unless something was discarded on purpose, the two chains *)
(* together hold every byte since the snapshot (Gapless).  RingHolds says  *)
(* which byte each cell of the ring holds.                                 *)
(*                                                                         *)
(* PInv does it for the streams between peers.  SetupInv: the token is     *)
(* claimed for nobody but Expected, and from Register on it is pending or  *)
(* expired, so that no later claim of Expected waits.  FlowInv: while the  *)
(* connection is not broken, every chunk sent is stored or on the wire,    *)
(* the wire is chunks and then at most an end, and an eof that the host    *)
(* has still to read stands behind exactly the chunks that the file lacks. *)
(***************************************************************************)
EXTENDS TerminalPath, PeerStreams, SequenceTheorems, FiniteSetTheorems, TLAPS

-----------------------------------------------------------------------------
(* TerminalPath. *)

\* The kinds of output, the bytes of the shell, and what the coalescer is fed.
Kinds == {"live", "replay"}
Byte == 1..MaxPrinted
Item == [k : Kinds, b : Byte] \cup [k : {"start", "end"}, b : {0}]

\* The bytes of one kind in a run of items, or in a frame.
Of(items, K) == {items[i].b : i \in {j \in DOMAIN items : items[j].k = K}}
FrameOf(f, K) == IF f.k = K THEN Range(f.bytes) ELSE {}

\* Where the bytes of one kind are, from the browser back to the shell.
ChunksOf(cs, K) == UNION {Of(cs[i], K) : i \in DOMAIN cs}
QueueOf(q, K) == UNION {FrameOf(q[i], K) : i \in DOMAIN q}
ReaderOf(K) == IF reader.k = K THEN Range(reader.bytes) ELSE {}
BufOf(K) == IF K = "live" THEN Range(liveBuf) ELSE Range(replayBuf)
SourceOf(K) == IF K = "live" THEN Range(unsent) ELSE Range(replay)
Stages(K) == <<Of(feed, K), Of(buffered, K), ChunksOf(chunks, K), ReaderOf(K), BufOf(K),
               QueueOf(queue, K), SourceOf(K)>>

Below(S, U) == \A x \in S, y \in U : x < y
Chain(t) == \A i, j \in 1..7 : i < j => Below(t[i], t[j])
Whole(t) == UNION {t[i] : i \in 1..7}
Downstream(t) == UNION {t[i] : i \in 1..5}
Convex(S) == \A x, z \in S : x..z \subseteq S

\* Increasing sequences of bytes, and of items as far as one kind goes.
Up(s) == \A i, j \in DOMAIN s : i < j => s[i] < s[j]
Sorted(items, K) ==
    \A i, j \in DOMAIN items : i < j /\ items[i].k = K /\ items[j].k = K => items[i].b < items[j].b

\* A stretch of what the shell printed, and the one that ends with its last byte.
Stretch(s) == \A i \in DOMAIN s : s[i] = s[1] + i - 1
LastPrinted(s) == \A i \in DOMAIN s : s[i] = printed - Len(s) + i

DataTypes ==
    /\ unsent \in Seq(Byte) /\ replay \in Seq(Byte) /\ from \in Int
    /\ queue \in Seq(Frames) /\ replayBuf \in Seq(Byte) /\ liveBuf \in Seq(Byte)
    /\ reader \in [pc : {"call", "wait", "submit", "control", "ack", "close", "flush", "done"},
                   k : Kinds, bytes : Seq(Byte), eof : BOOLEAN]
    /\ chunks \in Seq(Seq(Item)) /\ buffered \in Seq(Item) /\ feed \in Seq(Item)

\* The ring in terms of its head: d bytes before the last one written.
RingAt(h, d) == IF d < h THEN h - 1 - d ELSE h - 1 - d + RingSize
RingHolds(r, p) ==
    /\ r.head \in 0..(RingSize - 1)
    /\ r.size = (IF p < RingSize THEN p ELSE RingSize)
    /\ r.tail = (IF p < RingSize THEN 0 ELSE r.head)
    /\ p < RingSize => r.head = p
    /\ DOMAIN r.buf = 0..(RingSize - 1)
    /\ \A d \in 0..(r.size - 1) : r.buf[RingAt(r.head, d)] = p - d
RingInv == RingHolds(ring, printed)

StageInv(K) ==
    /\ Chain(Stages(K)) /\ Whole(Stages(K)) \subseteq 1..printed
    /\ Sorted(feed, K) /\ Sorted(buffered, K)
    /\ \A i \in DOMAIN chunks : Sorted(chunks[i], K)
    /\ \A i, j \in DOMAIN chunks : i < j => Below(Of(chunks[i], K), Of(chunks[j], K))
    /\ \A i, j \in DOMAIN queue : i < j => Below(FrameOf(queue[i], K), FrameOf(queue[j], K))

SeqInv ==
    /\ LastPrinted(unsent) /\ Stretch(replay)
    /\ \A i \in DOMAIN queue : Up(queue[i].bytes)
    /\ \A i \in DOMAIN queue : queue[i].k = "replay" =>
         Stretch(queue[i].bytes) /\ queue[i].bytes # <<>>
    /\ Up(replayBuf) /\ Up(liveBuf) /\ Up(reader.bytes)

\* There is one replay, and while it is above the session nothing of it is below.
OneReplay ==
    /\ client # "snapped" => replay = <<>>
    /\ client \in {"absent", "added", "snapped"} => QueueOf(queue, "replay") = {}
    /\ client \in {"absent", "added", "snapped"} \/ QueueOf(queue, "replay") # {}
         => Downstream(Stages("replay")) = {}
    /\ \A i, j \in DOMAIN queue : queue[i].k = "replay" /\ queue[j].k = "replay" => i = j
    /\ browser = "open" => Convex(Whole(Stages("replay")))

Control ==
    /\ reader.pc \in {"call", "wait", "close", "flush", "done"} \/ reader.eof => reader.bytes = <<>>
    /\ coalescer = "discard" => writeFailed
    /\ writeFailed => browser = "closed" /\ lost

Gapless ==
    client \in {"snapped", "attached"} /\ ~lost
      => from..printed \subseteq Whole(Stages("live")) \cup Whole(Stages("replay"))

Flow == SeqInv /\ (\A K \in Kinds : StageInv(K)) /\ OneReplay /\ Gapless

TInv == TerminalTypeOK /\ DataTypes /\ RingInv /\ Flow /\ Control
-----------------------------------------------------------------------------
\* % of a number below twice the modulus, without %.
LEMMA SmallMod ==
  ASSUME NEW n \in Nat \ {0}, NEW x \in 0..(2 * n - 1)
  PROVE  x % n = IF x < n THEN x ELSE x - n
  OBVIOUS

\* The whole frames of a buffer are a prefix of it, and what is left is less
\* than a frame.
LEMMA DivPart ==
  ASSUME NEW a \in Nat, NEW m \in Nat \ {0}
  PROVE  (a \div m) * m \in 0..a /\ a - (a \div m) * m < m
  OBVIOUS

\* An item of output carries a byte of the shell; a control does not.
LEMMA ItemByte ==
  ASSUME NEW x \in Item, NEW K \in Kinds, x.k = K
  PROVE  x.b \in Byte
  BY DEF Item, Kinds

\* Membership in Of, in terms of positions.
LEMMA InOf ==
  ASSUME NEW s, NEW K
  PROVE  \A x : x \in Of(s, K) <=> \E i \in DOMAIN s : s[i].k = K /\ s[i].b = x
  BY DEF Of

\* Of and Sorted of two runs of items joined.
LEMMA OfConcat ==
  ASSUME NEW s \in Seq(Item), NEW u \in Seq(Item), NEW K \in Kinds
  PROVE  /\ s \o u \in Seq(Item)
         /\ Of(s \o u, K) = Of(s, K) \cup Of(u, K)
         /\ Sorted(s, K) /\ Sorted(u, K) /\ Below(Of(s, K), Of(u, K)) => Sorted(s \o u, K)
<1> DEFINE w == s \o u
<1>1. /\ w \in Seq(Item) /\ Len(w) = Len(s) + Len(u)
      /\ \A i \in 1..Len(s) : w[i] = s[i]
      /\ \A i \in 1..Len(u) : w[Len(s) + i] = u[i]
  OBVIOUS
<1>2. DOMAIN w = 1..Len(w) /\ DOMAIN s = 1..Len(s) /\ DOMAIN u = 1..Len(u)
  BY <1>1
<1> HIDE DEF w
<1>3. Len(s) \in Nat /\ Len(u) \in Nat
  OBVIOUS
<1>4. ASSUME NEW i \in DOMAIN w
      PROVE  \/ i \in DOMAIN s /\ w[i] = s[i]
             \/ i - Len(s) \in DOMAIN u /\ i > Len(s) /\ w[i] = u[i - Len(s)]
  <2>1. CASE i <= Len(s)
    BY <1>1, <1>2, <1>4, <1>3, <2>1
  <2>2. CASE i > Len(s)
    <3>1. i - Len(s) \in 1..Len(u) /\ Len(s) + (i - Len(s)) = i
      BY <1>1, <1>2, <1>4, <1>3, <2>2
    <3> QED  BY <1>1, <1>2, <2>2, <3>1
  <2> QED  BY <1>1, <1>2, <1>4, <1>3, <2>1, <2>2
<1>5. \A i \in DOMAIN s : i \in DOMAIN w /\ w[i] = s[i]
  BY <1>1, <1>2, <1>3
<1>6. \A i \in DOMAIN u : Len(s) + i \in DOMAIN w /\ w[Len(s) + i] = u[i]
  BY <1>1, <1>2, <1>3
<1>7. Of(w, K) = Of(s, K) \cup Of(u, K)
  <2>1. \A x \in Of(w, K) : x \in Of(s, K) \cup Of(u, K)
    BY <1>4, InOf
  <2>2. \A x \in Of(s, K) : x \in Of(w, K)
    BY <1>5, InOf
  <2>3. \A x \in Of(u, K) : x \in Of(w, K)
    BY <1>6, InOf
  <2> QED  BY <2>1, <2>2, <2>3
<1>8. ASSUME Sorted(s, K), Sorted(u, K), Below(Of(s, K), Of(u, K)),
             NEW i \in DOMAIN w, NEW j \in DOMAIN w, i < j, w[i].k = K, w[j].k = K
      PROVE  w[i].b < w[j].b
  <2>1. CASE i <= Len(s) /\ j <= Len(s)
    BY <1>1, <1>2, <1>8, <2>1 DEF Sorted
  <2>2. CASE i > Len(s) /\ j > Len(s)
    <3>1. w[i] = u[i - Len(s)] /\ w[j] = u[j - Len(s)]
      BY <1>2, <1>4, <1>8, <1>3, <2>2
    <3>2. i - Len(s) \in DOMAIN u /\ j - Len(s) \in DOMAIN u /\ i - Len(s) < j - Len(s)
      BY <1>1, <1>2, <1>8, <1>3, <2>2
    <3> QED  BY <3>1, <3>2, <1>8 DEF Sorted
  <2>3. CASE i <= Len(s) /\ j > Len(s)
    <3>1. w[i].b \in Of(s, K) /\ w[j].b \in Of(u, K)
      BY <1>1, <1>2, <1>4, <1>8, <2>3 DEF Of
    <3> QED  BY <3>1, <1>8 DEF Below
  <2> QED  BY <1>1, <1>2, <1>8, <2>1, <2>2, <2>3
<1> QED  BY <1>1, <1>7, <1>8 DEF Sorted, w

\* Of and Sorted of a run of items cut in two.
LEMMA OfSplit ==
  ASSUME NEW s \in Seq(Item), NEW n \in 0..Len(s), NEW K \in Kinds
  PROVE  /\ SubSeq(s, 1, n) \in Seq(Item) /\ SubSeq(s, n + 1, Len(s)) \in Seq(Item)
         /\ Of(SubSeq(s, 1, n), K) \cup Of(SubSeq(s, n + 1, Len(s)), K) = Of(s, K)
         /\ Sorted(s, K) => /\ Sorted(SubSeq(s, 1, n), K) /\ Sorted(SubSeq(s, n + 1, Len(s)), K)
                            /\ Below(Of(SubSeq(s, 1, n), K), Of(SubSeq(s, n + 1, Len(s)), K))
<1> DEFINE a == SubSeq(s, 1, n)
           c == SubSeq(s, n + 1, Len(s))
<1>1. /\ a \in Seq(Item) /\ Len(a) = n /\ DOMAIN a = 1..n
      /\ \A i \in 1..n : a[i] = s[i]
  OBVIOUS
<1>2. /\ c \in Seq(Item) /\ Len(c) = Len(s) - n /\ DOMAIN c = 1..(Len(s) - n)
      /\ \A i \in 1..(Len(s) - n) : c[i] = s[n + i]
  OBVIOUS
<1>3. DOMAIN s = 1..Len(s) /\ Len(s) \in Nat
  OBVIOUS
<1> HIDE DEF a, c
<1>4. ASSUME NEW i \in DOMAIN s
      PROVE  \/ i \in DOMAIN a /\ s[i] = a[i]
             \/ i - n \in DOMAIN c /\ s[i] = c[i - n]
  <2>1. CASE i <= n
    BY <1>1, <1>4, <1>3, <2>1
  <2>2. CASE i > n
    <3>1. i - n \in 1..(Len(s) - n) /\ n + (i - n) = i
      BY <1>4, <1>3, <2>2
    <3> QED  BY <1>2, <3>1
  <2> QED  BY <1>4, <1>3, <2>1, <2>2
<1>5. \A i \in DOMAIN a : i \in DOMAIN s /\ a[i] = s[i] /\ i <= n
  BY <1>1, <1>3
<1>6. \A i \in DOMAIN c : n + i \in DOMAIN s /\ c[i] = s[n + i] /\ n + i > n
  BY <1>2, <1>3
<1>7. Of(a, K) \cup Of(c, K) = Of(s, K)
  <2>1. \A x \in Of(s, K) : x \in Of(a, K) \cup Of(c, K)
    BY <1>4, InOf
  <2>2. \A x \in Of(a, K) : x \in Of(s, K)
    BY <1>5, InOf
  <2>3. \A x \in Of(c, K) : x \in Of(s, K)
    BY <1>6, InOf
  <2> QED  BY <2>1, <2>2, <2>3
<1>8. ASSUME Sorted(s, K)
      PROVE  Sorted(a, K) /\ Sorted(c, K) /\ Below(Of(a, K), Of(c, K))
  <2>1. Sorted(a, K)
    BY <1>1, <1>3, <1>8 DEF Sorted
  <2>2. Sorted(c, K)
    <3> SUFFICES ASSUME NEW i \in DOMAIN c, NEW j \in DOMAIN c, i < j, c[i].k = K, c[j].k = K
                 PROVE  c[i].b < c[j].b
      BY DEF Sorted
    <3>1. n + i \in DOMAIN s /\ n + j \in DOMAIN s /\ n + i < n + j
      BY <1>6, <1>2, <1>3
    <3> QED  BY <1>6, <1>8, <3>1 DEF Sorted
  <2>3. Below(Of(a, K), Of(c, K))
    <3> SUFFICES ASSUME NEW x \in Of(a, K), NEW y \in Of(c, K)
                 PROVE  x < y
      BY DEF Below
    <3>1. PICK i \in DOMAIN a : a[i].k = K /\ a[i].b = x
      BY InOf
    <3>2. PICK j \in DOMAIN c : c[j].k = K /\ c[j].b = y
      BY InOf
    <3>3. i \in DOMAIN s /\ n + j \in DOMAIN s /\ i < n + j
      BY <1>5, <1>6, <1>1, <1>2
    <3> QED  BY <1>5, <1>6, <1>8, <3>1, <3>2, <3>3 DEF Sorted
  <2> QED  BY <2>1, <2>2, <2>3
<1> QED  BY <1>1, <1>2, <1>7, <1>8 DEF a, c

\* Submit labels the bytes it passes on: their set and their order stay.
LEMMA OfLift ==
  ASSUME NEW s \in Seq(Byte), NEW k \in Kinds, NEW K \in Kinds
  PROVE  LET items == [i \in 1..Len(s) |-> [k |-> k, b |-> s[i]]]
         IN  /\ items \in Seq(Item)
             /\ Of(items, K) = IF k = K THEN Range(s) ELSE {}
             /\ Up(s) => Sorted(items, K)
<1> DEFINE items == [i \in 1..Len(s) |-> [k |-> k, b |-> s[i]]]
<1>1. \A i \in 1..Len(s) : s[i] \in Byte
  OBVIOUS
<1>2. \A i \in 1..Len(s) : [k |-> k, b |-> s[i]] \in Item
  BY <1>1 DEF Item
<1>3. items \in Seq(Item)
  BY <1>2, IsASeq
<1>4. DOMAIN items = DOMAIN s /\ \A i \in DOMAIN s : items[i].k = k /\ items[i].b = s[i]
  OBVIOUS
<1> HIDE DEF items
<1>5. Of(items, K) = IF k = K THEN Range(s) ELSE {}
  BY <1>4 DEF Of, Range
<1>6. Up(s) => Sorted(items, K)
  BY <1>4 DEF Up, Sorted
<1> QED  BY <1>3, <1>5, <1>6 DEF items
-----------------------------------------------------------------------------
\* Membership in Range, in terms of positions.
LEMMA InRange ==
  ASSUME NEW s
  PROVE  \A x : x \in Range(s) <=> \E i \in DOMAIN s : s[i] = x
  BY DEF Range

\* The bytes are numbers.
LEMMA ByteNat == Byte \subseteq Nat
  BY TerminalAssumption DEF Byte

\* A sequence of bytes cut in two keeps its bytes, its order and its
\* stretch.
LEMMA ByteSplit ==
  ASSUME NEW s \in Seq(Byte), NEW n \in 0..Len(s)
  PROVE  LET a == SubSeq(s, 1, n)
             c == SubSeq(s, n + 1, Len(s))
         IN  /\ a \in Seq(Byte) /\ c \in Seq(Byte) /\ Len(a) = n /\ Len(c) = Len(s) - n
             /\ Range(a) \cup Range(c) = Range(s)
             /\ Up(s) => Up(a) /\ Up(c) /\ Below(Range(a), Range(c))
             /\ Stretch(s) => Stretch(c)
<1> DEFINE a == SubSeq(s, 1, n)
           c == SubSeq(s, n + 1, Len(s))
<1>1. /\ a \in Seq(Byte) /\ Len(a) = n /\ DOMAIN a = 1..n
      /\ \A i \in 1..n : a[i] = s[i]
  OBVIOUS
<1>2. /\ c \in Seq(Byte) /\ Len(c) = Len(s) - n /\ DOMAIN c = 1..(Len(s) - n)
      /\ \A i \in 1..(Len(s) - n) : c[i] = s[n + i]
  OBVIOUS
<1>3. \A i \in DOMAIN s : s[i] \in Byte
  OBVIOUS
<1>4. DOMAIN s = 1..Len(s) /\ Len(s) \in Nat
  OBVIOUS
<1>5. \A i \in DOMAIN s : s[i] \in Nat
  BY <1>3, ByteNat, Zenon
<1> HIDE DEF a, c
<1>6. ASSUME NEW i \in DOMAIN s
      PROVE  \/ i \in DOMAIN a /\ s[i] = a[i]
             \/ i - n \in DOMAIN c /\ s[i] = c[i - n]
  <2>1. CASE i <= n
    BY <1>1, <1>4, <1>6, <2>1
  <2>2. CASE i > n
    <3>1. i - n \in 1..(Len(s) - n) /\ n + (i - n) = i
      BY <1>4, <1>6, <2>2
    <3> QED  BY <1>2, <3>1
  <2> QED  BY <1>4, <1>6, <2>1, <2>2
<1>7. \A i \in DOMAIN a : i \in DOMAIN s /\ a[i] = s[i] /\ i <= n
  BY <1>1, <1>4
<1>8. \A i \in DOMAIN c : n + i \in DOMAIN s /\ c[i] = s[n + i] /\ n + i > n
  BY <1>2, <1>4
<1>9. Range(a) \cup Range(c) = Range(s)
  <2>1. \A x \in Range(s) : x \in Range(a) \cup Range(c)
    BY <1>6, InRange
  <2>2. \A x \in Range(a) : x \in Range(s)
    BY <1>7, InRange
  <2>3. \A x \in Range(c) : x \in Range(s)
    BY <1>8, InRange
  <2> QED  BY <2>1, <2>2, <2>3
<1>10. ASSUME Up(s)  PROVE Up(a) /\ Up(c) /\ Below(Range(a), Range(c))
  <2>1. Up(a)
    BY <1>1, <1>4, <1>10 DEF Up
  <2>2. Up(c)
    <3> SUFFICES ASSUME NEW i \in DOMAIN c, NEW j \in DOMAIN c, i < j
                 PROVE  c[i] < c[j]
      BY DEF Up
    <3>1. n + i \in DOMAIN s /\ n + j \in DOMAIN s /\ n + i < n + j
      BY <1>8, <1>2, <1>4
    <3> QED  BY <1>8, <1>10, <3>1 DEF Up
  <2>3. Below(Range(a), Range(c))
    <3> SUFFICES ASSUME NEW x \in Range(a), NEW y \in Range(c)
                 PROVE  x < y
      BY DEF Below
    <3>1. PICK i \in DOMAIN a : a[i] = x
      BY InRange
    <3>2. PICK j \in DOMAIN c : c[j] = y
      BY InRange
    <3>3. i \in DOMAIN s /\ n + j \in DOMAIN s /\ i < n + j
      BY <1>7, <1>8, <1>1, <1>2
    <3> QED  BY <1>7, <1>8, <1>10, <3>1, <3>2, <3>3 DEF Up
  <2> QED  BY <2>1, <2>2, <2>3
<1>11. ASSUME Stretch(s)  PROVE Stretch(c)
  <2> SUFFICES ASSUME NEW i \in DOMAIN c  PROVE c[i] = c[1] + i - 1
    BY DEF Stretch
  <2>1. i \in Nat /\ 1 \in DOMAIN c /\ n + i \in DOMAIN s /\ n + 1 \in DOMAIN s /\ 1 \in DOMAIN s
    BY <1>2, <1>4
  <2>2. c[i] = s[n + i] /\ c[1] = s[n + 1]
    BY <1>8, <2>1
  <2>3. s[n + i] = s[1] + (n + i) - 1 /\ s[n + 1] = s[1] + (n + 1) - 1
    BY <1>11, <2>1 DEF Stretch
  <2>4. s[1] \in Nat
    BY <1>4, <1>5, <2>1
  <2>5. s[1] + (n + i) - 1 = (s[1] + (n + 1) - 1) + i - 1
    BY <2>1, <2>4
  <2> QED  BY <2>2, <2>3, <2>5
<1> QED  BY <1>1, <1>2, <1>9, <1>10, <1>11 DEF a, c

\* Two sequences of bytes joined.
LEMMA ByteConcat ==
  ASSUME NEW s \in Seq(Byte), NEW u \in Seq(Byte)
  PROVE  /\ s \o u \in Seq(Byte) /\ Len(s \o u) = Len(s) + Len(u)
         /\ Range(s \o u) = Range(s) \cup Range(u)
         /\ Up(s) /\ Up(u) /\ Below(Range(s), Range(u)) => Up(s \o u)
<1> DEFINE w == s \o u
<1>1. /\ w \in Seq(Byte) /\ Len(w) = Len(s) + Len(u)
      /\ \A i \in 1..Len(s) : w[i] = s[i]
      /\ \A i \in 1..Len(u) : w[Len(s) + i] = u[i]
  OBVIOUS
<1>2. DOMAIN w = 1..Len(w) /\ DOMAIN s = 1..Len(s) /\ DOMAIN u = 1..Len(u)
  BY <1>1
<1>3. Len(s) \in Nat /\ Len(u) \in Nat
  OBVIOUS
<1> HIDE DEF w
<1>4. ASSUME NEW i \in DOMAIN w
      PROVE  \/ i \in DOMAIN s /\ w[i] = s[i]
             \/ i - Len(s) \in DOMAIN u /\ i > Len(s) /\ w[i] = u[i - Len(s)]
  <2>1. CASE i <= Len(s)
    BY <1>1, <1>2, <1>3, <1>4, <2>1
  <2>2. CASE i > Len(s)
    <3>1. i - Len(s) \in 1..Len(u) /\ Len(s) + (i - Len(s)) = i
      BY <1>1, <1>2, <1>3, <1>4, <2>2
    <3> QED  BY <1>1, <1>2, <2>2, <3>1
  <2> QED  BY <1>1, <1>2, <1>3, <1>4, <2>1, <2>2
<1>5. \A i \in DOMAIN s : i \in DOMAIN w /\ w[i] = s[i]
  BY <1>1, <1>2, <1>3
<1>6. \A i \in DOMAIN u : Len(s) + i \in DOMAIN w /\ w[Len(s) + i] = u[i]
  BY <1>1, <1>2, <1>3
<1>7. Range(w) = Range(s) \cup Range(u)
  <2>1. \A x \in Range(w) : x \in Range(s) \cup Range(u)
    BY <1>4, InRange
  <2>2. \A x \in Range(s) : x \in Range(w)
    BY <1>5, InRange
  <2>3. \A x \in Range(u) : x \in Range(w)
    BY <1>6, InRange
  <2> QED  BY <2>1, <2>2, <2>3
<1>8. ASSUME Up(s), Up(u), Below(Range(s), Range(u)), NEW i \in DOMAIN w, NEW j \in DOMAIN w, i < j
      PROVE  w[i] < w[j]
  <2>1. CASE i <= Len(s) /\ j <= Len(s)
    BY <1>1, <1>2, <1>8, <2>1 DEF Up
  <2>2. CASE i > Len(s) /\ j > Len(s)
    <3>1. w[i] = u[i - Len(s)] /\ w[j] = u[j - Len(s)]
      BY <1>2, <1>4, <1>8, <1>3, <2>2
    <3>2. i - Len(s) \in DOMAIN u /\ j - Len(s) \in DOMAIN u /\ i - Len(s) < j - Len(s)
      BY <1>1, <1>2, <1>8, <1>3, <2>2
    <3> QED  BY <3>1, <3>2, <1>8 DEF Up
  <2>3. CASE i <= Len(s) /\ j > Len(s)
    <3>1. w[i] \in Range(s) /\ w[j] \in Range(u)
      BY <1>1, <1>2, <1>3, <1>4, <1>8, <2>3, InRange
    <3> QED  BY <3>1, <1>8 DEF Below
  <2> QED  BY <1>1, <1>2, <1>3, <1>8, <2>1, <2>2, <2>3
<1> QED  BY <1>1, <1>7, <1>8 DEF Up, w

\* Read and ReadFramed take a prefix and leave the rest.
LEMMA TakeFirst ==
  ASSUME NEW s \in Seq(Byte)
  PROVE  /\ FirstOf(s) \in Seq(Byte) /\ RestOf(s) \in Seq(Byte) /\ Len(RestOf(s)) <= Len(s)
         /\ Range(FirstOf(s)) \cup Range(RestOf(s)) = Range(s)
         /\ Up(s) => Up(FirstOf(s)) /\ Up(RestOf(s)) /\ Below(Range(FirstOf(s)), Range(RestOf(s)))
<1>1. ReadSize \in Nat \ {0}
  BY TerminalAssumption
<1>2. CASE Len(s) < ReadSize
  <2>1. FirstOf(s) = s /\ RestOf(s) = <<>>
    BY <1>1, <1>2 DEF FirstOf, RestOf
  <2>2. Range(<<>>) = {}
    BY DEF Range
  <2> QED  BY <2>1, <2>2 DEF Up, Below
<1>3. CASE Len(s) >= ReadSize
  <2>1. FirstOf(s) = SubSeq(s, 1, ReadSize) /\ RestOf(s) = SubSeq(s, ReadSize + 1, Len(s))
    BY <1>1, <1>3 DEF FirstOf, RestOf
  <2>2. ReadSize \in 0..Len(s)
    BY <1>1, <1>3
  <2> QED  BY <1>1, <2>1, <2>2, ByteSplit
<1> QED  BY <1>1, <1>2, <1>3

\* appendReplay and appendLive.
LEMMA BoundedFacts ==
  ASSUME NEW s \in Seq(Byte), NEW u \in Seq(Byte), Len(s) <= BufferCap
  PROVE  /\ Bounded(s, u) \in Seq(Byte) /\ Len(Bounded(s, u)) <= BufferCap
         /\ Range(Bounded(s, u)) \subseteq Range(s) \cup Range(u)
         /\ Len(s) + Len(u) <= BufferCap => Range(Bounded(s, u)) = Range(s) \cup Range(u)
         /\ Up(s) /\ Up(u) /\ Below(Range(s), Range(u)) => Up(Bounded(s, u))
         /\ s = <<>> /\ Stretch(u) => Stretch(Bounded(s, u))
<1>1. BufferCap \in Nat \ {0} /\ Len(s) \in Nat /\ Len(u) \in Nat
  BY TerminalAssumption
<1>2. CASE Len(s) + Len(u) <= BufferCap
  <2>1. Bounded(s, u) = s \o u
    BY <1>2 DEF Bounded
  <2>2. s = <<>> => s \o u = u
    OBVIOUS
  <2> QED  BY <1>2, <2>1, <2>2, ByteConcat
<1>3. CASE ~(Len(s) + Len(u) <= BufferCap)
  <2> DEFINE n == IF Len(u) > BufferCap THEN Len(u) - BufferCap ELSE 0
  <2>1. n \in 0..Len(u) /\ Len(u) - n <= BufferCap
    BY <1>1
  <2>2. Bounded(s, u) = SubSeq(u, n + 1, Len(u))
    BY <1>1, <1>3 DEF Bounded
  <2> HIDE DEF n
  <2> QED  BY <1>1, <1>3, <2>1, <2>2, ByteSplit
<1> QED  BY <1>2, <1>3
-----------------------------------------------------------------------------
\* What one stage takes from the next keeps the chain, and so does what is lost.
LEMMA ChainMove ==
  ASSUME NEW t, NEW u, Chain(t), NEW n \in 1..6,
         \A i \in 1..7 : i # n => u[i] \subseteq t[i],
         u[n] \subseteq t[n] \cup t[n + 1], Below(u[n], u[n + 1])
  PROVE  Chain(u)
<1> SUFFICES ASSUME NEW i \in 1..7, NEW j \in 1..7, i < j, NEW x \in u[i], NEW y \in u[j]
             PROVE  x < y
  BY DEF Chain, Below
<1>1. CASE i # n /\ j # n
  BY <1>1 DEF Chain, Below
<1>2. CASE j = n
  <2>1. x \in t[i] /\ (y \in t[n] \/ y \in t[n + 1]) /\ n + 1 \in 1..7 /\ i < n + 1
    BY <1>2
  <2> QED  BY <1>2, <2>1 DEF Chain, Below
<1>3. CASE i = n /\ j = n + 1
  BY <1>3 DEF Below
<1>4. CASE i = n /\ j > n + 1
  <2>1. y \in t[j] /\ (x \in t[n] \/ x \in t[n + 1]) /\ n + 1 \in 1..7
    BY <1>4
  <2> QED  BY <1>4, <2>1 DEF Chain, Below
<1> QED  BY <1>1, <1>2, <1>3, <1>4

\* A chain that only loses bytes is a chain.
LEMMA ChainShrink ==
  ASSUME NEW t, NEW u, Chain(t), \A i \in 1..7 : u[i] \subseteq t[i]
  PROVE  Chain(u)
  BY DEF Chain, Below

\* A sequence of chunks with one more at the end.
LEMMA ChunksAppend ==
  ASSUME NEW cs \in Seq(Seq(Item)), NEW c \in Seq(Item), NEW K \in Kinds
  PROVE  /\ Append(cs, c) \in Seq(Seq(Item))
         /\ ChunksOf(Append(cs, c), K) = ChunksOf(cs, K) \cup Of(c, K)
         /\ DOMAIN Append(cs, c) = 1..(Len(cs) + 1)
         /\ \A i \in DOMAIN cs : Append(cs, c)[i] = cs[i] /\ Of(cs[i], K) \subseteq ChunksOf(cs, K)
         /\ Append(cs, c)[Len(cs) + 1] = c
<1>1. /\ Append(cs, c) \in Seq(Seq(Item)) /\ DOMAIN Append(cs, c) = 1..(Len(cs) + 1)
      /\ \A i \in 1..Len(cs) : Append(cs, c)[i] = cs[i]
      /\ Append(cs, c)[Len(cs) + 1] = c
      /\ DOMAIN cs = 1..Len(cs) /\ Len(cs) \in Nat
  OBVIOUS
<1> DEFINE d == Append(cs, c)
<1> HIDE DEF d
<1>2. ChunksOf(d, K) = ChunksOf(cs, K) \cup Of(c, K)
  <2>1. \A x : x \in ChunksOf(cs, K) <=> \E i \in DOMAIN cs : x \in Of(cs[i], K)
    BY DEF ChunksOf
  <2>2. \A x : x \in ChunksOf(d, K) <=> \E i \in DOMAIN d : x \in Of(d[i], K)
    BY DEF ChunksOf
  <2>3. \A i \in DOMAIN d : (i \in DOMAIN cs /\ d[i] = cs[i]) \/ d[i] = c
    BY <1>1 DEF d
  <2>4. \A i \in DOMAIN cs : i \in DOMAIN d /\ d[i] = cs[i]
    BY <1>1 DEF d
  <2>5. Len(cs) + 1 \in DOMAIN d /\ d[Len(cs) + 1] = c
    BY <1>1 DEF d
  <2>6. \A x : x \in ChunksOf(d, K) => x \in ChunksOf(cs, K) \cup Of(c, K)
    BY <2>1, <2>2, <2>3
  <2>7. \A x : x \in ChunksOf(cs, K) \cup Of(c, K) => x \in ChunksOf(d, K)
    BY <2>1, <2>2, <2>4, <2>5
  <2> QED  BY <2>6, <2>7
<1> QED  BY <1>1, <1>2 DEF d, ChunksOf

\* A sequence of chunks without its first.
LEMMA ChunksTail ==
  ASSUME NEW cs \in Seq(Seq(Item)), cs # <<>>, NEW K \in Kinds
  PROVE  /\ Tail(cs) \in Seq(Seq(Item)) /\ Head(cs) \in Seq(Item) /\ Head(cs) = cs[1]
         /\ ChunksOf(cs, K) = Of(Head(cs), K) \cup ChunksOf(Tail(cs), K)
         /\ Len(Tail(cs)) = Len(cs) - 1
         /\ 1 \in DOMAIN cs
         /\ \A i \in DOMAIN Tail(cs) : i + 1 \in DOMAIN cs /\ 1 < i + 1 /\ Tail(cs)[i] = cs[i + 1]
<1>1. /\ Tail(cs) \in Seq(Seq(Item)) /\ Head(cs) = cs[1] /\ Len(Tail(cs)) = Len(cs) - 1
      /\ DOMAIN cs = 1..Len(cs) /\ Len(cs) \in Nat \ {0} /\ DOMAIN Tail(cs) = 1..(Len(cs) - 1)
      /\ \A i \in 1..(Len(cs) - 1) : Tail(cs)[i] = cs[i + 1]
  OBVIOUS
<1>2. 1 \in DOMAIN cs /\ Head(cs) \in Seq(Item)
  BY <1>1
<1>3. \A i \in DOMAIN Tail(cs) : i + 1 \in DOMAIN cs /\ 1 < i + 1 /\ Tail(cs)[i] = cs[i + 1]
  BY <1>1
<1> DEFINE d == Tail(cs)
<1>4. ASSUME NEW i \in DOMAIN cs, i # 1  PROVE i - 1 \in DOMAIN d /\ cs[i] = d[i - 1]
  <2>1. i - 1 \in 1..(Len(cs) - 1) /\ (i - 1) + 1 = i
    BY <1>1, <1>4
  <2> QED  BY <1>1, <2>1
<1>5. ChunksOf(cs, K) = Of(cs[1], K) \cup ChunksOf(d, K)
  <2> HIDE DEF d
  <2>1. \A i \in DOMAIN d : i + 1 \in DOMAIN cs /\ d[i] = cs[i + 1]
    BY <1>3 DEF d
  <2>2. \A x : x \in ChunksOf(cs, K) <=> \E i \in DOMAIN cs : x \in Of(cs[i], K)
    BY DEF ChunksOf
  <2>3. \A x : x \in ChunksOf(d, K) <=> \E i \in DOMAIN d : x \in Of(d[i], K)
    BY DEF ChunksOf
  <2>4. \A x : x \in ChunksOf(cs, K) => x \in Of(cs[1], K) \cup ChunksOf(d, K)
    BY <1>4, <2>2, <2>3
  <2>5. \A x : x \in Of(cs[1], K) => x \in ChunksOf(cs, K)
    BY <1>2, <2>2
  <2>6. \A x : x \in ChunksOf(d, K) => x \in ChunksOf(cs, K)
    BY <2>1, <2>2, <2>3
  <2> QED  BY <2>4, <2>5, <2>6
<1> QED  BY <1>1, <1>2, <1>3, <1>5

\* A queue with one more frame at the end.
LEMMA QueueAppend ==
  ASSUME NEW q \in Seq(Frames), NEW f \in Frames, NEW K \in Kinds
  PROVE  /\ Append(q, f) \in Seq(Frames) /\ Len(Append(q, f)) = Len(q) + 1
         /\ QueueOf(Append(q, f), K) = QueueOf(q, K) \cup FrameOf(f, K)
         /\ DOMAIN Append(q, f) = 1..(Len(q) + 1)
         /\ \A i \in DOMAIN q : Append(q, f)[i] = q[i] /\ FrameOf(q[i], K) \subseteq QueueOf(q, K)
         /\ Append(q, f)[Len(q) + 1] = f
<1>1. /\ Append(q, f) \in Seq(Frames) /\ DOMAIN Append(q, f) = 1..(Len(q) + 1)
      /\ \A i \in 1..Len(q) : Append(q, f)[i] = q[i]
      /\ Append(q, f)[Len(q) + 1] = f
      /\ DOMAIN q = 1..Len(q) /\ Len(q) \in Nat
      /\ Len(Append(q, f)) = Len(q) + 1
  OBVIOUS
<1> DEFINE d == Append(q, f)
<1> HIDE DEF d
<1>2. QueueOf(d, K) = QueueOf(q, K) \cup FrameOf(f, K)
  BY <1>1 DEF QueueOf, d
<1> QED  BY <1>1, <1>2 DEF d, QueueOf

\* A queue without its first frame.
LEMMA QueueTail ==
  ASSUME NEW q \in Seq(Frames), q # <<>>, NEW K \in Kinds
  PROVE  /\ Tail(q) \in Seq(Frames) /\ Head(q) \in Frames /\ Head(q) = q[1]
         /\ QueueOf(q, K) = FrameOf(Head(q), K) \cup QueueOf(Tail(q), K)
         /\ Len(Tail(q)) = Len(q) - 1
         /\ 1 \in DOMAIN q
         /\ \A i \in DOMAIN Tail(q) : i + 1 \in DOMAIN q /\ 1 < i + 1 /\ Tail(q)[i] = q[i + 1]
<1>1. /\ Tail(q) \in Seq(Frames) /\ Head(q) = q[1] /\ Len(Tail(q)) = Len(q) - 1
      /\ DOMAIN q = 1..Len(q) /\ Len(q) \in Nat \ {0} /\ DOMAIN Tail(q) = 1..(Len(q) - 1)
      /\ \A i \in 1..(Len(q) - 1) : Tail(q)[i] = q[i + 1]
  OBVIOUS
<1>2. 1 \in DOMAIN q /\ Head(q) \in Frames
  BY <1>1
<1>3. \A i \in DOMAIN Tail(q) : i + 1 \in DOMAIN q /\ 1 < i + 1 /\ Tail(q)[i] = q[i + 1]
  BY <1>1
<1> DEFINE d == Tail(q)
<1>4. ASSUME NEW i \in DOMAIN q, i # 1  PROVE i - 1 \in DOMAIN d /\ q[i] = d[i - 1]
  <2>1. i - 1 \in 1..(Len(q) - 1) /\ (i - 1) + 1 = i
    BY <1>1, <1>4
  <2> QED  BY <1>1, <2>1
<1>5. QueueOf(q, K) = FrameOf(q[1], K) \cup QueueOf(d, K)
  <2> HIDE DEF d
  <2>1. \A i \in DOMAIN d : i + 1 \in DOMAIN q /\ d[i] = q[i + 1]
    BY <1>3 DEF d
  <2>2. \A x : x \in QueueOf(q, K) <=> \E i \in DOMAIN q : x \in FrameOf(q[i], K)
    BY DEF QueueOf
  <2>3. \A x : x \in QueueOf(d, K) <=> \E i \in DOMAIN d : x \in FrameOf(d[i], K)
    BY DEF QueueOf
  <2>4. \A x : x \in QueueOf(q, K) => x \in FrameOf(q[1], K) \cup QueueOf(d, K)
    BY <1>4, <2>2, <2>3
  <2>5. \A x : x \in FrameOf(q[1], K) => x \in QueueOf(q, K)
    BY <1>2, <2>2
  <2>6. \A x : x \in QueueOf(d, K) => x \in QueueOf(q, K)
    BY <2>1, <2>2, <2>3
  <2> QED  BY <2>4, <2>5, <2>6
<1> QED  BY <1>1, <1>2, <1>3, <1>5
-----------------------------------------------------------------------------
\* The components of a chain, its whole and what is below the queue.
LEMMA Tuple7 ==
  ASSUME NEW a, NEW b, NEW c, NEW d, NEW e, NEW f, NEW g, NEW t, t = <<a, b, c, d, e, f, g>>
  PROVE  /\ t[1] = a /\ t[2] = b /\ t[3] = c /\ t[4] = d /\ t[5] = e /\ t[6] = f /\ t[7] = g
         /\ Downstream(t) = a \cup b \cup c \cup d \cup e
         /\ Whole(t) = Downstream(t) \cup f \cup g
<1>1. t[1] = a /\ t[2] = b /\ t[3] = c /\ t[4] = d /\ t[5] = e /\ t[6] = f /\ t[7] = g
  OBVIOUS
<1>2. 1..5 = {1, 2, 3, 4, 5} /\ 1..7 = {1, 2, 3, 4, 5, 6, 7}
  OBVIOUS
<1>3. Downstream(t) = a \cup b \cup c \cup d \cup e
  BY <1>1, <1>2 DEF Downstream
<1>4. Whole(t) = a \cup b \cup c \cup d \cup e \cup f \cup g
  BY <1>1, <1>2 DEF Whole
<1> QED  BY <1>1, <1>3, <1>4

\* The stages now.
LEMMA StagesNow ==
  ASSUME NEW K \in Kinds
  PROVE  /\ Stages(K)[1] = Of(feed, K) /\ Stages(K)[2] = Of(buffered, K) /\ Stages(K)[3] = ChunksOf(chunks, K)
         /\ Stages(K)[4] = ReaderOf(K) /\ Stages(K)[5] = BufOf(K)
         /\ Stages(K)[6] = QueueOf(queue, K) /\ Stages(K)[7] = SourceOf(K)
         /\ Downstream(Stages(K)) = Of(feed, K) \cup Of(buffered, K) \cup ChunksOf(chunks, K)
                                  \cup ReaderOf(K) \cup BufOf(K)
         /\ Whole(Stages(K)) = Downstream(Stages(K)) \cup QueueOf(queue, K) \cup SourceOf(K)
<1> DEFINE t == Stages(K)
<1>1. t = <<Of(feed, K), Of(buffered, K), ChunksOf(chunks, K), ReaderOf(K), BufOf(K),
            QueueOf(queue, K), SourceOf(K)>>
  BY DEF Stages
<1> HIDE DEF t
<1> QED  BY <1>1, Tuple7 DEF t

\* The stages after a step.
LEMMA StagesNext ==
  ASSUME NEW K \in Kinds
  PROVE  /\ Stages(K)'[1] = Of(feed', K) /\ Stages(K)'[2] = Of(buffered', K) /\ Stages(K)'[3] = ChunksOf(chunks', K)
         /\ Stages(K)'[4] = ReaderOf(K)' /\ Stages(K)'[5] = BufOf(K)'
         /\ Stages(K)'[6] = QueueOf(queue', K) /\ Stages(K)'[7] = SourceOf(K)'
         /\ Downstream(Stages(K)') = Of(feed', K) \cup Of(buffered', K) \cup ChunksOf(chunks', K)
                                  \cup ReaderOf(K)' \cup BufOf(K)'
         /\ Whole(Stages(K)') = Downstream(Stages(K)') \cup QueueOf(queue', K) \cup SourceOf(K)'
<1> DEFINE t == Stages(K)'
<1>1. t = <<Of(feed', K), Of(buffered', K), ChunksOf(chunks', K), ReaderOf(K)', BufOf(K)',
            QueueOf(queue', K), SourceOf(K)'>>
  BY DEF Stages
<1> HIDE DEF t
<1> QED  BY <1>1, Tuple7 DEF t

\* A step below the daemon passes bytes on; it loses some only for good.
Passed(K) ==
    /\ Chain(Stages(K)') /\ Downstream(Stages(K)') \subseteq Downstream(Stages(K))
    /\ browser' = "open" \/ ~lost' => Downstream(Stages(K)') = Downstream(Stages(K))

\* A step of the viewer's process that passes bytes down, or loses some.
LEMMA PassedKeeps ==
  ASSUME Flow, UNCHANGED <<printed, unsent, client, replay, from, queue>>,
         browser' = "open" => browser = "open", lost => lost',
         \A K \in Kinds : Passed(K)
  PROVE  /\ \A K \in Kinds : Chain(Stages(K))' /\ Whole(Stages(K))' \subseteq 1..printed'
         /\ OneReplay' /\ Gapless'
<1>1. ASSUME NEW K \in Kinds
      PROVE  /\ Whole(Stages(K)') \subseteq Whole(Stages(K))
             /\ browser' = "open" \/ ~lost' => Whole(Stages(K)') = Whole(Stages(K))
  <2>1. SourceOf(K)' = SourceOf(K) /\ queue' = queue
    BY DEF SourceOf
  <2>2. Whole(Stages(K)) = Downstream(Stages(K)) \cup QueueOf(queue, K) \cup SourceOf(K)
    BY StagesNow
  <2>3. Whole(Stages(K)') = Downstream(Stages(K)') \cup QueueOf(queue', K) \cup SourceOf(K)'
    BY StagesNext
  <2>4. /\ Downstream(Stages(K)') \subseteq Downstream(Stages(K))
        /\ browser' = "open" \/ ~lost' => Downstream(Stages(K)') = Downstream(Stages(K))
    BY DEF Passed
  <2> QED  BY <2>1, <2>2, <2>3, <2>4
<1>2. ASSUME NEW K \in Kinds
      PROVE  Chain(Stages(K))' /\ Whole(Stages(K))' \subseteq 1..printed'
  BY <1>1 DEF Flow, StageInv, Passed
<1> HIDE DEF Kinds
<1>3. "live" \in Kinds /\ "replay" \in Kinds
  BY DEF Kinds
<1>4. OneReplay'
  <2>1. Downstream(Stages("replay")) = {} => Downstream(Stages("replay"))' = {}
    BY <1>3 DEF Passed
  <2>2. browser' = "open" => Whole(Stages("replay"))' = Whole(Stages("replay"))
    BY <1>1, <1>3
  <2> QED  BY <2>1, <2>2 DEF Flow, OneReplay
<1>5. Gapless'
  BY <1>1, <1>3 DEF Flow, Gapless
<1> QED  BY <1>2, <1>4, <1>5
-----------------------------------------------------------------------------
\* Nothing in the empty sequence.
LEMMA EmptyRange == Range(<<>>) = {} /\ Up(<<>>)
  BY DEF Range, Up

\* A step that moves no byte.
LEMMA FlowSame ==
  ASSUME Flow, reader'.bytes = reader.bytes, reader.bytes # <<>> => reader'.k = reader.k,
         UNCHANGED <<printed, unsent, replay, from, queue, replayBuf, liveBuf, chunks, buffered, feed>>,
         client' = client \/ (client = "absent" /\ client' = "added"),
         browser' = "open" => browser = "open", lost => lost'
  PROVE  Flow'
<1>1. \A K \in Kinds : ReaderOf(K)' = ReaderOf(K)
  BY EmptyRange DEF ReaderOf
<1>2. \A K \in Kinds : Stages(K)' = Stages(K)
  BY <1>1 DEF Stages, BufOf, SourceOf
<1>3. SeqInv'
  BY DEF Flow, SeqInv, LastPrinted
<1>4. \A K \in Kinds : StageInv(K)'
  BY <1>2 DEF Flow, StageInv
<1>5. Stages("live")' = Stages("live") /\ Stages("replay")' = Stages("replay")
  BY <1>2 DEF Kinds
<1>6. OneReplay'
  BY <1>5 DEF Flow, OneReplay
<1>7. Gapless'
  BY <1>5 DEF Flow, Gapless
<1> QED  BY <1>3, <1>4, <1>6, <1>7 DEF Flow

\* Read and ReadFramed: the front of one buffer goes to the idle reader.
LEMMA ReaderTakes ==
  ASSUME Flow, DataTypes, NEW k \in Kinds, reader.bytes = <<>>, reader'.k = k,
         reader'.bytes = FirstOf(IF k = "live" THEN liveBuf ELSE replayBuf),
         liveBuf' = IF k = "live" THEN RestOf(liveBuf) ELSE liveBuf,
         replayBuf' = IF k = "replay" THEN RestOf(replayBuf) ELSE replayBuf,
         UNCHANGED <<printed, unsent, client, replay, from, queue, chunks, buffered, feed, browser, lost>>
  PROVE  Flow'
<1> DEFINE buf == IF k = "live" THEN liveBuf ELSE replayBuf
<1>1. buf \in Seq(Byte) /\ Up(buf)
  BY DEF DataTypes, Flow, SeqInv
<1>2. /\ Range(FirstOf(buf)) \cup Range(RestOf(buf)) = Range(buf)
      /\ Up(FirstOf(buf)) /\ Up(RestOf(buf)) /\ Below(Range(FirstOf(buf)), Range(RestOf(buf)))
  BY <1>1, TakeFirst
<1>3. reader'.bytes = FirstOf(buf)
  OBVIOUS
<1>4. SeqInv'
  BY <1>2, <1>3 DEF Flow, SeqInv, LastPrinted, Kinds
<1>5. ASSUME NEW K \in Kinds
      PROVE  Passed(K)
  <2>1. ReaderOf(K) = {}
    BY EmptyRange DEF ReaderOf
  <2>2. ReaderOf(K)' \cup BufOf(K)' = BufOf(K) /\ Below(ReaderOf(K)', BufOf(K)')
    <3>1. CASE K = k
      <4>1. ReaderOf(K)' = Range(FirstOf(buf)) /\ BufOf(K) = Range(buf) /\ BufOf(K)' = Range(RestOf(buf))
        BY <1>3, <3>1 DEF ReaderOf, BufOf, Kinds
      <4> QED  BY <1>2, <4>1
    <3>2. CASE K # k
      <4>1. ReaderOf(K)' = {} /\ BufOf(K)' = BufOf(K)
        BY <3>2 DEF ReaderOf, BufOf, Kinds
      <4> QED  BY <4>1 DEF Below
    <3> QED  BY <3>1, <3>2
  <2>3. SourceOf(K)' = SourceOf(K)
    BY DEF SourceOf
  <2>4. Downstream(Stages(K)') = Downstream(Stages(K))
    <3>1. Downstream(Stages(K)) = Of(feed, K) \cup Of(buffered, K) \cup ChunksOf(chunks, K) \cup ReaderOf(K) \cup BufOf(K)
      BY StagesNow
    <3>2. Downstream(Stages(K)') = Of(feed, K) \cup Of(buffered, K) \cup ChunksOf(chunks, K) \cup ReaderOf(K)' \cup BufOf(K)'
      BY StagesNext
    <3> QED  BY <2>1, <2>2, <3>1, <3>2
  <2>5. Chain(Stages(K))
    BY DEF Flow, StageInv
  <2>6. /\ \A i \in 1..7 : i # 4 => Stages(K)'[i] \subseteq Stages(K)[i]
        /\ Stages(K)'[4] \subseteq Stages(K)[4] \cup Stages(K)[4 + 1]
        /\ Below(Stages(K)'[4], Stages(K)'[4 + 1])
    <3>1. 1..7 = {1, 2, 3, 4, 5, 6, 7} /\ 4 + 1 = 5
      OBVIOUS
    <3>2. Stages(K)'[5] \subseteq Stages(K)[5] /\ Stages(K)'[4] \subseteq Stages(K)[5]
      BY <2>2, StagesNow, StagesNext
    <3>3. \A i \in {1, 2, 3, 6, 7} : Stages(K)'[i] = Stages(K)[i]
      BY <2>3, StagesNow, StagesNext
    <3>4. Below(Stages(K)'[4], Stages(K)'[5])
      BY <2>2, StagesNext
    <3> QED  BY <3>1, <3>2, <3>3, <3>4
  <2>7. Chain(Stages(K)')
    BY <2>5, <2>6, ChainMove
  <2> QED  BY <2>4, <2>7 DEF Passed
<1>6. /\ \A K \in Kinds : Chain(Stages(K))' /\ Whole(Stages(K))' \subseteq 1..printed'
      /\ OneReplay' /\ Gapless'
  BY <1>5, PassedKeeps
<1>7. \A K \in Kinds : StageInv(K)'
  BY <1>6 DEF Flow, StageInv
<1> QED  BY <1>4, <1>6, <1>7 DEF Flow
-----------------------------------------------------------------------------
\* What the reader holds becomes the last chunk.
LEMMA SubmitFlow ==
  ASSUME Flow, DataTypes, Submit
  PROVE  Flow' /\ chunks' \in Seq(Seq(Item))
<1> DEFINE c == [i \in 1..Len(reader.bytes) |-> [k |-> reader.k, b |-> reader.bytes[i]]]
<1>1. /\ chunks' = Append(chunks, c) /\ reader' = Idle
      /\ UNCHANGED <<printed, unsent, client, replay, from, queue, replayBuf, liveBuf,
                     buffered, feed, browser, lost>>
  BY DEF Submit, shellVars, daemonVars, sessVars, coalVars, connVars
<1>2. reader'.bytes = <<>>
  BY <1>1 DEF Idle
<1>3. reader.bytes \in Seq(Byte) /\ reader.k \in Kinds /\ chunks \in Seq(Seq(Item))
      /\ Len(chunks) \in Nat /\ DOMAIN chunks = 1..Len(chunks) /\ Up(reader.bytes)
  BY DEF DataTypes, Flow, SeqInv
<1>4. \A K \in Kinds : Of(c, K) = ReaderOf(K) /\ Sorted(c, K) /\ c \in Seq(Item)
  BY <1>3, OfLift DEF ReaderOf
<1>5. c \in Seq(Item)
  BY <1>4 DEF Kinds
<1> HIDE DEF c
<1>6. SeqInv'
  BY <1>1, <1>2, EmptyRange DEF Flow, SeqInv, LastPrinted
<1>7. ASSUME NEW K \in Kinds
      PROVE  Passed(K)
  <2>1. ReaderOf(K)' = {}
    BY <1>2, EmptyRange DEF ReaderOf
  <2>2. ChunksOf(chunks', K) = ChunksOf(chunks, K) \cup ReaderOf(K)
    BY <1>1, <1>3, <1>4, <1>5, ChunksAppend
  <2>3. SourceOf(K)' = SourceOf(K) /\ BufOf(K)' = BufOf(K)
    BY <1>1 DEF SourceOf, BufOf
  <2>4. Downstream(Stages(K)') = Downstream(Stages(K))
    <3>1. Downstream(Stages(K)) = Of(feed, K) \cup Of(buffered, K) \cup ChunksOf(chunks, K)
                                    \cup ReaderOf(K) \cup BufOf(K)
      BY StagesNow
    <3>2. Downstream(Stages(K)') = Of(feed', K) \cup Of(buffered', K) \cup ChunksOf(chunks', K)
                                     \cup ReaderOf(K)' \cup BufOf(K)'
      BY StagesNext
    <3> QED  BY <1>1, <2>1, <2>2, <2>3, <3>1, <3>2
  <2>5. Chain(Stages(K))
    BY DEF Flow, StageInv
  <2>6. /\ \A i \in 1..7 : i # 3 => Stages(K)'[i] \subseteq Stages(K)[i]
        /\ Stages(K)'[3] \subseteq Stages(K)[3] \cup Stages(K)[3 + 1]
        /\ Below(Stages(K)'[3], Stages(K)'[3 + 1])
    <3>1. 1..7 = {1, 2, 3, 4, 5, 6, 7} /\ 3 + 1 = 4
      OBVIOUS
    <3>2. Stages(K)'[4] = {} /\ Stages(K)'[3] = Stages(K)[3] \cup Stages(K)[4]
      BY <2>1, <2>2, StagesNow, StagesNext
    <3>3. \A i \in {1, 2, 5, 6, 7} : Stages(K)'[i] = Stages(K)[i]
      BY <1>1, <2>3, StagesNow, StagesNext
    <3> QED  BY <3>1, <3>2, <3>3 DEF Below
  <2>7. Chain(Stages(K)')
    BY <2>5, <2>6, ChainMove
  <2> QED  BY <2>4, <2>7 DEF Passed
<1>8. /\ \A K \in Kinds : Chain(Stages(K))' /\ Whole(Stages(K))' \subseteq 1..printed'
      /\ OneReplay' /\ Gapless'
  BY <1>1, <1>7, PassedKeeps
<1>9. ASSUME NEW K \in Kinds
      PROVE  StageInv(K)'
  <2>1. StageInv(K) /\ Sorted(feed, K)' /\ Sorted(buffered, K)'
    BY <1>1 DEF Flow, StageInv
  <2>2. /\ DOMAIN chunks' = 1..(Len(chunks) + 1)
        /\ \A i \in DOMAIN chunks : chunks'[i] = chunks[i] /\ Of(chunks[i], K) \subseteq ChunksOf(chunks, K)
        /\ chunks'[Len(chunks) + 1] = c
    BY <1>1, <1>3, <1>5, ChunksAppend
  <2>3. \A i \in DOMAIN chunks' : Sorted(chunks'[i], K)
    BY <1>3, <1>4, <2>1, <2>2 DEF StageInv
  <2>4. Below(ChunksOf(chunks, K), Of(c, K))
    <3>1. Below(Stages(K)[3], Stages(K)[4])
      BY <2>1 DEF StageInv, Chain
    <3> QED  BY <1>4, <3>1, StagesNow
  <2>5. \A i, j \in DOMAIN chunks' : i < j => Below(Of(chunks'[i], K), Of(chunks'[j], K))
    <3> SUFFICES ASSUME NEW i \in DOMAIN chunks', NEW j \in DOMAIN chunks', i < j
                 PROVE  Below(Of(chunks'[i], K), Of(chunks'[j], K))
      OBVIOUS
    <3>1. CASE j = Len(chunks) + 1
      <4>1. i \in DOMAIN chunks
        BY <1>3, <2>2, <3>1
      <4>2. Of(chunks'[i], K) \subseteq ChunksOf(chunks, K) /\ chunks'[j] = c
        BY <2>2, <3>1, <4>1
      <4> QED  BY <2>4, <4>2 DEF Below
    <3>2. CASE j # Len(chunks) + 1
      <4>1. i \in DOMAIN chunks /\ j \in DOMAIN chunks
        BY <1>3, <2>2, <3>2
      <4> QED  BY <2>1, <2>2, <4>1 DEF StageInv
    <3> QED  BY <3>1, <3>2
  <2>6. \A i, j \in DOMAIN queue' : i < j => Below(FrameOf(queue'[i], K), FrameOf(queue'[j], K))
    BY <1>1, <2>1 DEF StageInv
  <2> QED  BY <1>8, <2>1, <2>3, <2>5, <2>6 DEF StageInv
<1>10. chunks' \in Seq(Seq(Item))
  BY <1>1, <1>3, <1>5
<1> QED  BY <1>6, <1>8, <1>9, <1>10 DEF Flow

\* A write of the coalescer: of all that it holds, n items leave.
LEMMA WriteFlow ==
  ASSUME Flow, DataTypes, NEW all \in Seq(Item), NEW n \in 0..Len(all),
         Write(SubSeq(all, 1, n), SubSeq(all, n + 1, Len(all))),
         UNCHANGED <<printed, unsent, client, replay, from, queue, replayBuf, liveBuf, reader, browser>>,
         \A K \in Kinds :
            /\ Sorted(all, K) /\ ChunksOf(chunks', K) \subseteq ChunksOf(chunks, K)
            /\ Of(all, K) \cup ChunksOf(chunks', K) = Of(buffered, K) \cup ChunksOf(chunks, K)
            /\ Below(Of(all, K), ChunksOf(chunks', K))
            /\ \A i \in DOMAIN chunks' : Sorted(chunks'[i], K)
            /\ \A i, j \in DOMAIN chunks' : i < j => Below(Of(chunks'[i], K), Of(chunks'[j], K))
  PROVE  Flow' /\ feed' \in Seq(Item) /\ buffered' \in Seq(Item)
<1> DEFINE items == SubSeq(all, 1, n)
           rest == SubSeq(all, n + 1, Len(all))
<1>1. /\ buffered' = rest
      /\ \/ feed' = feed \o items /\ UNCHANGED lost
         \/ feed' = feed /\ browser' # "open" /\ lost' = TRUE
  BY DEF Write
<1>2. feed \in Seq(Item) /\ items \in Seq(Item) /\ rest \in Seq(Item)
  BY OfSplit DEF DataTypes, Kinds
<1>3. ASSUME NEW K \in Kinds
      PROVE  /\ Of(items, K) \cup Of(rest, K) = Of(all, K) /\ Sorted(items, K) /\ Sorted(rest, K)
             /\ Below(Of(items, K), Of(rest, K))
  BY OfSplit
<1> HIDE DEF items, rest
<1>4. feed' \in Seq(Item) /\ buffered' \in Seq(Item)
  <2>1. feed \o items \in Seq(Item)
    BY <1>2, ConcatProperties
  <2> QED  BY <1>1, <1>2, <2>1
<1>5. SeqInv'
  BY DEF Flow, SeqInv, LastPrinted
<1>6. ASSUME NEW K \in Kinds
      PROVE  Passed(K) /\ Sorted(feed', K) /\ Sorted(buffered', K)
  <2> DEFINE t == <<Of(feed, K), Of(all, K), ChunksOf(chunks', K), ReaderOf(K), BufOf(K),
                    QueueOf(queue, K), SourceOf(K)>>
  <2>1. SourceOf(K)' = SourceOf(K) /\ BufOf(K)' = BufOf(K) /\ ReaderOf(K)' = ReaderOf(K)
    BY DEF SourceOf, BufOf, ReaderOf
  <2>2. 1..7 = {1, 2, 3, 4, 5, 6, 7} /\ 2 + 1 = 3 /\ 1 + 1 = 2
    OBVIOUS
  <2>3. Chain(Stages(K)) /\ Sorted(feed, K)
    BY DEF Flow, StageInv
  <2>4. /\ t[1] = Of(feed, K) /\ t[2] = Of(all, K) /\ t[3] = ChunksOf(chunks', K)
        /\ t[4] = ReaderOf(K) /\ t[5] = BufOf(K) /\ t[6] = QueueOf(queue, K) /\ t[7] = SourceOf(K)
    BY Tuple7
  <2> HIDE DEF t
  <2>5. Chain(t)
    <3>1. \A i \in {1, 4, 5, 6, 7} : t[i] = Stages(K)[i]
      BY <2>4, StagesNow
    <3>2. t[3] \subseteq Stages(K)[3] /\ t[2] \subseteq Stages(K)[2] \cup Stages(K)[3] /\ Below(t[2], t[3])
      BY <2>4, StagesNow
    <3>3. \A i \in 1..7 : i # 2 => t[i] \subseteq Stages(K)[i]
      BY <2>2, <3>1, <3>2
    <3> QED  BY <2>2, <2>3, <3>2, <3>3, ChainMove
  <2>6. Below(Of(feed, K), Of(all, K))
    <3>1. Below(t[1], t[2])
      BY <2>5 DEF Chain
    <3> QED  BY <2>4, <3>1
  <2>7. Below(Of(feed, K), Of(items, K)) /\ Below(Of(feed, K), Of(rest, K))
    BY <1>3, <2>6 DEF Below
  <2>8. /\ Of(feed', K) \subseteq Of(feed, K) \cup Of(items, K)
        /\ browser' = "open" \/ ~lost' => Of(feed', K) = Of(feed, K) \cup Of(items, K)
        /\ Sorted(feed', K)
    <3>1. /\ Of(feed \o items, K) = Of(feed, K) \cup Of(items, K)
          /\ Sorted(feed \o items, K)
      BY <1>2, <1>3, <2>3, <2>7, OfConcat
    <3>2. CASE feed' = feed \o items
      BY <3>1, <3>2
    <3>3. CASE feed' = feed /\ browser' # "open" /\ lost' = TRUE
      BY <2>3, <3>3
    <3> QED  BY <1>1, <3>2, <3>3
  <2>9. Chain(Stages(K)')
    <3>1. \A i \in {3, 4, 5, 6, 7} : Stages(K)'[i] = t[i]
      BY <2>1, <2>4, StagesNext
    <3>2. Stages(K)'[1] = Of(feed', K) /\ Stages(K)'[2] = Of(rest, K)
      BY <1>1, StagesNext
    <3>3. Stages(K)'[2] \subseteq t[2] /\ Stages(K)'[1] \subseteq t[1] \cup t[2]
      BY <1>3, <2>4, <2>8, <3>2
    <3>4. Below(Stages(K)'[1], Stages(K)'[2])
      BY <1>3, <2>7, <2>8, <3>2 DEF Below
    <3>5. \A i \in 1..7 : i # 1 => Stages(K)'[i] \subseteq t[i]
      BY <2>2, <3>1, <3>3
    <3> QED  BY <2>2, <2>5, <3>3, <3>4, <3>5, ChainMove
  <2>10. Downstream(Stages(K)) = Of(feed, K) \cup Of(all, K) \cup ChunksOf(chunks', K)
                                   \cup ReaderOf(K) \cup BufOf(K)
    <3>1. Downstream(Stages(K)) = Of(feed, K) \cup (Of(buffered, K) \cup ChunksOf(chunks, K))
                                    \cup ReaderOf(K) \cup BufOf(K)
      BY StagesNow
    <3> QED  BY <3>1
  <2>11. Downstream(Stages(K)') = Of(feed', K) \cup Of(rest, K) \cup ChunksOf(chunks', K)
                                    \cup ReaderOf(K) \cup BufOf(K)
    BY <1>1, <2>1, StagesNext
  <2> QED  BY <1>1, <1>3, <2>8, <2>9, <2>10, <2>11 DEF Passed
<1>7. lost => lost'
  BY <1>1
<1>8. /\ \A K \in Kinds : Chain(Stages(K))' /\ Whole(Stages(K))' \subseteq 1..printed'
      /\ OneReplay' /\ Gapless'
  BY <1>6, <1>7, PassedKeeps
<1>9. \A K \in Kinds : StageInv(K)'
  BY <1>6, <1>8 DEF Flow, StageInv
<1> QED  BY <1>4, <1>5, <1>8, <1>9 DEF Flow
-----------------------------------------------------------------------------
\* The chunks without the first are still in order, and above the first.
LEMMA RestOfChunks ==
  ASSUME Flow, DataTypes, chunks # <<>>, chunks' = Tail(chunks), NEW K \in Kinds
  PROVE  /\ ChunksOf(chunks, K) = Of(Head(chunks), K) \cup ChunksOf(chunks', K)
         /\ Below(Of(Head(chunks), K), ChunksOf(chunks', K))
         /\ Sorted(Head(chunks), K) /\ \A i \in DOMAIN chunks' : Sorted(chunks'[i], K)
         /\ \A i, j \in DOMAIN chunks' : i < j => Below(Of(chunks'[i], K), Of(chunks'[j], K))
<1>1. chunks \in Seq(Seq(Item)) /\ StageInv(K)
  BY DEF DataTypes, Flow
<1>2. /\ Head(chunks) = chunks[1] /\ 1 \in DOMAIN chunks
      /\ ChunksOf(chunks, K) = Of(Head(chunks), K) \cup ChunksOf(chunks', K)
      /\ \A i \in DOMAIN chunks' : i + 1 \in DOMAIN chunks /\ 1 < i + 1 /\ chunks'[i] = chunks[i + 1]
  BY <1>1, ChunksTail
<1>3. Sorted(Head(chunks), K) /\ \A i \in DOMAIN chunks' : Sorted(chunks'[i], K)
  BY <1>1, <1>2 DEF StageInv
<1>4. Below(Of(Head(chunks), K), ChunksOf(chunks', K))
  <2>1. \A i \in DOMAIN chunks' : Below(Of(chunks[1], K), Of(chunks'[i], K))
    BY <1>1, <1>2 DEF StageInv
  <2>2. \A y \in ChunksOf(chunks', K) : \E i \in DOMAIN chunks' : y \in Of(chunks'[i], K)
    BY DEF ChunksOf
  <2> QED  BY <1>2, <2>1, <2>2 DEF Below
<1>5. ASSUME NEW i \in DOMAIN chunks', NEW j \in DOMAIN chunks', i < j
      PROVE  Below(Of(chunks'[i], K), Of(chunks'[j], K))
  <2>1. DOMAIN chunks' \subseteq Nat
    BY <1>1, <1>2
  <2>2. i + 1 < j + 1
    BY <1>5, <2>1
  <2> QED  BY <1>1, <1>2, <1>5, <2>2 DEF StageInv
<1> QED  BY <1>2, <1>3, <1>4, <1>5

\* appendChunk with the next chunk.
LEMMA TakeChunk ==
  ASSUME Flow, DataTypes, chunks # <<>>, chunks' = Tail(chunks), AppendChunk(buffered \o Head(chunks)),
         UNCHANGED <<printed, unsent, client, replay, from, queue, replayBuf, liveBuf, reader, browser>>
  PROVE  /\ Flow' /\ feed' \in Seq(Item) /\ buffered' \in Seq(Item) /\ chunks' \in Seq(Seq(Item))
         /\ Len(buffered') < MaxFrame /\ Len(chunks') <= Len(chunks)
<1> DEFINE all == buffered \o Head(chunks)
           n == (Len(all) \div MaxFrame) * MaxFrame
<1>1. /\ chunks \in Seq(Seq(Item)) /\ buffered \in Seq(Item)
      /\ Head(chunks) \in Seq(Item) /\ chunks' \in Seq(Seq(Item)) /\ Len(chunks') = Len(chunks) - 1
  BY ChunksTail DEF DataTypes, Kinds
<1>2. all \in Seq(Item) /\ Len(all) \in Nat
  BY <1>1, ConcatProperties, LenProperties
<1> HIDE DEF all
<1>3. MaxFrame \in Nat \ {0}
  BY TerminalAssumption
<1>4. n \in 0..Len(all) /\ Len(all) - n < MaxFrame
  BY <1>2, <1>3, DivPart
<1>5. Write(SubSeq(all, 1, n), SubSeq(all, n + 1, Len(all)))
  BY DEF AppendChunk, all
<1> HIDE DEF n
<1>6. ASSUME NEW K \in Kinds
      PROVE  /\ Sorted(all, K) /\ ChunksOf(chunks', K) \subseteq ChunksOf(chunks, K)
             /\ Of(all, K) \cup ChunksOf(chunks', K) = Of(buffered, K) \cup ChunksOf(chunks, K)
             /\ Below(Of(all, K), ChunksOf(chunks', K))
             /\ \A i \in DOMAIN chunks' : Sorted(chunks'[i], K)
             /\ \A i, j \in DOMAIN chunks' : i < j => Below(Of(chunks'[i], K), Of(chunks'[j], K))
  <2>1. Below(Of(buffered, K), ChunksOf(chunks, K)) /\ Sorted(buffered, K)
    <3>1. StageInv(K)
      BY DEF Flow
    <3>2. Below(Stages(K)[2], Stages(K)[3])
      BY <3>1 DEF StageInv, Chain
    <3> QED  BY <3>1, <3>2, StagesNow DEF StageInv
  <2>2. /\ ChunksOf(chunks, K) = Of(Head(chunks), K) \cup ChunksOf(chunks', K)
        /\ Below(Of(Head(chunks), K), ChunksOf(chunks', K))
        /\ Sorted(Head(chunks), K) /\ \A i \in DOMAIN chunks' : Sorted(chunks'[i], K)
        /\ \A i, j \in DOMAIN chunks' : i < j => Below(Of(chunks'[i], K), Of(chunks'[j], K))
    BY RestOfChunks
  <2>3. Below(Of(buffered, K), Of(Head(chunks), K)) /\ Below(Of(buffered, K), ChunksOf(chunks', K))
    BY <2>1, <2>2 DEF Below
  <2>4. Of(all, K) = Of(buffered, K) \cup Of(Head(chunks), K) /\ Sorted(all, K)
    BY <1>1, <2>1, <2>2, <2>3, OfConcat DEF all
  <2>5. Below(Of(all, K), ChunksOf(chunks', K))
    BY <2>2, <2>3, <2>4 DEF Below
  <2> QED  BY <2>2, <2>4, <2>5
<1>7. Flow' /\ feed' \in Seq(Item) /\ buffered' \in Seq(Item)
  BY <1>2, <1>4, <1>5, <1>6, WriteFlow
<1>8. Len(buffered') < MaxFrame
  <2>1. buffered' = SubSeq(all, n + 1, Len(all))
    BY <1>5 DEF Write
  <2>2. Len(SubSeq(all, n + 1, Len(all))) = Len(all) - n
    BY <1>2, <1>4
  <2> QED  BY <1>4, <2>1, <2>2
<1> QED  BY <1>1, <1>7, <1>8, LenProperties

\* A flush, alone or with a control behind it.
LEMMA FlushAll ==
  ASSUME Flow, DataTypes, NEW all \in Seq(Item), Write(all, <<>>),
         \A K \in Kinds : Of(all, K) = Of(buffered, K) /\ Sorted(all, K),
         UNCHANGED <<printed, unsent, client, replay, from, queue, replayBuf, liveBuf, reader, browser, chunks>>
  PROVE  Flow' /\ feed' \in Seq(Item) /\ buffered' \in Seq(Item) /\ Len(buffered') = 0
<1>1. SubSeq(all, 1, Len(all)) = all /\ SubSeq(all, Len(all) + 1, Len(all)) = <<>> /\ Len(all) \in 0..Len(all)
  OBVIOUS
<1>2. Write(SubSeq(all, 1, Len(all)), SubSeq(all, Len(all) + 1, Len(all)))
  BY <1>1
<1>3. ASSUME NEW K \in Kinds
      PROVE  /\ Sorted(all, K) /\ ChunksOf(chunks', K) \subseteq ChunksOf(chunks, K)
             /\ Of(all, K) \cup ChunksOf(chunks', K) = Of(buffered, K) \cup ChunksOf(chunks, K)
             /\ Below(Of(all, K), ChunksOf(chunks', K))
             /\ \A i \in DOMAIN chunks' : Sorted(chunks'[i], K)
             /\ \A i, j \in DOMAIN chunks' : i < j => Below(Of(chunks'[i], K), Of(chunks'[j], K))
  <2>1. StageInv(K)
    BY DEF Flow
  <2>2. Below(Stages(K)[2], Stages(K)[3])
    BY <2>1 DEF StageInv, Chain
  <2>3. Below(Of(all, K), ChunksOf(chunks, K))
    BY <2>2, StagesNow
  <2> QED  BY <2>1, <2>3 DEF StageInv
<1>4. Flow' /\ feed' \in Seq(Item) /\ buffered' \in Seq(Item)
  BY <1>1, <1>2, <1>3, WriteFlow
<1>5. buffered' = <<>>
  BY DEF Write
<1> QED  BY <1>4, <1>5

\* After a failed write the chunks go nowhere.
LEMMA DiscardFlow ==
  ASSUME Flow, DataTypes, chunks # <<>>, chunks' = Tail(chunks), browser # "open", lost,
         UNCHANGED <<printed, unsent, client, replay, from, queue, replayBuf, liveBuf, reader,
                     browser, lost, buffered, feed>>
  PROVE  Flow'
<1>1. SeqInv'
  BY DEF Flow, SeqInv, LastPrinted
<1>2. ASSUME NEW K \in Kinds
      PROVE  Passed(K)
  <2>1. SourceOf(K)' = SourceOf(K) /\ BufOf(K)' = BufOf(K) /\ ReaderOf(K)' = ReaderOf(K)
    BY DEF SourceOf, BufOf, ReaderOf
  <2>2. ChunksOf(chunks', K) \subseteq ChunksOf(chunks, K)
    BY RestOfChunks
  <2>3. 1..7 = {1, 2, 3, 4, 5, 6, 7} /\ 1..5 = {1, 2, 3, 4, 5}
    OBVIOUS
  <2>4. \A i \in {1, 2, 4, 5, 6, 7} : Stages(K)'[i] = Stages(K)[i]
    BY <2>1, StagesNow, StagesNext
  <2>5. Stages(K)'[3] \subseteq Stages(K)[3]
    BY <2>2, StagesNow, StagesNext
  <2>6. \A i \in 1..7 : Stages(K)'[i] \subseteq Stages(K)[i]
    BY <2>3, <2>4, <2>5
  <2>7. Chain(Stages(K)')
    BY <2>6, ChainShrink DEF Flow, StageInv
  <2>8. Downstream(Stages(K)') \subseteq Downstream(Stages(K))
    BY <2>3, <2>6 DEF Downstream
  <2> QED  BY <2>7, <2>8 DEF Passed
<1>3. /\ \A K \in Kinds : Chain(Stages(K))' /\ Whole(Stages(K))' \subseteq 1..printed'
      /\ OneReplay' /\ Gapless'
  BY <1>2, PassedKeeps
<1>4. \A K \in Kinds : StageInv(K)'
  BY <1>3, RestOfChunks DEF Flow, StageInv
<1> QED  BY <1>1, <1>3, <1>4 DEF Flow
-----------------------------------------------------------------------------
\* A stretch is increasing and leaves no byte out.
LEMMA StretchFacts ==
  ASSUME NEW s \in Seq(Byte), Stretch(s)
  PROVE  Up(s) /\ Convex(Range(s))
<1>1. DOMAIN s = 1..Len(s) /\ Len(s) \in Nat
  OBVIOUS
<1>2. \A i \in DOMAIN s : s[i] \in Byte
  OBVIOUS
<1>3. \A i \in DOMAIN s : s[i] \in Nat
  BY <1>2, ByteNat, Zenon
<1>4. Up(s)
  <2> SUFFICES ASSUME NEW i \in DOMAIN s, NEW j \in DOMAIN s, i < j  PROVE s[i] < s[j]
    BY DEF Up
  <2>1. s[i] = s[1] + i - 1 /\ s[j] = s[1] + j - 1 /\ 1 \in DOMAIN s
    BY <1>1 DEF Stretch
  <2> QED  BY <1>1, <1>3, <2>1
<1>5. Convex(Range(s))
  <2> SUFFICES ASSUME NEW x \in Range(s), NEW z \in Range(s), NEW y \in x..z
               PROVE  y \in Range(s)
    BY DEF Convex
  <2>1. PICK i \in DOMAIN s : s[i] = x
    BY InRange
  <2>2. PICK j \in DOMAIN s : s[j] = z
    BY InRange
  <2>3. x = s[1] + i - 1 /\ z = s[1] + j - 1 /\ 1 \in DOMAIN s
    BY <1>1, <2>1, <2>2 DEF Stretch
  <2>4. s[1] \in Nat /\ y \in Int /\ s[1] + i - 1 <= y /\ y <= s[1] + j - 1
    <3>1. s[1] \in Nat /\ i \in Nat /\ j \in Nat
      BY <1>1, <1>3, <2>3
    <3> QED  BY <2>3, <3>1
  <2>5. i \in 1..Len(s) /\ j \in 1..Len(s)
    BY <1>1
  <2>6. y - s[1] + 1 \in i..j
    BY <2>4, <2>5
  <2>7. y - s[1] + 1 \in DOMAIN s
    BY <1>1, <2>5, <2>6
  <2>8. s[y - s[1] + 1] = s[1] + (y - s[1] + 1) - 1
    BY <2>7 DEF Stretch
  <2>9. s[1] + (y - s[1] + 1) - 1 = y
    BY <2>4
  <2>10. s[y - s[1] + 1] = y
    BY <2>8, <2>9
  <2> QED  BY <2>7, <2>10, InRange
<1> QED  BY <1>4, <1>5

\* The last bytes printed are one stretch, up to the last one.
LEMMA LastPrintedFacts ==
  ASSUME NEW s \in Seq(Byte), NEW p \in Nat, \A i \in DOMAIN s : s[i] = p - Len(s) + i
  PROVE  /\ Up(s) /\ Stretch(s) /\ Range(s) \subseteq 1..p
         /\ Range(s) = (p - Len(s) + 1)..p
<1>1. DOMAIN s = 1..Len(s) /\ Len(s) \in Nat
  OBVIOUS
<1>2. \A i \in DOMAIN s : s[i] \in Byte
  OBVIOUS
<1>3. \A i \in DOMAIN s : s[i] \in Nat /\ s[i] >= 1
  BY <1>2, TerminalAssumption DEF Byte
<1>4. Stretch(s)
  <2> SUFFICES ASSUME NEW i \in DOMAIN s  PROVE s[i] = s[1] + i - 1
    BY DEF Stretch
  <2>1. 1 \in DOMAIN s
    BY <1>1
  <2> QED  BY <1>1, <2>1
<1>5. Range(s) \subseteq (p - Len(s) + 1)..p
  BY <1>1, InRange
<1>6. ASSUME NEW y \in (p - Len(s) + 1)..p  PROVE y \in Range(s)
  <2>1. y - p + Len(s) \in DOMAIN s
    BY <1>1
  <2>2. s[y - p + Len(s)] = y
    BY <1>1, <2>1
  <2> QED  BY <2>1, <2>2, InRange
<1>7. Range(s) \subseteq 1..p
  BY <1>3, <1>5, InRange
<1> QED  BY <1>4, <1>5, <1>6, <1>7, StretchFacts

\* With one replay frame at most, its bytes are one stretch.
LEMMA QueueConvex ==
  ASSUME NEW q \in Seq(Frames),
         \A i \in DOMAIN q : q[i].k = "replay" => Stretch(q[i].bytes),
         \A i, j \in DOMAIN q : q[i].k = "replay" /\ q[j].k = "replay" => i = j
  PROVE  Convex(QueueOf(q, "replay"))
<1>1. CASE \A i \in DOMAIN q : q[i].k # "replay"
  <2>1. QueueOf(q, "replay") = {}
    BY <1>1 DEF QueueOf, FrameOf
  <2> QED  BY <2>1 DEF Convex
<1>2. ASSUME NEW i \in DOMAIN q, q[i].k = "replay"
      PROVE  Convex(QueueOf(q, "replay"))
  <2>1. q[i] \in Frames
    OBVIOUS
  <2>2. q[i].bytes \in Seq(Byte)
    BY <2>1 DEF Frames, Byte
  <2>3. \A j \in DOMAIN q : j # i => q[j].k # "replay"
    BY <1>2
  <2>4. QueueOf(q, "replay") = Range(q[i].bytes)
    BY <1>2, <2>3 DEF QueueOf, FrameOf
  <2> QED  BY <1>2, <2>2, <2>4, StretchFacts
<1> QED  BY <1>1, <1>2

\* readFrames.
LEMMA ReadFrameFlow ==
  ASSUME Flow, DataTypes, ReadFrame, Len(replayBuf) <= BufferCap, Len(liveBuf) <= BufferCap
  PROVE  /\ Flow' /\ queue' \in Seq(Frames) /\ Len(queue') <= Len(queue)
         /\ replayBuf' \in Seq(Byte) /\ liveBuf' \in Seq(Byte)
         /\ Len(replayBuf') <= BufferCap /\ Len(liveBuf') <= BufferCap
<1> DEFINE f == Head(queue)
           buf == IF f.k = "replay" THEN replayBuf ELSE liveBuf
<1>1. /\ queue # <<>> /\ queue' = Tail(queue)
      /\ lost' = (lost \/ Len(buf) + Len(f.bytes) > BufferCap)
      /\ replayBuf' = IF f.k = "replay" THEN Bounded(replayBuf, f.bytes) ELSE replayBuf
      /\ liveBuf' = IF f.k = "replay" THEN liveBuf ELSE Bounded(liveBuf, f.bytes)
      /\ UNCHANGED <<printed, unsent, client, replay, from, reader, chunks, buffered, feed, browser>>
  BY DEF ReadFrame, shellVars, readerVars, channelVars, coalVars, connVars
<1>2. queue \in Seq(Frames) /\ replayBuf \in Seq(Byte) /\ liveBuf \in Seq(Byte)
      /\ Up(replayBuf) /\ Up(liveBuf)
  BY DEF DataTypes, Flow, SeqInv
<1>3. /\ queue' \in Seq(Frames) /\ f \in Frames /\ f = queue[1] /\ 1 \in DOMAIN queue
      /\ Len(queue') = Len(queue) - 1
      /\ \A i \in DOMAIN queue' : i + 1 \in DOMAIN queue /\ 1 < i + 1 /\ queue'[i] = queue[i + 1]
  BY <1>1, <1>2, QueueTail DEF Kinds
<1>4. \A K \in Kinds : QueueOf(queue, K) = FrameOf(f, K) \cup QueueOf(queue', K)
  BY <1>1, <1>2, QueueTail
<1> HIDE DEF f, buf
<1>5. f.bytes \in Seq(Byte) /\ f.k \in Kinds /\ Up(f.bytes)
      /\ (f.k = "replay" => Stretch(f.bytes) /\ f.bytes # <<>>)
  BY <1>3 DEF Frames, Byte, Kinds, Flow, SeqInv
<1>6. buf \in Seq(Byte) /\ Len(buf) <= BufferCap /\ Up(buf)
  BY <1>2 DEF buf
<1>7. /\ Bounded(buf, f.bytes) \in Seq(Byte) /\ Len(Bounded(buf, f.bytes)) <= BufferCap
      /\ Range(Bounded(buf, f.bytes)) \subseteq Range(buf) \cup Range(f.bytes)
      /\ ~lost' => Range(Bounded(buf, f.bytes)) = Range(buf) \cup Range(f.bytes)
      /\ Below(Range(buf), Range(f.bytes)) => Up(Bounded(buf, f.bytes))
      /\ buf = <<>> /\ Stretch(f.bytes) => Stretch(Bounded(buf, f.bytes))
  <2>1. Len(buf) \in Nat /\ Len(f.bytes) \in Nat /\ BufferCap \in Nat
    BY <1>5, <1>6, TerminalAssumption
  <2>2. ~lost' => ~(Len(buf) + Len(f.bytes) > BufferCap)
    BY <1>1, Zenon
  <2>3. ~lost' => Len(buf) + Len(f.bytes) <= BufferCap
    BY <2>1, <2>2
  <2> QED  BY <1>5, <1>6, <2>3, BoundedFacts
<1>8. PICK k \in Kinds : k = f.k
  BY <1>5
<1>9. BufOf(k) = Range(buf) /\ BufOf(k)' = Range(Bounded(buf, f.bytes)) /\ FrameOf(f, k) = Range(f.bytes)
  BY <1>1, <1>5, <1>8 DEF BufOf, FrameOf, Kinds, buf
<1>10. \A K \in Kinds : K # k => BufOf(K)' = BufOf(K) /\ FrameOf(f, K) = {}
  BY <1>1, <1>5, <1>8 DEF BufOf, FrameOf, Kinds
<1>11. \A K \in Kinds : Below(BufOf(K), QueueOf(queue, K)) /\ Below(FrameOf(f, K), QueueOf(queue', K))
  <2> SUFFICES ASSUME NEW K \in Kinds
               PROVE  Below(BufOf(K), QueueOf(queue, K)) /\ Below(FrameOf(f, K), QueueOf(queue', K))
    OBVIOUS
  <2>1. StageInv(K)
    BY DEF Flow
  <2>2. Below(Stages(K)[5], Stages(K)[6])
    BY <2>1 DEF StageInv, Chain
  <2>3. \A i \in DOMAIN queue' : Below(FrameOf(f, K), FrameOf(queue'[i], K))
    BY <1>3, <2>1 DEF StageInv
  <2>4. \A y \in QueueOf(queue', K) : \E i \in DOMAIN queue' : y \in FrameOf(queue'[i], K)
    BY DEF QueueOf
  <2> QED  BY <2>2, <2>3, <2>4, StagesNow DEF Below
<1>12. ASSUME NEW K \in Kinds
       PROVE  /\ BufOf(K)' \subseteq BufOf(K) \cup FrameOf(f, K)
              /\ ~lost' => BufOf(K)' = BufOf(K) \cup FrameOf(f, K)
  BY <1>7, <1>9, <1>10
<1>13. Up(Bounded(buf, f.bytes))
  <2>1. Below(BufOf(k), QueueOf(queue, k)) /\ FrameOf(f, k) \subseteq QueueOf(queue, k)
    BY <1>4, <1>11
  <2> QED  BY <1>7, <1>9, <2>1 DEF Below
<1>14. SeqInv'
  <2>1. Up(replayBuf') /\ Up(liveBuf')
    BY <1>1, <1>2, <1>13 DEF buf
  <2>2. LastPrinted(unsent)' /\ Stretch(replay)' /\ Up(reader.bytes)'
    BY <1>1 DEF Flow, SeqInv, LastPrinted
  <2>3. \A i \in DOMAIN queue' : Up(queue'[i].bytes)
                              /\ (queue'[i].k = "replay" => Stretch(queue'[i].bytes) /\ queue'[i].bytes # <<>>)
    BY <1>3 DEF Flow, SeqInv
  <2> QED  BY <2>1, <2>2, <2>3 DEF SeqInv
<1>15. ASSUME NEW K \in Kinds
       PROVE  /\ Chain(Stages(K)') /\ Whole(Stages(K)') \subseteq Whole(Stages(K))
              /\ ~lost' => Whole(Stages(K)') = Whole(Stages(K))
              /\ K # k => Downstream(Stages(K)') = Downstream(Stages(K))
                            /\ Whole(Stages(K)') = Whole(Stages(K))
  <2>1. SourceOf(K)' = SourceOf(K) /\ ReaderOf(K)' = ReaderOf(K)
    BY <1>1 DEF SourceOf, ReaderOf
  <2>2. Downstream(Stages(K)) = Of(feed, K) \cup Of(buffered, K) \cup ChunksOf(chunks, K)
                                  \cup ReaderOf(K) \cup BufOf(K)
    BY StagesNow
  <2>3. Downstream(Stages(K)') = Of(feed, K) \cup Of(buffered, K) \cup ChunksOf(chunks, K)
                                   \cup ReaderOf(K) \cup BufOf(K)'
    BY <1>1, <2>1, StagesNext
  <2>4. Whole(Stages(K)) = Downstream(Stages(K)) \cup FrameOf(f, K) \cup QueueOf(queue', K) \cup SourceOf(K)
    <3>1. Whole(Stages(K)) = Downstream(Stages(K)) \cup QueueOf(queue, K) \cup SourceOf(K)
      BY StagesNow
    <3> QED  BY <1>4, <3>1
  <2>5. Whole(Stages(K)') = Downstream(Stages(K)') \cup QueueOf(queue', K) \cup SourceOf(K)
    BY <2>1, StagesNext
  <2>6. Chain(Stages(K)')
    <3>1. 1..7 = {1, 2, 3, 4, 5, 6, 7} /\ 5 + 1 = 6
      OBVIOUS
    <3>2. Stages(K)'[6] \subseteq Stages(K)[6] /\ Stages(K)'[5] \subseteq Stages(K)[5] \cup Stages(K)[6]
      BY <1>4, <1>12, StagesNow, StagesNext
    <3>3. \A i \in {1, 2, 3, 4, 7} : Stages(K)'[i] = Stages(K)[i]
      BY <1>1, <2>1, StagesNow, StagesNext
    <3>4. Below(BufOf(K)', QueueOf(queue', K))
      BY <1>4, <1>11, <1>12 DEF Below
    <3>5. Below(Stages(K)'[5], Stages(K)'[6])
      BY <3>4, StagesNext
    <3>6. \A i \in 1..7 : i # 5 => Stages(K)'[i] \subseteq Stages(K)[i]
      BY <3>1, <3>2, <3>3
    <3>7. Chain(Stages(K))
      BY DEF Flow, StageInv
    <3> QED  BY <3>1, <3>2, <3>5, <3>6, <3>7, ChainMove
  <2> QED  BY <1>10, <1>12, <2>2, <2>3, <2>4, <2>5, <2>6
<1>16. ASSUME NEW K \in Kinds
       PROVE  StageInv(K)'
  <2>1. StageInv(K)
    BY DEF Flow
  <2>2. ASSUME NEW i \in DOMAIN queue', NEW j \in DOMAIN queue', i < j
        PROVE  Below(FrameOf(queue'[i], K), FrameOf(queue'[j], K))
    <3>1. i + 1 < j + 1
      BY <1>3, <2>2
    <3> QED  BY <1>3, <2>1, <2>2, <3>1 DEF StageInv
  <2> QED  BY <1>1, <1>15, <2>1, <2>2 DEF StageInv
<1>17. OneReplay'
  <2>1. "replay" \in Kinds /\ OneReplay
    BY DEF Kinds, Flow
  <2>2. f.k = "replay" => FrameOf(f, "replay") # {}
    <3>1. f.k = "replay" => 1 \in DOMAIN f.bytes
      BY <1>5
    <3> QED  BY <3>1 DEF FrameOf, Range
  <2>3. CASE f.k # "replay"
    <3>1. QueueOf(queue', "replay") = QueueOf(queue, "replay")
      BY <1>4, <1>10, <1>8, <2>1, <2>3
    <3>2. /\ Downstream(Stages("replay"))' = Downstream(Stages("replay"))
          /\ Whole(Stages("replay"))' = Whole(Stages("replay"))
      BY <1>15, <1>8, <2>1, <2>3
    <3>3. \A i, j \in DOMAIN queue' : queue'[i].k = "replay" /\ queue'[j].k = "replay" => i = j
      <4> SUFFICES ASSUME NEW i \in DOMAIN queue', NEW j \in DOMAIN queue',
                          queue'[i].k = "replay", queue'[j].k = "replay"
                   PROVE  i = j
        OBVIOUS
      <4>1. i + 1 = j + 1
        BY <1>3, <2>1 DEF OneReplay
      <4> QED  BY <1>3, <4>1
    <3> QED  BY <1>1, <2>1, <3>1, <3>2, <3>3 DEF OneReplay
  <2>4. CASE f.k = "replay"
    <3>1. QueueOf(queue, "replay") # {}
      BY <1>4, <2>1, <2>2, <2>4
    <3>2. Downstream(Stages("replay")) = {} /\ client \notin {"absent", "added", "snapped"} /\ replay = <<>>
      BY <2>1, <3>1 DEF OneReplay
    <3>3. \A i \in DOMAIN queue' : queue'[i].k # "replay"
      BY <1>3, <2>1, <2>4 DEF OneReplay
    <3>4. QueueOf(queue', "replay") = {}
      BY <3>3 DEF QueueOf, FrameOf
    <3>5. Range(replayBuf) = {} /\ Of(feed, "replay") = {} /\ Of(buffered, "replay") = {}
          /\ ChunksOf(chunks, "replay") = {} /\ ReaderOf("replay") = {}
      BY <2>1, <3>2, StagesNow DEF BufOf
    <3>6. replayBuf = <<>>
      <4>1. replayBuf # <<>> => 1 \in DOMAIN replayBuf
        BY <1>2
      <4> QED  BY <3>5, <4>1, InRange
    <3>7. ReaderOf("replay")' = {} /\ SourceOf("replay")' = {}
      BY <1>1, <3>2, <3>5, EmptyRange DEF ReaderOf, SourceOf
    <3>8. BufOf("replay")' = Range(Bounded(<<>>, f.bytes)) /\ buf = <<>>
      BY <1>9, <1>8, <2>4, <3>6 DEF buf
    <3>9. Whole(Stages("replay")') = Range(Bounded(<<>>, f.bytes))
      BY <1>1, <2>1, <3>4, <3>5, <3>7, <3>8, StagesNext
    <3>10. Convex(Range(Bounded(<<>>, f.bytes)))
      BY <1>5, <1>7, <2>4, <3>8, StretchFacts
    <3>11. Convex(Whole(Stages("replay")))'
      BY <3>9, <3>10
    <3> QED  BY <1>1, <3>2, <3>3, <3>4, <3>11 DEF OneReplay
  <2> QED  BY <2>3, <2>4
<1>18. Gapless'
  <2>1. "live" \in Kinds /\ "replay" \in Kinds
    BY DEF Kinds
  <2> QED  BY <1>1, <1>15, <2>1 DEF Flow, Gapless
<1>19. /\ replayBuf' \in Seq(Byte) /\ liveBuf' \in Seq(Byte)
       /\ Len(replayBuf') <= BufferCap /\ Len(liveBuf') <= BufferCap
  BY <1>1, <1>2, <1>7 DEF buf
<1>20. Len(queue') <= Len(queue)
  BY <1>2, <1>3
<1> QED  BY <1>3, <1>14, <1>16, <1>17, <1>18, <1>19, <1>20 DEF Flow
-----------------------------------------------------------------------------
\* Where RingCopy puts the bytes.
LEMMA RingCopyFacts ==
  ASSUME NEW n \in Nat \ {0}, NEW buf, DOMAIN buf = 0..(n - 1), NEW at \in 0..(n - 1), NEW data, NEW i \in 0..(n - 1),
         NEW k \in Nat, k = IF i >= at THEN i - at + 1 ELSE i + n - at + 1
  PROVE  /\ DOMAIN RingCopy(buf, at, data) = 0..(n - 1)
         /\ RingCopy(buf, at, data)[i] = IF k <= Len(data) THEN data[k] ELSE buf[i]
<1>1. Cardinality(DOMAIN buf) = n
  <2>1. Cardinality(0..(n - 1)) = (n - 1) - 0 + 1
    BY FS_Interval
  <2> QED  BY <2>1
<1>2. ((i + n - at) % n) + 1 = k
  <2>1. i + n - at \in 0..(2 * n - 1)
    OBVIOUS
  <2>2. (i + n - at) % n = IF i + n - at < n THEN i + n - at ELSE (i + n - at) - n
    BY <2>1, SmallMod
  <2> QED  BY <2>2
<1> QED  BY <1>1, <1>2 DEF RingCopy

\* Where the d-th byte before the new head is: among the bytes written, or where it was.
LEMMA WriteIndex ==
  ASSUME NEW n \in Nat \ {0}, NEW hd \in Int, NEW len \in Int, NEW h \in Int, NEW d \in Int,
         NEW i \in Int, NEW k \in Int,
         0 <= hd, hd < n, 1 <= len, len <= n, 0 <= d, d < n,
         hd + len < n => h = hd + len, hd + len >= n => h = hd + len - n,
         d < h => i = h - 1 - d, d >= h => i = h - 1 - d + n,
         i >= hd => k = i - hd + 1, i < hd => k = i + n - hd + 1
  PROVE  /\ 0 <= i /\ i < n /\ 1 <= k
         /\ d < len => k = len - d
         /\ d >= len => /\ k > len
                        /\ d - len < hd => i = hd - 1 - (d - len)
                        /\ d - len >= hd => i = hd - 1 - (d - len) + n
OBVIOUS

\* A write of m bytes to the ring that holds the last ones of p.
LEMMA RingWriteFacts ==
  ASSUME NEW p \in Nat, NEW m \in Nat \ {0}, NEW r, RingHolds(r, p)
  PROVE  RingHolds(RingWrite(r, [i \in 1..m |-> p + i]), p + m)
<1>1. PICK out : out = [i \in 1..m |-> p + i]
  OBVIOUS
<1>2. PICK w : w = RingWrite(r, out)
  OBVIOUS
<1>3. PICK n : n = RingSize /\ n \in Nat \ {0}
  BY TerminalAssumption
<1>4. DOMAIN r.buf = 0..(n - 1)
  BY <1>3 DEF RingHolds
<1>5. Cardinality(DOMAIN r.buf) = n
  <2>1. Cardinality(0..(n - 1)) = (n - 1) - 0 + 1
    BY <1>3, FS_Interval
  <2> QED  BY <1>4, <1>3, <2>1
<1>6. out \in Seq(Nat) /\ Len(out) = m
  BY <1>1
<1>7. PICK hd : hd \in Int /\ hd = r.head /\ 0 <= hd /\ hd < n
  BY <1>3 DEF RingHolds
<1>8. PICK sz : sz \in Int /\ sz = r.size /\ (p < n => sz = p) /\ (p >= n => sz = n)
  BY <1>3 DEF RingHolds
<1>9. PICK tl : tl \in Int /\ tl = r.tail /\ (p < n => tl = 0) /\ (p >= n => tl = hd)
  BY <1>3, <1>7 DEF RingHolds
<1>10. p < n => hd = p
  BY <1>3, <1>7 DEF RingHolds
<1>11. PICK len : len = IF m > n THEN n ELSE m
  OBVIOUS
<1>12. len \in Int /\ (m > n => len = n) /\ (m <= n => len = m)
  BY <1>3, <1>11
<1>13. len \in Int /\ 1 <= len /\ len <= n /\ len <= m
  BY <1>3, <1>12
<1>14. PICK data : data = IF Len(out) > n THEN SubSeq(out, Len(out) - n + 1, Len(out)) ELSE out
  OBVIOUS
<1>15. Len(data) = len /\ \A k \in 1..len : data[k] = p + m - len + k
  <2>1. CASE m > n
    <3>1. data = SubSeq(out, m - n + 1, m) /\ len = n
      BY <1>3, <1>6, <1>12, <1>14, <2>1
    <3>2. Len(data) = n /\ \A k \in 1..n : data[k] = out[m - n + k]
      BY <1>3, <1>6, <2>1, <3>1
    <3>3. \A k \in 1..n : out[m - n + k] = p + (m - n + k)
      BY <1>1, <1>3, <2>1
    <3>4. \A k \in 1..n : p + (m - n + k) = p + m - n + k
      BY <1>3
    <3> QED  BY <3>1, <3>2, <3>3, <3>4
  <2>2. CASE ~(m > n)
    BY <1>1, <1>3, <1>6, <1>12, <1>14, <2>2
  <2> QED  BY <2>1, <2>2
<1>16. PICK kept : kept = IF len < n - sz THEN len ELSE n - sz
  OBVIOUS
<1>17. kept \in Int /\ (len < n - sz => kept = len) /\ (len >= n - sz => kept = n - sz)
  BY <1>3, <1>8, <1>13, <1>16
<1>18. PICK h : h = IF hd + len < n THEN hd + len ELSE hd + len - n
  OBVIOUS
<1>19. h \in Int /\ (hd + len < n => h = hd + len) /\ (hd + len >= n => h = hd + len - n)
  BY <1>3, <1>7, <1>13, <1>18
<1>20. (hd + len) % n = h
  <2>1. hd + len \in 0..(2 * n - 1)
    BY <1>3, <1>7, <1>13
  <2>2. (hd + len) % n = IF hd + len < n THEN hd + len ELSE (hd + len) - n
    BY <1>3, <2>1, SmallMod
  <2> QED  BY <1>3, <1>7, <1>13, <2>2, <1>18
<1>21. SmallerOf(len, n - sz) = kept
  BY <1>16 DEF SmallerOf
<1>22. /\ w.buf = RingCopy(r.buf, hd, data) /\ w.head = h
       /\ w.tail = IF len > kept THEN h ELSE tl
       /\ w.size = sz + kept
  BY <1>2, <1>5, <1>7, <1>8, <1>9, <1>14, <1>15, <1>20, <1>21 DEF RingWrite
<1>23. /\ 0 <= h /\ h < n
       /\ p + m < n => sz + kept = p + m /\ h = p + m /\ len <= kept /\ tl = 0
       /\ p + m >= n => sz + kept = n /\ (len > kept \/ tl = h)
  <2>1. /\ p < n => hd = p /\ sz = p /\ tl = 0
        /\ p >= n => sz = n /\ tl = hd
    BY <1>8, <1>9, <1>10
  <2>2. CASE p < n
    BY <1>3, <1>7, <1>8, <1>12, <1>17, <1>19, <2>1, <2>2
  <2>3. CASE p >= n
    BY <1>3, <1>7, <1>8, <1>12, <1>17, <1>19, <2>1, <2>3
  <2> QED  BY <1>3, <2>2, <2>3
<1>24. DOMAIN w.buf = 0..(n - 1)
  BY <1>4, <1>22 DEF RingCopy
<1>25. ASSUME NEW d \in 0..(w.size - 1)
       PROVE  w.buf[IF d < w.head THEN w.head - 1 - d ELSE w.head - 1 - d + n] = p + m - d
  <2>1. d \in Int /\ 0 <= d /\ d < n /\ (p + m < n => d < p + m)
    BY <1>3, <1>22, <1>23, <1>25
  <2>2. PICK i : i = IF d < h THEN h - 1 - d ELSE h - 1 - d + n
    OBVIOUS
  <2>3. i \in Int /\ (d < h => i = h - 1 - d) /\ (d >= h => i = h - 1 - d + n)
    BY <1>3, <1>19, <2>1, <2>2
  <2>4. PICK k : k = IF i >= hd THEN i - hd + 1 ELSE i + n - hd + 1
    OBVIOUS
  <2>5. k \in Int /\ (i >= hd => k = i - hd + 1) /\ (i < hd => k = i + n - hd + 1)
    BY <1>3, <1>7, <2>3, <2>4
  <2>6. /\ 0 <= i /\ i < n /\ 1 <= k
        /\ d < len => k = len - d
        /\ d >= len => /\ k > len
                       /\ d - len < hd => i = hd - 1 - (d - len)
                       /\ d - len >= hd => i = hd - 1 - (d - len) + n
    BY <1>3, <1>7, <1>13, <1>19, <2>1, <2>3, <2>5, WriteIndex
  <2>7. w.buf[i] = IF k <= len THEN data[k] ELSE r.buf[i]
    <3>1. k \in Nat /\ k = IF i >= hd THEN i - hd + 1 ELSE i + n - hd + 1
      BY <2>4, <2>5, <2>6
    <3>2. i \in 0..(n - 1) /\ hd \in 0..(n - 1)
      BY <1>3, <1>7, <2>3, <2>6
    <3>3. RingCopy(r.buf, hd, data)[i] = IF k <= Len(data) THEN data[k] ELSE r.buf[i]
      BY <1>3, <1>4, <3>1, <3>2, RingCopyFacts
    <3> QED  BY <1>15, <1>22, <3>3
  <2>8. w.buf[IF d < w.head THEN w.head - 1 - d ELSE w.head - 1 - d + n] = w.buf[i]
    BY <1>22, <2>2
  <2>9. CASE d < len
    <3>1. k \in 1..len /\ k = len - d
      BY <1>13, <2>1, <2>5, <2>6, <2>9
    <3> QED  BY <1>13, <1>15, <2>1, <2>7, <2>8, <3>1
  <2>10. CASE d >= len
    <3>1. len = m
      BY <1>3, <1>12, <2>1, <2>10
    <3>2. d - len \in 0..(r.size - 1)
      BY <1>3, <1>8, <2>1, <2>10, <3>1, <1>13
    <3>3. i = RingAt(r.head, d - len)
      BY <1>3, <1>7, <1>13, <2>1, <2>6, <2>10 DEF RingAt
    <3>4. r.buf[i] = p - (d - len)
      BY <3>2, <3>3 DEF RingHolds
    <3> QED  BY <1>13, <2>1, <2>5, <2>6, <2>7, <2>8, <2>10, <3>1, <3>4
  <2> QED  BY <1>13, <2>1, <2>9, <2>10
<1>26. w.tail = IF p + m < n THEN 0 ELSE w.head
  BY <1>3, <1>9, <1>13, <1>17, <1>19, <1>22, <1>23
<1>27. w.head \in 0..(n - 1) /\ (p + m < n => w.head = p + m) /\ w.size = IF p + m < n THEN p + m ELSE n
  BY <1>3, <1>19, <1>22, <1>23
<1>28. \A d \in 0..(w.size - 1) : w.buf[RingAt(w.head, d)] = p + m - d
  BY <1>3, <1>25 DEF RingAt
<1> QED  BY <1>3, <1>1, <1>2, <1>24, <1>26, <1>27, <1>28 DEF RingHolds

\* A tail of the ring is the last bytes printed.
LEMMA RingTail ==
  ASSUME RingInv, printed \in Nat, NEW k \in Nat, NEW m,
         m = IF k < ring.size THEN k ELSE ring.size
  PROVE  /\ m \in Nat /\ m <= printed
         /\ SnapshotTail(ring, k) = [i \in 1..m |-> printed - m + i]
<1>1. RingSize \in Nat \ {0}
  BY TerminalAssumption
<1>2. PICK hd \in Int : hd = ring.head /\ 0 <= hd /\ hd < RingSize
  BY <1>1 DEF RingInv, RingHolds
<1>3. PICK sz \in Int : sz = ring.size /\ (printed < RingSize => sz = printed) /\ (printed >= RingSize => sz = RingSize)
  BY <1>1 DEF RingInv, RingHolds
<1>4. PICK tl \in Int : /\ tl = ring.tail /\ (printed < RingSize => tl = 0 /\ hd = printed)
                        /\ (printed >= RingSize => tl = hd)
  BY <1>1, <1>2 DEF RingInv, RingHolds
<1>5. m \in Nat /\ m <= sz /\ sz <= printed /\ sz <= RingSize
  BY <1>1, <1>3
<1>6. Cardinality(DOMAIN ring.buf) = RingSize
  <2>1. Cardinality(0..(RingSize - 1)) = (RingSize - 1) - 0 + 1
    BY <1>1, FS_Interval
  <2> QED  BY <1>1, <2>1 DEF RingInv, RingHolds
<1>7. SmallerOf(k, ring.size) = m
  BY DEF SmallerOf
<1>8. SnapshotTail(ring, k) = [i \in 1..m |-> ring.buf[(tl + sz - m + i - 1) % RingSize]]
  BY <1>3, <1>4, <1>6, <1>7 DEF SnapshotTail
<1>9. ASSUME NEW i \in 1..m
      PROVE  ring.buf[(tl + sz - m + i - 1) % RingSize] = printed - m + i
  <2>1. PICK a \in Int : a = tl + sz - m + i - 1 /\ a \in 0..(2 * RingSize - 1)
    BY <1>1, <1>2, <1>3, <1>4, <1>5
  <2>2. a % RingSize = IF a < RingSize THEN a ELSE a - RingSize
    BY <1>1, <2>1, SmallMod
  <2>3. PICK d \in Int : d = m - i /\ d \in 0..(ring.size - 1)
    BY <1>3, <1>5
  <2>4. RingAt(ring.head, d) = IF a < RingSize THEN a ELSE a - RingSize
    <3>1. CASE printed < RingSize
      <4>1. tl = 0 /\ hd = printed /\ sz = printed
        BY <1>3, <1>4, <3>1
      <4>2. d < hd /\ a = hd - 1 - d /\ a < RingSize
        BY <1>1, <1>2, <1>5, <2>1, <2>3, <3>1, <4>1
      <4> QED  BY <1>1, <1>2, <2>1, <2>3, <4>2 DEF RingAt
    <3>2. CASE printed >= RingSize
      BY <1>1, <1>2, <1>3, <1>4, <1>5, <2>1, <2>3, <3>2 DEF RingAt
    <3> QED  BY <1>1, <3>1, <3>2
  <2>5. ring.buf[RingAt(ring.head, d)] = printed - d
    BY <2>3 DEF RingInv, RingHolds
  <2> QED  BY <1>5, <2>1, <2>2, <2>3, <2>4, <2>5
<1> QED  BY <1>3, <1>5, <1>8, <1>9
-----------------------------------------------------------------------------
\* The two upper stages of a chain, and a chain with new ones.
LEMMA ChainParts ==
  ASSUME NEW t, Chain(t)
  PROVE  Below(Downstream(t), t[6]) /\ Below(Downstream(t), t[7]) /\ Below(t[6], t[7])
<1>1. \A i \in 1..5 : Below(t[i], t[6]) /\ Below(t[i], t[7])
  BY DEF Chain
<1>2. Below(t[6], t[7])
  BY DEF Chain
<1> QED  BY <1>1, <1>2 DEF Below, Downstream

\* A chain with other upper stages, above all that lies below them.
LEMMA ChainTop ==
  ASSUME NEW t, NEW u, Chain(t), \A i \in 1..5 : u[i] = t[i],
         Below(Downstream(t), u[6]), Below(Downstream(t), u[7]), Below(u[6], u[7])
  PROVE  Chain(u)
<1> SUFFICES ASSUME NEW i \in 1..7, NEW j \in 1..7, i < j
             PROVE  Below(u[i], u[j])
  BY DEF Chain
<1>1. CASE j \in 1..5
  <2>1. i \in 1..5
    BY <1>1
  <2> QED  BY <1>1, <2>1 DEF Chain
<1>2. CASE i \in 1..5 /\ j \in {6, 7}
  <2>1. u[i] \subseteq Downstream(t)
    BY <1>2 DEF Downstream
  <2> QED  BY <1>2, <2>1 DEF Below
<1>3. CASE i = 6 /\ j = 7
  BY <1>3
<1> QED  BY <1>1, <1>2, <1>3

\* A step of the daemon: what lies below the queue stays, what lies above is in order.
LEMMA DaemonStages ==
  ASSUME Flow, UNCHANGED <<replayBuf, liveBuf, reader, chunks, buffered, feed>>,
         printed \in Nat, printed' \in Nat, printed <= printed',
         \A K \in Kinds :
           /\ Below(Downstream(Stages(K)), QueueOf(queue', K)) /\ Below(Downstream(Stages(K)), SourceOf(K)')
           /\ Below(QueueOf(queue', K), SourceOf(K)')
           /\ QueueOf(queue', K) \cup SourceOf(K)' \subseteq 1..printed'
           /\ \A i, j \in DOMAIN queue' : i < j => Below(FrameOf(queue'[i], K), FrameOf(queue'[j], K))
  PROVE  \A K \in Kinds :
           /\ StageInv(K)' /\ Downstream(Stages(K)') = Downstream(Stages(K))
           /\ Whole(Stages(K)') = Downstream(Stages(K)) \cup QueueOf(queue', K) \cup SourceOf(K)'
<1> SUFFICES ASSUME NEW K \in Kinds
             PROVE  /\ StageInv(K)' /\ Downstream(Stages(K)') = Downstream(Stages(K))
                    /\ Whole(Stages(K)') = Downstream(Stages(K)) \cup QueueOf(queue', K) \cup SourceOf(K)'
  OBVIOUS
<1>1. ReaderOf(K)' = ReaderOf(K) /\ BufOf(K)' = BufOf(K)
  BY DEF ReaderOf, BufOf
<1>2. Downstream(Stages(K)') = Downstream(Stages(K))
  BY <1>1, StagesNow, StagesNext
<1>3. Whole(Stages(K)') = Downstream(Stages(K)) \cup QueueOf(queue', K) \cup SourceOf(K)'
  BY <1>2, StagesNext
<1>4. StageInv(K)
  BY DEF Flow
<1>5. \A i \in 1..5 : Stages(K)'[i] = Stages(K)[i]
  <2>1. 1..5 = {1, 2, 3, 4, 5}
    OBVIOUS
  <2> QED  BY <1>1, <2>1, StagesNow, StagesNext
<1>6. Chain(Stages(K)')
  <2>1. /\ Below(Downstream(Stages(K)), Stages(K)'[6]) /\ Below(Downstream(Stages(K)), Stages(K)'[7])
        /\ Below(Stages(K)'[6], Stages(K)'[7])
    BY StagesNext
  <2>2. Chain(Stages(K))
    BY <1>4 DEF StageInv
  <2> QED  BY <1>5, <2>1, <2>2, ChainTop
<1>7. Whole(Stages(K)') \subseteq 1..printed'
  <2>1. Downstream(Stages(K)) \subseteq 1..printed
    BY <1>4, StagesNow DEF StageInv
  <2>2. 1..printed \subseteq 1..printed'
    OBVIOUS
  <2> QED  BY <1>3, <2>1, <2>2
<1> QED  BY <1>2, <1>3, <1>4, <1>6, <1>7 DEF StageInv

\* What DaemonStages asks, where neither the queue nor the source changed.
LEMMA DaemonSame ==
  ASSUME Flow, NEW K \in Kinds, printed \in Nat, printed' \in Nat, printed <= printed',
         queue' = queue, SourceOf(K)' = SourceOf(K)
  PROVE  /\ Below(Downstream(Stages(K)), QueueOf(queue', K)) /\ Below(Downstream(Stages(K)), SourceOf(K)')
         /\ Below(QueueOf(queue', K), SourceOf(K)')
         /\ QueueOf(queue', K) \cup SourceOf(K)' \subseteq 1..printed'
         /\ \A i, j \in DOMAIN queue' : i < j => Below(FrameOf(queue'[i], K), FrameOf(queue'[j], K))
<1>1. StageInv(K)
  BY DEF Flow
<1>2. Chain(Stages(K)) /\ Whole(Stages(K)) \subseteq 1..printed
  BY <1>1 DEF StageInv
<1>3. /\ Below(Downstream(Stages(K)), Stages(K)[6]) /\ Below(Downstream(Stages(K)), Stages(K)[7])
      /\ Below(Stages(K)[6], Stages(K)[7])
  BY <1>2, ChainParts
<1>4. Stages(K)[6] = QueueOf(queue, K) /\ Stages(K)[7] = SourceOf(K)
      /\ Whole(Stages(K)) = Downstream(Stages(K)) \cup QueueOf(queue, K) \cup SourceOf(K)
  BY StagesNow
<1>5. 1..printed \subseteq 1..printed'
  OBVIOUS
<1>6. \A i, j \in DOMAIN queue' : i < j => Below(FrameOf(queue'[i], K), FrameOf(queue'[j], K))
  BY <1>1 DEF StageInv
<1> QED  BY <1>2, <1>3, <1>4, <1>5, <1>6

\* The shell prints: the new bytes are above all the others.
LEMMA PumpFlow ==
  ASSUME Flow, DataTypes, printed \in Nat, PumpRead
  PROVE  Flow' /\ unsent' \in Seq(Byte) /\ printed' \in 0..MaxPrinted
<1>1. PICK m \in 1..MaxChunk :
        /\ printed + m <= MaxPrinted /\ printed' = printed + m
        /\ unsent' = [i \in 1..m |-> printed + i]
  BY DEF PumpRead
<1>2. unsent = <<>> /\ UNCHANGED <<client, replay, from, queue, replayBuf, liveBuf, reader, chunks, buffered,
                                   feed, browser, lost>>
  BY DEF PumpRead, daemonVars, sessVars, readerVars, channelVars, coalVars, connVars
<1>3. m \in Nat /\ m >= 1 /\ printed' \in Nat /\ printed <= printed' /\ printed' \in 0..MaxPrinted
  BY <1>1, TerminalAssumption
<1>4. unsent' \in Seq(Byte) /\ Len(unsent') = m /\ DOMAIN unsent' = 1..m
  <2>1. \A i \in 1..m : printed + i \in Byte
    BY <1>1, <1>3, TerminalAssumption DEF Byte
  <2> QED  BY <1>1, <1>3, <2>1
<1>5. \A i \in DOMAIN unsent' : unsent'[i] = printed' - Len(unsent') + i
  BY <1>1, <1>3, <1>4
<1>6. Range(unsent') = (printed + 1)..printed'
  <2>1. Range(unsent') = (printed' - Len(unsent') + 1)..printed'
    BY <1>3, <1>4, <1>5, LastPrintedFacts
  <2>2. printed' - Len(unsent') + 1 = printed + 1
    BY <1>1, <1>3, <1>4
  <2> QED  BY <2>1, <2>2
<1>7. SeqInv'
  BY <1>2, <1>5 DEF Flow, SeqInv, LastPrinted
<1>8. ASSUME NEW K \in Kinds
      PROVE  /\ Below(Downstream(Stages(K)), QueueOf(queue', K)) /\ Below(Downstream(Stages(K)), SourceOf(K)')
             /\ Below(QueueOf(queue', K), SourceOf(K)')
             /\ QueueOf(queue', K) \cup SourceOf(K)' \subseteq 1..printed'
             /\ \A i, j \in DOMAIN queue' : i < j => Below(FrameOf(queue'[i], K), FrameOf(queue'[j], K))
  <2>1. CASE K # "live"
    <3>1. SourceOf(K)' = SourceOf(K)
      BY <1>2, <2>1 DEF SourceOf
    <3> QED  BY <1>2, <1>3, <3>1, DaemonSame
  <2>2. CASE K = "live"
    <3>1. SourceOf(K)' = (printed + 1)..printed'
      BY <1>6, <2>2 DEF SourceOf
    <3>2. StageInv(K)
      BY DEF Flow
    <3>3. Downstream(Stages(K)) \subseteq 1..printed /\ QueueOf(queue, K) \subseteq 1..printed
      BY <3>2, StagesNow DEF StageInv
    <3>4. Chain(Stages(K))
      BY <3>2 DEF StageInv
    <3>5. Below(Downstream(Stages(K)), QueueOf(queue, K))
      BY <3>4, ChainParts, StagesNow
    <3>6. \A x \in 1..printed, y \in (printed + 1)..printed' : x < y
      BY <1>3
    <3>7. 1..printed \subseteq 1..printed' /\ (printed + 1)..printed' \subseteq 1..printed'
      BY <1>3
    <3>8. Below(Downstream(Stages(K)), SourceOf(K)') /\ Below(QueueOf(queue, K), SourceOf(K)')
      BY <3>1, <3>3, <3>6 DEF Below
    <3>9. \A i, j \in DOMAIN queue' : i < j => Below(FrameOf(queue'[i], K), FrameOf(queue'[j], K))
      BY <1>2, <3>2 DEF StageInv
    <3> QED  BY <1>2, <3>1, <3>3, <3>5, <3>7, <3>8, <3>9
  <2> QED  BY <2>1, <2>2
<1>9. \A K \in Kinds :
        /\ StageInv(K)' /\ Downstream(Stages(K)') = Downstream(Stages(K))
        /\ Whole(Stages(K)') = Downstream(Stages(K)) \cup QueueOf(queue', K) \cup SourceOf(K)'
  BY <1>2, <1>3, <1>8, DaemonStages
<1>10. "live" \in Kinds /\ "replay" \in Kinds
  BY DEF Kinds
<1>11. /\ Downstream(Stages("replay"))' = Downstream(Stages("replay"))
       /\ Whole(Stages("replay"))' = Whole(Stages("replay"))
  BY <1>2, <1>9, <1>10, StagesNow DEF SourceOf
<1>12. OneReplay'
  BY <1>2, <1>11 DEF Flow, OneReplay
<1>13. Whole(Stages("live"))' = Whole(Stages("live")) \cup (printed + 1)..printed'
  <2>1. SourceOf("live") = {} /\ SourceOf("live")' = (printed + 1)..printed'
    BY <1>2, <1>6, EmptyRange DEF SourceOf
  <2>2. Whole(Stages("live")) = Downstream(Stages("live")) \cup QueueOf(queue, "live")
    BY <1>10, <2>1, StagesNow
  <2> QED  BY <1>2, <1>9, <1>10, <2>1, <2>2
<1>14. Gapless'
  <2> SUFFICES ASSUME client \in {"snapped", "attached"}, ~lost, NEW y \in from..printed'
               PROVE  y \in Whole(Stages("live"))' \cup Whole(Stages("replay"))'
    BY <1>2 DEF Gapless
  <2>1. CASE y <= printed
    <3>1. y \in from..printed
      BY <2>1, <1>3 DEF DataTypes
    <3> QED  BY <1>11, <1>13, <3>1 DEF Flow, Gapless
  <2>2. CASE ~(y <= printed)
    <3>1. y \in (printed + 1)..printed'
      BY <2>2, <1>3 DEF DataTypes
    <3> QED  BY <1>13, <3>1
  <2> QED  BY <2>1, <2>2
<1> QED  BY <1>3, <1>4, <1>7, <1>9, <1>12, <1>14 DEF Flow

\* broadcast: the pump's bytes join the queue, or are dropped for good.
LEMMA BroadcastFlow ==
  ASSUME Flow, DataTypes, printed \in Nat, Broadcast, Len(queue) <= QueueCap
  PROVE  Flow' /\ queue' \in Seq(Frames) /\ Len(queue') <= QueueCap /\ unsent' \in Seq(Byte)
<1> DEFINE f == [k |-> "live", bytes |-> unsent]
<1>1. unsent' = <<>> /\ UNCHANGED <<printed, client, replay, from, replayBuf, liveBuf, reader, chunks,
                                    buffered, feed, browser>>
  BY DEF Broadcast, sessVars, readerVars, channelVars, coalVars, connVars
<1>2. \/ queue' = queue /\ (client \notin {"snapped", "attached"} \/ lost') /\ (lost => lost')
      \/ queue' = Append(queue, f) /\ Len(queue) < QueueCap /\ lost' = lost
  BY DEF Broadcast, InClients
<1>3. queue \in Seq(Frames) /\ unsent \in Seq(Byte) /\ Len(queue) \in Nat /\ DOMAIN queue = 1..Len(queue)
      /\ QueueCap \in Nat
  BY TerminalAssumption DEF DataTypes
<1>4. f \in Frames /\ f.k = "live" /\ f.bytes = unsent
  BY <1>3 DEF Frames, Byte
<1>5. Up(unsent)
  BY <1>3, LastPrintedFacts DEF Flow, SeqInv, LastPrinted
<1> HIDE DEF f
<1>6. \A K \in Kinds : FrameOf(f, K) = IF K = "live" THEN SourceOf(K) ELSE {}
  BY <1>4 DEF FrameOf, SourceOf, Kinds
<1>7. \A K \in Kinds : SourceOf(K)' = IF K = "live" THEN {} ELSE SourceOf(K)
  BY <1>1, EmptyRange DEF SourceOf, Kinds
<1>8. CASE queue' = queue /\ (client \notin {"snapped", "attached"} \/ lost') /\ (lost => lost')
  <2>1. ASSUME NEW K \in Kinds
        PROVE  /\ Below(Downstream(Stages(K)), QueueOf(queue', K)) /\ Below(Downstream(Stages(K)), SourceOf(K)')
               /\ Below(QueueOf(queue', K), SourceOf(K)')
               /\ QueueOf(queue', K) \cup SourceOf(K)' \subseteq 1..printed'
               /\ \A i, j \in DOMAIN queue' : i < j => Below(FrameOf(queue'[i], K), FrameOf(queue'[j], K))
    <3>1. StageInv(K)
      BY DEF Flow
    <3>2. Chain(Stages(K)) /\ Whole(Stages(K)) \subseteq 1..printed
      BY <3>1 DEF StageInv
    <3>3. SourceOf(K)' \subseteq SourceOf(K)
      BY <1>7
    <3>4. /\ Below(Downstream(Stages(K)), QueueOf(queue, K)) /\ Below(Downstream(Stages(K)), SourceOf(K))
          /\ Below(QueueOf(queue, K), SourceOf(K))
      BY <3>2, ChainParts, StagesNow
    <3>5. QueueOf(queue, K) \cup SourceOf(K) \subseteq 1..printed
      BY <3>2, StagesNow
    <3>6. \A i, j \in DOMAIN queue' : i < j => Below(FrameOf(queue'[i], K), FrameOf(queue'[j], K))
      BY <1>8, <3>1 DEF StageInv
    <3> QED  BY <1>1, <1>8, <3>3, <3>4, <3>5, <3>6 DEF Below
  <2>2. \A K \in Kinds :
          /\ StageInv(K)' /\ Downstream(Stages(K)') = Downstream(Stages(K))
          /\ Whole(Stages(K)') = Downstream(Stages(K)) \cup QueueOf(queue', K) \cup SourceOf(K)'
    BY <1>1, <2>1, DaemonStages
  <2>3. SeqInv'
    BY <1>1, <1>8 DEF Flow, SeqInv, LastPrinted
  <2>4. "replay" \in Kinds
    BY DEF Kinds
  <2>5. /\ Downstream(Stages("replay"))' = Downstream(Stages("replay"))
        /\ Whole(Stages("replay"))' = Whole(Stages("replay"))
    BY <1>7, <1>8, <2>2, <2>4, StagesNow
  <2>6. OneReplay'
    BY <1>1, <1>8, <2>5 DEF Flow, OneReplay
  <2>7. Gapless'
    BY <1>1, <1>8 DEF Gapless
  <2> QED  BY <1>1, <1>3, <1>8, <2>2, <2>3, <2>6, <2>7 DEF Flow
<1>9. CASE queue' = Append(queue, f) /\ Len(queue) < QueueCap /\ lost' = lost
  <2>1. /\ queue' \in Seq(Frames) /\ Len(queue') = Len(queue) + 1 /\ DOMAIN queue' = 1..(Len(queue) + 1)
        /\ \A i \in DOMAIN queue : queue'[i] = queue[i]
        /\ queue'[Len(queue) + 1] = f
    BY <1>3, <1>4, <1>9, QueueAppend DEF Kinds
  <2>2. ASSUME NEW K \in Kinds
        PROVE  /\ QueueOf(queue', K) = QueueOf(queue, K) \cup FrameOf(f, K)
               /\ \A i \in DOMAIN queue : FrameOf(queue[i], K) \subseteq QueueOf(queue, K)
    BY <1>3, <1>4, <1>9, QueueAppend
  <2>3. ASSUME NEW K \in Kinds
        PROVE  /\ Below(Downstream(Stages(K)), QueueOf(queue', K)) /\ Below(Downstream(Stages(K)), SourceOf(K)')
               /\ Below(QueueOf(queue', K), SourceOf(K)')
               /\ QueueOf(queue', K) \cup SourceOf(K)' \subseteq 1..printed'
               /\ \A i, j \in DOMAIN queue' : i < j => Below(FrameOf(queue'[i], K), FrameOf(queue'[j], K))
    <3>1. StageInv(K)
      BY DEF Flow
    <3>2. Chain(Stages(K)) /\ Whole(Stages(K)) \subseteq 1..printed
      BY <3>1 DEF StageInv
    <3>3. /\ SourceOf(K)' \subseteq SourceOf(K) /\ FrameOf(f, K) \subseteq SourceOf(K)
          /\ FrameOf(f, K) = {} \/ SourceOf(K)' = {}
      BY <1>6, <1>7
    <3>4. /\ Below(Downstream(Stages(K)), QueueOf(queue, K)) /\ Below(Downstream(Stages(K)), SourceOf(K))
          /\ Below(QueueOf(queue, K), SourceOf(K))
      BY <3>2, ChainParts, StagesNow
    <3>5. QueueOf(queue, K) \cup SourceOf(K) \subseteq 1..printed
      BY <3>2, StagesNow
    <3>6. \A i, j \in DOMAIN queue' : i < j => Below(FrameOf(queue'[i], K), FrameOf(queue'[j], K))
      <4> SUFFICES ASSUME NEW i \in DOMAIN queue', NEW j \in DOMAIN queue', i < j
                   PROVE  Below(FrameOf(queue'[i], K), FrameOf(queue'[j], K))
        OBVIOUS
      <4>1. i \in DOMAIN queue
        BY <1>3, <2>1
      <4>2. CASE j \in DOMAIN queue
        BY <2>1, <3>1, <4>1, <4>2 DEF StageInv
      <4>3. CASE j \notin DOMAIN queue
        <5>1. j = Len(queue) + 1
          BY <1>3, <2>1, <4>3
        <5>2. queue'[j] = f /\ queue'[i] = queue[i]
          BY <2>1, <4>1, <5>1
        <5>3. FrameOf(queue[i], K) \subseteq QueueOf(queue, K)
          BY <2>2, <4>1
        <5> QED  BY <3>3, <3>4, <5>2, <5>3 DEF Below
      <4> QED  BY <4>2, <4>3
    <3>7. /\ Below(Downstream(Stages(K)), QueueOf(queue', K)) /\ Below(Downstream(Stages(K)), SourceOf(K)')
          /\ Below(QueueOf(queue', K), SourceOf(K)')
      BY <2>2, <3>3, <3>4 DEF Below
    <3>8. QueueOf(queue', K) \cup SourceOf(K)' \subseteq 1..printed
      BY <2>2, <3>3, <3>5
    <3> QED  BY <1>1, <3>6, <3>7, <3>8
  <2>4. \A K \in Kinds :
          /\ StageInv(K)' /\ Downstream(Stages(K)') = Downstream(Stages(K))
          /\ Whole(Stages(K)') = Downstream(Stages(K)) \cup QueueOf(queue', K) \cup SourceOf(K)'
    BY <1>1, <2>3, DaemonStages
  <2>5. SeqInv'
    <3>1. \A i \in DOMAIN queue' : (i \in DOMAIN queue /\ queue'[i] = queue[i]) \/ queue'[i] = f
      BY <1>3, <2>1
    <3>2. \A i \in DOMAIN queue' : /\ Up(queue'[i].bytes)
                                   /\ queue'[i].k = "replay" => Stretch(queue'[i].bytes) /\ queue'[i].bytes # <<>>
      BY <1>4, <1>5, <3>1 DEF Flow, SeqInv
    <3>3. LastPrinted(unsent)'
      BY <1>1 DEF LastPrinted
    <3> QED  BY <1>1, <3>2, <3>3 DEF Flow, SeqInv
  <2>6. "replay" \in Kinds /\ "live" \in Kinds
    BY DEF Kinds
  <2>7. \A K \in Kinds : Whole(Stages(K)') = Whole(Stages(K))
    <3> SUFFICES ASSUME NEW K \in Kinds  PROVE Whole(Stages(K)') = Whole(Stages(K))
      OBVIOUS
    <3>1. FrameOf(f, K) \cup SourceOf(K)' = SourceOf(K)
      BY <1>6, <1>7
    <3>2. Whole(Stages(K)) = Downstream(Stages(K)) \cup QueueOf(queue, K) \cup SourceOf(K)
      BY StagesNow
    <3> QED  BY <2>2, <2>4, <3>1, <3>2
  <2>8. QueueOf(queue', "replay") = QueueOf(queue, "replay")
    BY <1>6, <2>2, <2>6
  <2>9. \A i, j \in DOMAIN queue' : queue'[i].k = "replay" /\ queue'[j].k = "replay" => i = j
    <3>1. \A i \in DOMAIN queue' : queue'[i].k = "replay" => i \in DOMAIN queue /\ queue'[i] = queue[i]
      BY <1>3, <1>4, <2>1
    <3> QED  BY <3>1 DEF Flow, OneReplay
  <2>10. Downstream(Stages("replay"))' = Downstream(Stages("replay")) /\ Whole(Stages("replay"))' = Whole(Stages("replay"))
    BY <2>4, <2>6, <2>7
  <2>11. OneReplay'
    BY <1>1, <2>8, <2>9, <2>10 DEF Flow, OneReplay
  <2>12. Gapless'
    BY <1>1, <1>9, <2>6, <2>7 DEF Flow, Gapless
  <2>13. Len(queue') <= QueueCap
    BY <1>3, <1>9, <2>1
  <2> QED  BY <1>1, <2>1, <2>4, <2>5, <2>11, <2>12, <2>13 DEF Flow
<1> QED  BY <1>2, <1>8, <1>9

\* The snapshot: the last bytes printed, for a viewer that has no replay yet.
LEMMA SnapshotFlow ==
  ASSUME Flow, DataTypes, RingInv, printed \in 0..MaxPrinted, TakeSnapshot
  PROVE  Flow' /\ replay' \in Seq(Byte) /\ from' \in Int
<1>1. /\ client = "added" /\ client' = "snapped" /\ replay' = Snapshot(ring) /\ from' = printed - ring.size + 1
      /\ UNCHANGED <<printed, unsent, queue, replayBuf, liveBuf, reader, chunks, buffered, feed, browser, lost>>
  BY DEF TakeSnapshot, shellVars, sessVars, readerVars, channelVars, coalVars, connVars
<1>2. PICK n : n = ring.size /\ n \in Nat
  BY TerminalAssumption DEF RingInv, RingHolds
<1>3. printed \in Nat /\ n <= printed /\ replay' = [i \in 1..n |-> printed - n + i]
  <2>1. printed \in Nat /\ n = IF n < ring.size THEN n ELSE ring.size
    BY <1>2, TerminalAssumption
  <2>2. n <= printed /\ SnapshotTail(ring, n) = [i \in 1..n |-> printed - n + i]
    BY <1>2, <2>1, RingTail
  <2> QED  BY <1>1, <1>2, <2>1, <2>2 DEF Snapshot
<1>4. replay' \in Seq(Byte) /\ Len(replay') = n /\ DOMAIN replay' = 1..n
  <2>1. n \in Nat /\ printed \in Nat /\ n <= printed /\ printed <= MaxPrinted /\ MaxPrinted \in Nat
    BY <1>2, <1>3, TerminalAssumption
  <2>2. \A i \in 1..n : printed - n + i \in 1..MaxPrinted
    BY <2>1
  <2>3. \A i \in 1..n : printed - n + i \in Byte
    BY <2>2 DEF Byte
  <2> QED  BY <1>2, <1>3, <2>3
<1>5. \A i \in DOMAIN replay' : replay'[i] = printed - Len(replay') + i
  BY <1>3, <1>4
<1>6. Stretch(replay') /\ Range(replay') \subseteq 1..printed /\ Range(replay') = from'..printed
  <2>1. Range(replay') = (printed - Len(replay') + 1)..printed /\ Stretch(replay') /\ Range(replay') \subseteq 1..printed
    BY <1>3, <1>4, <1>5, LastPrintedFacts
  <2> QED  BY <1>1, <1>2, <1>4, <2>1
<1>7. QueueOf(queue, "replay") = {} /\ Downstream(Stages("replay")) = {}
  BY <1>1 DEF Flow, OneReplay
<1>8. ASSUME NEW K \in Kinds
      PROVE  /\ Below(Downstream(Stages(K)), QueueOf(queue', K)) /\ Below(Downstream(Stages(K)), SourceOf(K)')
             /\ Below(QueueOf(queue', K), SourceOf(K)')
             /\ QueueOf(queue', K) \cup SourceOf(K)' \subseteq 1..printed'
             /\ \A i, j \in DOMAIN queue' : i < j => Below(FrameOf(queue'[i], K), FrameOf(queue'[j], K))
  <2>1. CASE K = "live"
    <3>1. SourceOf(K)' = SourceOf(K)
      BY <1>1, <2>1 DEF SourceOf
    <3> QED  BY <1>1, <1>3, <3>1, DaemonSame
  <2>2. CASE K = "replay"
    <3>1. SourceOf(K)' = Range(replay')
      BY <2>2 DEF SourceOf
    <3>2. \A i, j \in DOMAIN queue' : i < j => Below(FrameOf(queue'[i], K), FrameOf(queue'[j], K))
      BY <1>1 DEF Flow, StageInv
    <3> QED  BY <1>1, <1>6, <1>7, <2>2, <3>1, <3>2 DEF Below
  <2> QED  BY <2>1, <2>2 DEF Kinds
<1>9. \A K \in Kinds :
        /\ StageInv(K)' /\ Downstream(Stages(K)') = Downstream(Stages(K))
        /\ Whole(Stages(K)') = Downstream(Stages(K)) \cup QueueOf(queue', K) \cup SourceOf(K)'
  BY <1>1, <1>3, <1>8, DaemonStages
<1>10. SeqInv'
  BY <1>1, <1>6 DEF Flow, SeqInv, LastPrinted
<1>11. Downstream(Stages("replay"))' = {} /\ Whole(Stages("replay"))' = Range(replay')
  BY <1>1, <1>7, <1>9 DEF Kinds, SourceOf
<1>12. Convex(Whole(Stages("replay")))'
  <2>1. Convex(Range(replay'))
    BY <1>4, <1>6, StretchFacts
  <2> QED  BY <1>11, <2>1
<1>13. OneReplay'
  BY <1>1, <1>7, <1>11, <1>12 DEF Flow, OneReplay
<1>14. Gapless'
  BY <1>1, <1>6, <1>11 DEF Gapless
<1>15. from' \in Int
  BY <1>1, <1>2, <1>3
<1> QED  BY <1>4, <1>9, <1>10, <1>13, <1>14, <1>15 DEF Flow
-----------------------------------------------------------------------------
\* The viewer is cut off: a front of its queue may still arrive, nothing is promised any more.
LEMMA DropFlow ==
  ASSUME Flow, DataTypes, printed \in Nat, NEW n \in 0..Len(queue), queue' = SubSeq(queue, 1, n),
         replay' = <<>>, unsent' \in {unsent, <<>>},
         client' = "gone" \/ (client = "absent" /\ client' = "absent"), lost',
         UNCHANGED <<printed, from, replayBuf, liveBuf, reader, chunks, buffered, feed, browser>>
  PROVE  Flow' /\ queue' \in Seq(Frames) /\ Len(queue') <= Len(queue)
<1>1. queue \in Seq(Frames) /\ Len(queue) \in Nat /\ DOMAIN queue = 1..Len(queue)
  BY DEF DataTypes
<1>2. /\ queue' \in Seq(Frames) /\ Len(queue') = n /\ DOMAIN queue' = 1..n
      /\ \A i \in DOMAIN queue' : i \in DOMAIN queue /\ queue'[i] = queue[i]
  BY <1>1
<1>3. \A K \in Kinds : QueueOf(queue', K) \subseteq QueueOf(queue, K)
  BY <1>2 DEF QueueOf
<1>4. \A K \in Kinds : SourceOf(K)' \subseteq SourceOf(K)
  BY EmptyRange DEF SourceOf
<1>5. ASSUME NEW K \in Kinds
      PROVE  /\ Below(Downstream(Stages(K)), QueueOf(queue', K)) /\ Below(Downstream(Stages(K)), SourceOf(K)')
             /\ Below(QueueOf(queue', K), SourceOf(K)')
             /\ QueueOf(queue', K) \cup SourceOf(K)' \subseteq 1..printed'
             /\ \A i, j \in DOMAIN queue' : i < j => Below(FrameOf(queue'[i], K), FrameOf(queue'[j], K))
  <2>1. StageInv(K)
    BY DEF Flow
  <2>2. Chain(Stages(K)) /\ Whole(Stages(K)) \subseteq 1..printed
    BY <2>1 DEF StageInv
  <2>3. /\ Below(Downstream(Stages(K)), QueueOf(queue, K)) /\ Below(Downstream(Stages(K)), SourceOf(K))
        /\ Below(QueueOf(queue, K), SourceOf(K))
    BY <2>2, ChainParts, StagesNow
  <2>4. QueueOf(queue, K) \cup SourceOf(K) \subseteq 1..printed
    BY <2>2, StagesNow
  <2>5. \A i, j \in DOMAIN queue' : i < j => Below(FrameOf(queue'[i], K), FrameOf(queue'[j], K))
    BY <1>2, <2>1 DEF StageInv
  <2>6. /\ Below(Downstream(Stages(K)), QueueOf(queue', K)) /\ Below(Downstream(Stages(K)), SourceOf(K)')
        /\ Below(QueueOf(queue', K), SourceOf(K)')
    BY <1>3, <1>4, <2>3 DEF Below
  <2>7. QueueOf(queue', K) \cup SourceOf(K)' \subseteq 1..printed
    BY <1>3, <1>4, <2>4
  <2> QED  BY <2>5, <2>6, <2>7
<1>6. \A K \in Kinds :
        /\ StageInv(K)' /\ Downstream(Stages(K)') = Downstream(Stages(K))
        /\ Whole(Stages(K)') = Downstream(Stages(K)) \cup QueueOf(queue', K) \cup SourceOf(K)'
  BY <1>5, DaemonStages
<1>7. SeqInv'
  <2>1. LastPrinted(unsent)'
    BY DEF Flow, SeqInv, LastPrinted
  <2>2. Stretch(replay)'
    BY DEF Stretch
  <2> QED  BY <1>2, <2>1, <2>2 DEF Flow, SeqInv
<1>8. "replay" \in Kinds
  BY DEF Kinds
<1>9. /\ QueueOf(queue', "replay") \subseteq QueueOf(queue, "replay")
      /\ Downstream(Stages("replay"))' = Downstream(Stages("replay"))
      /\ Whole(Stages("replay"))' = Downstream(Stages("replay")) \cup QueueOf(queue', "replay")
  BY <1>3, <1>6, <1>8, EmptyRange DEF SourceOf
<1>10. \A i, j \in DOMAIN queue' : queue'[i].k = "replay" /\ queue'[j].k = "replay" => i = j
  BY <1>2 DEF Flow, OneReplay
<1>11. browser = "open" => Convex(Whole(Stages("replay")))'
  <2>1. CASE Downstream(Stages("replay")) = {}
    <3>1. Convex(QueueOf(queue', "replay"))
      BY <1>2, <1>7, <1>10, QueueConvex DEF SeqInv
    <3> QED  BY <1>9, <2>1, <3>1
  <2>2. CASE Downstream(Stages("replay")) # {}
    <3>1. QueueOf(queue, "replay") = {} /\ replay = <<>>
      BY <2>2 DEF Flow, OneReplay
    <3>2. Whole(Stages("replay")) = Downstream(Stages("replay"))
      BY <1>8, <3>1, StagesNow, EmptyRange DEF SourceOf
    <3>3. Whole(Stages("replay"))' = Whole(Stages("replay"))
      BY <1>9, <3>1, <3>2
    <3> QED  BY <3>3 DEF Flow, OneReplay
  <2> QED  BY <2>1, <2>2
<1>12. OneReplay'
  BY <1>9, <1>10, <1>11 DEF Flow, OneReplay
<1>13. Gapless'
  BY DEF Gapless
<1> QED  BY <1>1, <1>2, <1>6, <1>7, <1>12, <1>13 DEF Flow

\* handleClient queues the replay and the viewer is attached, or cuts it off.
LEMMA QueueReplayFlow ==
  ASSUME Flow, DataTypes, printed \in Nat, QueueReplay, Len(queue) <= QueueCap
  PROVE  Flow' /\ queue' \in Seq(Frames) /\ Len(queue') <= QueueCap
<1> DEFINE f == [k |-> "replay", bytes |-> replay]
<1>1. client = "snapped" /\ replay' = <<>>
      /\ UNCHANGED <<printed, unsent, from, replayBuf, liveBuf, reader, chunks, buffered, feed, browser>>
  BY DEF QueueReplay, shellVars, sessVars, readerVars, channelVars, coalVars, connVars
<1>2. \/ replay = <<>> /\ client' = "attached" /\ UNCHANGED <<queue, lost>>
      \/ /\ replay # <<>> /\ Len(queue) < QueueCap /\ client' = "attached"
         /\ queue' = Append(queue, f) /\ lost' = lost
      \/ client' = "gone" /\ lost' = TRUE /\ queue' = queue
  BY DEF QueueReplay
<1>3. queue \in Seq(Frames) /\ replay \in Seq(Byte) /\ Len(queue) \in Nat /\ DOMAIN queue = 1..Len(queue)
      /\ QueueCap \in Nat
  BY TerminalAssumption DEF DataTypes
<1>4. f \in Frames /\ f.k = "replay" /\ f.bytes = replay
  BY <1>3 DEF Frames, Byte
<1>5. Up(replay) /\ Stretch(replay)
  BY <1>3, StretchFacts DEF Flow, SeqInv
<1> HIDE DEF f
<1>6. QueueOf(queue, "replay") = {} /\ Downstream(Stages("replay")) = {}
  BY <1>1 DEF Flow, OneReplay
<1>7. "replay" \in Kinds /\ "live" \in Kinds
  BY DEF Kinds
<1>8. CASE replay = <<>> /\ client' = "attached" /\ UNCHANGED <<queue, lost>>
  <2>1. \A K \in Kinds : SourceOf(K)' = SourceOf(K)
    BY <1>1, <1>8 DEF SourceOf
  <2>2. \A K \in Kinds :
          /\ Below(Downstream(Stages(K)), QueueOf(queue', K)) /\ Below(Downstream(Stages(K)), SourceOf(K)')
          /\ Below(QueueOf(queue', K), SourceOf(K)')
          /\ QueueOf(queue', K) \cup SourceOf(K)' \subseteq 1..printed'
          /\ \A i, j \in DOMAIN queue' : i < j => Below(FrameOf(queue'[i], K), FrameOf(queue'[j], K))
    BY <1>1, <1>8, <2>1, DaemonSame
  <2>3. \A K \in Kinds :
          /\ StageInv(K)' /\ Downstream(Stages(K)') = Downstream(Stages(K))
          /\ Whole(Stages(K)') = Downstream(Stages(K)) \cup QueueOf(queue', K) \cup SourceOf(K)'
    BY <1>1, <2>2, DaemonStages
  <2>4. \A K \in Kinds : Whole(Stages(K)') = Whole(Stages(K))
    BY <1>8, <2>1, <2>3, StagesNow
  <2>5. SeqInv'
    BY <1>1, <1>8 DEF Flow, SeqInv, LastPrinted
  <2>6. Downstream(Stages("replay"))' = {} /\ Whole(Stages("replay"))' = Whole(Stages("replay"))
    BY <1>6, <1>7, <2>3, <2>4
  <2>7. OneReplay'
    BY <1>1, <1>6, <1>8, <2>6 DEF Flow, OneReplay
  <2>8. Gapless'
    BY <1>1, <1>7, <1>8, <2>4 DEF Flow, Gapless
  <2> QED  BY <1>3, <1>8, <2>3, <2>5, <2>7, <2>8 DEF Flow
<1>9. CASE /\ replay # <<>> /\ Len(queue) < QueueCap /\ client' = "attached"
           /\ queue' = Append(queue, f) /\ lost' = lost
  <2>1. /\ queue' \in Seq(Frames) /\ Len(queue') = Len(queue) + 1 /\ DOMAIN queue' = 1..(Len(queue) + 1)
        /\ \A i \in DOMAIN queue : queue'[i] = queue[i]
        /\ queue'[Len(queue) + 1] = f
    BY <1>3, <1>4, <1>9, QueueAppend DEF Kinds
  <2>2. \A K \in Kinds : QueueOf(queue', K) = QueueOf(queue, K) \cup FrameOf(f, K)
    BY <1>3, <1>4, <1>9, QueueAppend
  <2>3. \A K \in Kinds : FrameOf(f, K) = IF K = "replay" THEN SourceOf(K) ELSE {}
    BY <1>4 DEF FrameOf, SourceOf, Kinds
  <2>4. \A K \in Kinds : SourceOf(K)' = IF K = "replay" THEN {} ELSE SourceOf(K)
    BY <1>1, EmptyRange DEF SourceOf, Kinds
  <2>5. \A i \in DOMAIN queue' : \/ i \in DOMAIN queue /\ queue'[i] = queue[i]
                                 \/ i = Len(queue) + 1 /\ queue'[i] = f
    <3>1. \A i \in DOMAIN queue' : i \in DOMAIN queue \/ i = Len(queue) + 1
      BY <1>3, <2>1
    <3>2. queue'[Len(queue) + 1] = f /\ \A i \in DOMAIN queue : queue'[i] = queue[i]
      BY <2>1
    <3> SUFFICES ASSUME NEW i \in DOMAIN queue'
                 PROVE  (i \in DOMAIN queue /\ queue'[i] = queue[i]) \/ (i = Len(queue) + 1 /\ queue'[i] = f)
      OBVIOUS
    <3>3. CASE i \in DOMAIN queue
      BY <3>2, <3>3
    <3>4. CASE i = Len(queue) + 1
      BY <3>2, <3>4
    <3> QED  BY <3>1, <3>3, <3>4
  <2>6. \A i \in DOMAIN queue : queue[i].k # "replay"
    <3> SUFFICES ASSUME NEW i \in DOMAIN queue, queue[i].k = "replay"  PROVE FALSE
      OBVIOUS
    <3>1. queue[i].bytes # <<>> /\ queue[i].bytes \in Seq(Byte)
      <4>1. queue[i] \in Frames
        BY <1>3
      <4> QED  BY <4>1 DEF Flow, SeqInv, Frames, Byte
    <3>2. 1 \in DOMAIN queue[i].bytes
      BY <3>1
    <3>3. queue[i].bytes[1] \in Range(queue[i].bytes)
      BY <3>2, InRange
    <3>4. queue[i].bytes[1] \in QueueOf(queue, "replay")
      BY <3>3 DEF QueueOf, FrameOf
    <3> QED  BY <1>6, <3>4
  <2>7. ASSUME NEW K \in Kinds
        PROVE  /\ Below(Downstream(Stages(K)), QueueOf(queue', K)) /\ Below(Downstream(Stages(K)), SourceOf(K)')
               /\ Below(QueueOf(queue', K), SourceOf(K)')
               /\ QueueOf(queue', K) \cup SourceOf(K)' \subseteq 1..printed'
               /\ \A i, j \in DOMAIN queue' : i < j => Below(FrameOf(queue'[i], K), FrameOf(queue'[j], K))
    <3>1. StageInv(K)
      BY DEF Flow
    <3>2. Chain(Stages(K)) /\ Whole(Stages(K)) \subseteq 1..printed
      BY <3>1 DEF StageInv
    <3>3. /\ SourceOf(K)' \subseteq SourceOf(K) /\ FrameOf(f, K) \subseteq SourceOf(K)
          /\ FrameOf(f, K) = {} \/ SourceOf(K)' = {}
      BY <2>3, <2>4
    <3>4. /\ Below(Downstream(Stages(K)), QueueOf(queue, K)) /\ Below(Downstream(Stages(K)), SourceOf(K))
          /\ Below(QueueOf(queue, K), SourceOf(K))
      BY <3>2, ChainParts, StagesNow
    <3>5. QueueOf(queue, K) \cup SourceOf(K) \subseteq 1..printed
      BY <3>2, StagesNow
    <3>6. \A i, j \in DOMAIN queue' : i < j => Below(FrameOf(queue'[i], K), FrameOf(queue'[j], K))
      <4> SUFFICES ASSUME NEW i \in DOMAIN queue', NEW j \in DOMAIN queue', i < j
                   PROVE  Below(FrameOf(queue'[i], K), FrameOf(queue'[j], K))
        OBVIOUS
      <4>1. i \in DOMAIN queue /\ queue'[i] = queue[i]
        BY <1>3, <2>1
      <4>2. CASE K = "live" /\ queue'[j] = f
        BY <1>4, <4>2 DEF FrameOf, Below
      <4>3. CASE K = "replay"
        BY <2>6, <4>1, <4>3 DEF FrameOf, Below
      <4>4. CASE j \in DOMAIN queue
        BY <2>1, <3>1, <4>1, <4>4 DEF StageInv
      <4> QED  BY <2>5, <4>2, <4>3, <4>4 DEF Kinds
    <3>7. /\ Below(Downstream(Stages(K)), QueueOf(queue', K)) /\ Below(Downstream(Stages(K)), SourceOf(K)')
          /\ Below(QueueOf(queue', K), SourceOf(K)')
      BY <2>2, <3>3, <3>4 DEF Below
    <3>8. QueueOf(queue', K) \cup SourceOf(K)' \subseteq 1..printed
      BY <2>2, <3>3, <3>5
    <3> QED  BY <1>1, <3>6, <3>7, <3>8
  <2>8. \A K \in Kinds :
          /\ StageInv(K)' /\ Downstream(Stages(K)') = Downstream(Stages(K))
          /\ Whole(Stages(K)') = Downstream(Stages(K)) \cup QueueOf(queue', K) \cup SourceOf(K)'
    BY <1>1, <2>7, DaemonStages
  <2>9. \A K \in Kinds : Whole(Stages(K)') = Whole(Stages(K))
    <3> SUFFICES ASSUME NEW K \in Kinds  PROVE Whole(Stages(K)') = Whole(Stages(K))
      OBVIOUS
    <3>1. FrameOf(f, K) \cup SourceOf(K)' = SourceOf(K)
      BY <2>3, <2>4
    <3>2. Whole(Stages(K)) = Downstream(Stages(K)) \cup QueueOf(queue, K) \cup SourceOf(K)
      BY StagesNow
    <3> QED  BY <2>2, <2>8, <3>1, <3>2
  <2>10. SeqInv'
    <3>1. \A i \in DOMAIN queue' : /\ Up(queue'[i].bytes)
                                   /\ queue'[i].k = "replay" => Stretch(queue'[i].bytes) /\ queue'[i].bytes # <<>>
      BY <1>4, <1>5, <1>9, <2>5 DEF Flow, SeqInv
    <3>2. Stretch(replay)'
      BY <1>1 DEF Stretch
    <3> QED  BY <1>1, <3>1, <3>2 DEF Flow, SeqInv, LastPrinted
  <2>11. \A i, j \in DOMAIN queue' : queue'[i].k = "replay" /\ queue'[j].k = "replay" => i = j
    BY <2>5, <2>6
  <2>12. Downstream(Stages("replay"))' = {} /\ Whole(Stages("replay"))' = Whole(Stages("replay"))
    BY <1>6, <1>7, <2>8, <2>9
  <2>13. OneReplay'
    BY <1>1, <1>9, <2>11, <2>12 DEF Flow, OneReplay
  <2>14. Gapless'
    BY <1>1, <1>7, <1>9, <2>9 DEF Flow, Gapless
  <2>15. Len(queue') <= QueueCap
    BY <1>3, <1>9, <2>1
  <2> QED  BY <2>1, <2>8, <2>10, <2>13, <2>14, <2>15 DEF Flow
<1>10. CASE client' = "gone" /\ lost' = TRUE /\ queue' = queue
  <2>1. queue' = SubSeq(queue, 1, Len(queue)) /\ Len(queue) \in 0..Len(queue)
    BY <1>3, <1>10
  <2>2. lost' /\ unsent' \in {unsent, <<>>}
    BY <1>1, <1>10
  <2>3. PICK n \in 0..Len(queue) : queue' = SubSeq(queue, 1, n)
    BY <2>1
  <2>4. Flow' /\ queue' \in Seq(Frames)
    <3>1. client' = "gone" \/ (client = "absent" /\ client' = "absent")
      BY <1>10, Zenon
    <3>2. UNCHANGED <<printed, from, replayBuf, liveBuf, reader, chunks, buffered, feed, browser>>
      BY <1>1
    <3> QED  BY <1>1, <2>2, <2>3, <3>1, <3>2, DropFlow
  <2> QED  BY <1>10, <2>4
<1> QED  BY <1>2, <1>8, <1>9, <1>10
-----------------------------------------------------------------------------
\* What the ring's invariant says of its fields.
LEMMA RingFields ==
  ASSUME NEW r, NEW p \in Nat, RingHolds(r, p)
  PROVE  r.size \in 0..RingSize /\ r.head \in 0..(RingSize - 1) /\ r.tail \in 0..(RingSize - 1)
  BY TerminalAssumption DEF RingHolds

\* PumpRead.
LEMMA PumpReadStep ==
  ASSUME TInv, PumpRead
  PROVE  TInv'
<1>1. TerminalTypeOK /\ DataTypes /\ RingInv /\ Flow /\ Control
  BY DEF TInv
<1>2. printed \in Nat
  BY <1>1, TerminalAssumption DEF TerminalTypeOK
<1>3. Flow' /\ unsent' \in Seq(Byte) /\ printed' \in 0..MaxPrinted
  BY <1>1, <1>2, PumpFlow
<1>4. RingInv'
  <2>1. PICK m \in 1..MaxChunk : /\ printed' = printed + m
                                 /\ ring' = RingWrite(ring, [i \in 1..m |-> printed + i])
    BY DEF PumpRead
  <2>2. m \in Nat \ {0}
    BY TerminalAssumption
  <2>3. RingHolds(RingWrite(ring, [i \in 1..m |-> printed + i]), printed + m)
    BY <1>1, <1>2, <2>2, RingWriteFacts DEF RingInv
  <2> QED  BY <2>1, <2>3 DEF RingInv
<1>5. printed' \in Nat
  BY <1>3, TerminalAssumption
<1>6. (ring.size \in 0..RingSize /\ ring.head \in 0..(RingSize - 1) /\ ring.tail \in 0..(RingSize - 1))'
  BY <1>4, <1>5, RingFields DEF RingInv
<1>7. UNCHANGED <<gated, lost, alive, daemonVars, sessVars, readerVars, channelVars, coalVars, connVars>>
  BY DEF PumpRead
<1>8. TerminalTypeOK'
  BY <1>1, <1>3, <1>6, <1>7 DEF TerminalTypeOK, daemonVars, sessVars, readerVars, channelVars, coalVars, connVars
<1>9. DataTypes'
  BY <1>1, <1>3, <1>7 DEF DataTypes, daemonVars, sessVars, readerVars, channelVars, coalVars, connVars
<1>10. Control'
  BY <1>1, <1>7 DEF Control, readerVars, coalVars, connVars
<1> QED  BY <1>3, <1>4, <1>8, <1>9, <1>10 DEF TInv

\* Broadcast, AddClient, TakeSnapshot, QueueReplay, Shutdown and MainCloses.
LEMMA DaemonStep ==
  ASSUME TInv, Broadcast \/ AddClient \/ TakeSnapshot \/ QueueReplay \/ Shutdown \/ MainCloses
  PROVE  TInv'
<1>1. TerminalTypeOK /\ DataTypes /\ RingInv /\ Flow /\ Control
  BY DEF TInv
<1>2. printed \in Nat /\ printed \in 0..MaxPrinted /\ Len(queue) <= QueueCap /\ Len(queue) \in Nat /\ QueueCap \in Nat
  BY <1>1, TerminalAssumption DEF TerminalTypeOK, DataTypes
<1>3. UNCHANGED <<gated, printed, ring, replayBuf, liveBuf, replaySeen, boundaryEmitted, readerVars,
                  channelVars, coalVars, browser, nudged>>
  BY DEF Broadcast, AddClient, TakeSnapshot, QueueReplay, Shutdown, MainCloses, shellVars, daemonVars,
         sessVars, connVars
<1>4. RingInv'
  BY <1>1, <1>3 DEF RingInv
<1>5. Flow' /\ queue' \in Seq(Frames) /\ Len(queue') <= QueueCap /\ unsent' \in Seq(Byte)
      /\ replay' \in Seq(Byte) /\ from' \in Int
  <2>1. queue \in Seq(Frames) /\ unsent \in Seq(Byte) /\ replay \in Seq(Byte) /\ from \in Int /\ <<>> \in Seq(Byte)
    BY <1>1 DEF DataTypes
  <2>2. CASE Broadcast
    BY <1>1, <1>2, <2>1, <2>2, BroadcastFlow DEF Broadcast
  <2>3. CASE AddClient
    <3>1. /\ client = "absent" /\ client' = "added"
          /\ UNCHANGED <<printed, unsent, replay, from, queue, replayBuf, liveBuf, chunks, buffered, feed,
                         reader, browser, lost>>
      BY <2>3 DEF AddClient, shellVars, sessVars, readerVars, channelVars, coalVars, connVars
    <3>2. Flow'
      BY <1>1, <3>1, FlowSame
    <3> QED  BY <1>2, <2>1, <3>1, <3>2
  <2>4. CASE TakeSnapshot
    <3>1. Flow' /\ replay' \in Seq(Byte) /\ from' \in Int
      BY <1>1, <1>2, <2>4, SnapshotFlow
    <3>2. UNCHANGED <<queue, unsent>>
      BY <2>4 DEF TakeSnapshot, shellVars
    <3> QED  BY <1>2, <2>1, <3>1, <3>2
  <2>5. CASE QueueReplay
    <3>1. Flow' /\ queue' \in Seq(Frames) /\ Len(queue') <= QueueCap
      BY <1>1, <1>2, <2>5, QueueReplayFlow
    <3>2. UNCHANGED <<unsent, from>> /\ replay' = <<>>
      BY <2>5 DEF QueueReplay, shellVars
    <3> QED  BY <2>1, <3>1, <3>2
  <2>6. CASE Shutdown \/ MainCloses
    <3>1. PICK n \in 0..Len(queue) : queue' = SubSeq(queue, 1, n)
      <4>1. CASE Shutdown
        BY <4>1 DEF Shutdown
      <4>2. CASE MainCloses
        <5>1. queue' = SubSeq(queue, 1, 0) /\ 0 \in 0..Len(queue)
          BY <1>2, <2>1, <4>2 DEF MainCloses
        <5> QED  BY <5>1
      <4> QED  BY <2>6, <4>1, <4>2
    <3>2. /\ replay' = <<>> /\ unsent' \in {unsent, <<>>}
          /\ client' = "gone" \/ (client = "absent" /\ client' = "absent")
          /\ UNCHANGED <<printed, from, replayBuf, liveBuf, reader, chunks, buffered, feed, browser>>
      BY <2>6 DEF Shutdown, MainCloses, shellVars, sessVars, readerVars, channelVars, coalVars, connVars
    <3>3. lost'
      BY <2>6 DEF Shutdown, MainCloses
    <3>4. Flow' /\ queue' \in Seq(Frames) /\ Len(queue') <= Len(queue)
      BY <1>1, <1>2, <3>1, <3>2, <3>3, DropFlow
    <3>5. Len(queue') <= QueueCap
      BY <1>2, <3>4
    <3> QED  BY <2>1, <3>2, <3>4, <3>5
  <2> QED  BY <2>2, <2>3, <2>4, <2>5, <2>6
<1>6. /\ client' \in {"absent", "added", "snapped", "attached", "gone"} /\ alive' \in BOOLEAN
      /\ lost' \in BOOLEAN /\ sessDone' \in BOOLEAN /\ main' \in {"reading", "closing", "ended"}
  <2>1. alive \in BOOLEAN /\ lost \in BOOLEAN /\ sessDone \in BOOLEAN /\ main \in {"reading", "closing", "ended"}
        /\ client \in {"absent", "added", "snapped", "attached", "gone"}
    BY <1>1 DEF TerminalTypeOK
  <2>2. client' \in {client, "added", "snapped", "attached", "gone"} /\ main' \in {main, "closing"}
    BY DEF Broadcast, AddClient, TakeSnapshot, QueueReplay, Shutdown, MainCloses, connVars
  <2>3. lost' \in {lost, TRUE} /\ sessDone' \in {sessDone, TRUE} /\ alive' \in {alive, FALSE}
    BY DEF Broadcast, AddClient, TakeSnapshot, QueueReplay, Shutdown, MainCloses, shellVars, sessVars
  <2> QED  BY <2>1, <2>2, <2>3
<1>7. TerminalTypeOK'
  BY <1>1, <1>3, <1>5, <1>6 DEF TerminalTypeOK, readerVars, channelVars, coalVars
<1>8. DataTypes'
  BY <1>1, <1>3, <1>5 DEF DataTypes, readerVars, channelVars, coalVars
<1>9. Control'
  <2>1. lost => lost'
    BY DEF Broadcast, AddClient, TakeSnapshot, QueueReplay, Shutdown, MainCloses
  <2> QED  BY <1>1, <1>3, <2>1 DEF Control, readerVars, coalVars
<1> QED  BY <1>4, <1>5, <1>7, <1>8, <1>9 DEF TInv

\* ReadFrame.
LEMMA ReadFrameStep ==
  ASSUME TInv, ReadFrame
  PROVE  TInv'
<1>1. TerminalTypeOK /\ DataTypes /\ RingInv /\ Flow /\ Control
  BY DEF TInv
<1>2. Len(replayBuf) <= BufferCap /\ Len(liveBuf) <= BufferCap /\ Len(queue) <= QueueCap
      /\ Len(queue) \in Nat /\ QueueCap \in Nat
  BY <1>1, TerminalAssumption DEF TerminalTypeOK, DataTypes
<1>3. /\ Flow' /\ queue' \in Seq(Frames) /\ Len(queue') <= Len(queue)
      /\ replayBuf' \in Seq(Byte) /\ liveBuf' \in Seq(Byte)
      /\ Len(replayBuf') <= BufferCap /\ Len(liveBuf') <= BufferCap
  BY <1>1, <1>2, ReadFrameFlow
<1>4. Len(queue') <= QueueCap
  <2>1. Len(queue') \in Nat
    BY <1>3
  <2> QED  BY <1>2, <1>3, <2>1
<1>5. UNCHANGED <<gated, shellVars, client, replay, from, boundaryEmitted, sessDone,
                  readerVars, channelVars, coalVars, connVars>>
  BY DEF ReadFrame
<1>6. lost' \in BOOLEAN /\ replaySeen' \in BOOLEAN /\ (lost => lost')
  <2>1. lost' \in BOOLEAN /\ (lost => lost')
    BY DEF ReadFrame
  <2>2. replaySeen \in BOOLEAN
    BY <1>1 DEF TerminalTypeOK
  <2>3. replaySeen' \in {replaySeen, TRUE}
    BY DEF ReadFrame
  <2> QED  BY <2>1, <2>2, <2>3
<1>7. TerminalTypeOK'
  BY <1>1, <1>3, <1>4, <1>5, <1>6
     DEF TerminalTypeOK, shellVars, readerVars, channelVars, coalVars, connVars
<1>8. DataTypes'
  BY <1>1, <1>3, <1>5 DEF DataTypes, shellVars, readerVars, channelVars, coalVars
<1>9. Control'
  BY <1>1, <1>5, <1>6 DEF Control, readerVars, coalVars, connVars
<1>10. RingInv'
  BY <1>1, <1>5 DEF RingInv, shellVars
<1> QED  BY <1>3, <1>7, <1>8, <1>9, <1>10 DEF TInv
-----------------------------------------------------------------------------
\* TakeLive, for an idle reader.
LEMMA TakeLiveFlow ==
  ASSUME TInv, reader.pc \in {"call", "wait"}, TakeLive,
         UNCHANGED <<printed, unsent, client, replay, from, queue, replayBuf, chunks, buffered, feed, browser, lost>>
  PROVE  /\ Flow' /\ liveBuf' \in Seq(Byte) /\ Len(liveBuf') <= BufferCap
         /\ reader'.bytes \in Seq(Byte) /\ reader'.k = "live" /\ reader'.eof \in BOOLEAN
         /\ reader'.pc \in {"control", "submit", "close"}
         /\ reader'.pc = "close" \/ reader'.eof => reader'.bytes = <<>>
         /\ reader' = [pc |-> reader'.pc, k |-> reader'.k, bytes |-> reader'.bytes, eof |-> reader'.eof]
<1>1. reader.bytes = <<>> /\ liveBuf \in Seq(Byte) /\ Len(liveBuf) <= BufferCap /\ Flow /\ DataTypes
      /\ BufferCap \in Nat
  BY TerminalAssumption DEF TInv, Control, TerminalTypeOK, DataTypes
<1>2. CASE liveBuf # <<>>
  <2>1. reader' = Chunk("live", FirstOf(liveBuf), IF inReplay THEN "control" ELSE "submit")
        /\ liveBuf' = RestOf(liveBuf)
    BY <1>2 DEF TakeLive
  <2>2. FirstOf(liveBuf) \in Seq(Byte) /\ RestOf(liveBuf) \in Seq(Byte) /\ Len(RestOf(liveBuf)) <= Len(liveBuf)
    BY <1>1, TakeFirst
  <2>3. Len(liveBuf') <= BufferCap
    <3>1. Len(liveBuf) \in Nat /\ Len(RestOf(liveBuf)) \in Nat
      BY <1>1, <2>2
    <3> QED  BY <1>1, <2>1, <2>2, <3>1
  <2>4. /\ reader'.k = "live" /\ reader'.bytes = FirstOf(liveBuf) /\ reader'.eof = FALSE
        /\ reader'.pc \in {"control", "submit"}
        /\ reader' = [pc |-> reader'.pc, k |-> reader'.k, bytes |-> reader'.bytes, eof |-> reader'.eof]
    BY <2>1 DEF Chunk
  <2>5. Flow'
    BY <1>1, <2>1, <2>4, ReaderTakes DEF Kinds
  <2> QED  BY <2>1, <2>2, <2>3, <2>4, <2>5
<1>3. CASE liveBuf = <<>>
  <2>1. /\ reader' = [pc |-> IF inReplay THEN "control" ELSE "close", k |-> "live",
                      bytes |-> <<>>, eof |-> TRUE]
        /\ liveBuf' = liveBuf
    BY <1>3 DEF TakeLive
  <2>2. Flow'
    <3>1. reader'.bytes = reader.bytes /\ reader.bytes = <<>>
      BY <1>1, <2>1
    <3> QED  BY <1>1, <2>1, <3>1, FlowSame
  <2> QED  BY <1>1, <2>1, <2>2
<1> QED  BY <1>2, <1>3

\* The bridge's reader.
LEMMA ReaderStep ==
  ASSUME TInv, Reader
  PROVE  TInv'
<1>1. TerminalTypeOK /\ DataTypes /\ RingInv /\ Flow /\ Control
  BY DEF TInv
<1>2. UNCHANGED <<gated, lost, shellVars, daemonVars, replaySeen, sessDone, coalVars, browser, main>>
  BY DEF Reader, ReadFramed, ReadFramedWoken, ReadFlat, SubmitControl, ControlAcked, Submit, ReaderCloses,
         ReaderDone, sessVars, connVars
<1>3. /\ reader \in [pc : {"call", "wait", "submit", "control", "ack", "close", "flush", "done"},
                     k : Kinds, bytes : Seq(Byte), eof : BOOLEAN]
      /\ replayBuf \in Seq(Byte) /\ liveBuf \in Seq(Byte) /\ chunks \in Seq(Seq(Item))
      /\ Len(replayBuf) <= BufferCap /\ Len(liveBuf) <= BufferCap /\ Len(chunks) <= ChunkCap
      /\ BufferCap \in Nat /\ ChunkCap \in Nat /\ Len(replayBuf) \in Nat /\ Len(chunks) \in Nat
  <2>1. /\ reader \in [pc : {"call", "wait", "submit", "control", "ack", "close", "flush", "done"},
                       k : Kinds, bytes : Seq(Byte), eof : BOOLEAN]
        /\ replayBuf \in Seq(Byte) /\ liveBuf \in Seq(Byte) /\ chunks \in Seq(Seq(Item))
    BY <1>1 DEF DataTypes
  <2>2. Len(replayBuf) <= BufferCap /\ Len(liveBuf) <= BufferCap /\ Len(chunks) <= ChunkCap
    BY <1>1 DEF TerminalTypeOK
  <2>3. BufferCap \in Nat /\ ChunkCap \in Nat
    BY TerminalAssumption
  <2>4. Len(replayBuf) \in Nat /\ Len(chunks) \in Nat
    BY <2>1, LenProperties
  <2> QED  BY <2>1, <2>2, <2>3, <2>4
<1>4. reader.pc \in {"call", "wait", "close", "flush", "done"} \/ reader.eof => reader.bytes = <<>>
  BY <1>1 DEF Control
<1> DEFINE Advanced ==
      /\ Flow' /\ replayBuf' \in Seq(Byte) /\ liveBuf' \in Seq(Byte) /\ chunks' \in Seq(Seq(Item))
      /\ Len(replayBuf') <= BufferCap /\ Len(liveBuf') <= BufferCap /\ Len(chunks') <= ChunkCap
      /\ reader' \in [pc : {"call", "wait", "submit", "control", "ack", "close", "flush", "done"},
                      k : Kinds, bytes : Seq(Byte), eof : BOOLEAN]
      /\ reader'.pc \in {"call", "wait", "close", "flush", "done"} \/ reader'.eof => reader'.bytes = <<>>
<1>5. ASSUME reader.pc \in {"call", "wait"}, TakeLive, UNCHANGED <<replayBuf, chunks>>
      PROVE  Advanced
  <2>1. /\ Flow' /\ liveBuf' \in Seq(Byte) /\ Len(liveBuf') <= BufferCap
        /\ reader'.bytes \in Seq(Byte) /\ reader'.k = "live" /\ reader'.eof \in BOOLEAN
        /\ reader'.pc \in {"control", "submit", "close"}
        /\ reader'.pc = "close" \/ reader'.eof => reader'.bytes = <<>>
        /\ reader' = [pc |-> reader'.pc, k |-> reader'.k, bytes |-> reader'.bytes, eof |-> reader'.eof]
    BY <1>2, <1>5, TakeLiveFlow DEF shellVars, daemonVars, coalVars
  <2> QED  BY <1>3, <1>5, <2>1 DEF Kinds
<1>6. ASSUME reader.pc \in {"call", "wait"}, replayBuf' = RestOf(replayBuf), UNCHANGED <<liveBuf, chunks>>,
             NEW pc \in {"control", "submit"}, reader' = Chunk("replay", FirstOf(replayBuf), pc)
      PROVE  Advanced
  <2>1. FirstOf(replayBuf) \in Seq(Byte) /\ RestOf(replayBuf) \in Seq(Byte) /\ Len(RestOf(replayBuf)) <= Len(replayBuf)
    BY <1>3, TakeFirst
  <2>2. Len(replayBuf') <= BufferCap
    <3>1. Len(RestOf(replayBuf)) \in Nat
      BY <2>1
    <3> QED  BY <1>3, <1>6, <2>1, <3>1
  <2>3. /\ reader'.k = "replay" /\ reader'.bytes = FirstOf(replayBuf) /\ reader'.eof = FALSE /\ reader'.pc = pc
        /\ reader' \in [pc : {"call", "wait", "submit", "control", "ack", "close", "flush", "done"},
                        k : Kinds, bytes : Seq(Byte), eof : BOOLEAN]
    BY <1>6, <2>1 DEF Chunk, Kinds
  <2>4. Flow'
    BY <1>1, <1>2, <1>4, <1>6, <2>3, ReaderTakes DEF Kinds, shellVars, daemonVars, coalVars
  <2> QED  BY <1>3, <1>6, <2>1, <2>2, <2>3, <2>4
<1>7. ASSUME UNCHANGED <<replayBuf, liveBuf, chunks>>, reader'.bytes = reader.bytes,
             reader.bytes # <<>> => reader'.k = reader.k,
             reader' \in [pc : {"call", "wait", "submit", "control", "ack", "close", "flush", "done"},
                          k : Kinds, bytes : Seq(Byte), eof : BOOLEAN],
             reader'.pc \in {"call", "wait", "close", "flush", "done"} \/ reader'.eof => reader'.bytes = <<>>
      PROVE  Advanced
  <2>1. Flow'
    BY <1>1, <1>2, <1>7, FlowSame DEF shellVars, daemonVars, coalVars
  <2> QED  BY <1>3, <1>7, <2>1
<1> HIDE DEF Advanced
<1>8. ASSUME ReadFramed  PROVE Advanced
  <2>1. reader.pc \in {"call", "wait"} /\ reader.bytes = <<>> /\ chunks' = chunks
    BY <1>4, <1>8 DEF ReadFramed, channelVars
  <2>2. CASE replayBuf # <<>>
    <3>1. /\ reader' = Chunk("replay", FirstOf(replayBuf), IF firstChunkDone THEN "submit" ELSE "control")
          /\ replayBuf' = RestOf(replayBuf) /\ liveBuf' = liveBuf
      BY <1>8, <2>2 DEF ReadFramed
    <3>2. PICK pc \in {"control", "submit"} : reader' = Chunk("replay", FirstOf(replayBuf), pc)
      BY <3>1
    <3> QED  BY <1>6, <2>1, <3>1, <3>2
  <2>3. CASE replayBuf = <<>> /\ replaySeen /\ ~boundaryEmitted
    <3>1. /\ reader' = IF inReplay THEN [Idle EXCEPT !.pc = "control"] ELSE Idle
          /\ UNCHANGED <<replayBuf, liveBuf>>
      BY <1>8, <2>3 DEF ReadFramed
    <3>2. <<>> \in Seq(Byte)
      OBVIOUS
    <3>3. /\ reader'.bytes = <<>>
          /\ reader' \in [pc : {"call", "wait", "submit", "control", "ack", "close", "flush", "done"},
                          k : Kinds, bytes : Seq(Byte), eof : BOOLEAN]
      BY <3>1, <3>2 DEF Idle, Kinds
    <3> QED  BY <1>7, <2>1, <3>1, <3>3
  <2>4. CASE replayBuf = <<>> /\ (~replaySeen \/ boundaryEmitted) /\ (liveBuf # <<>> \/ sessDone)
    <3>1. TakeLive /\ replayBuf' = replayBuf
      BY <1>8, <2>4 DEF ReadFramed
    <3> QED  BY <1>5, <2>1, <3>1
  <2>5. CASE replayBuf = <<>> /\ (~replaySeen \/ boundaryEmitted) /\ ~(liveBuf # <<>> \/ sessDone)
    <3>1. reader' = [Idle EXCEPT !.pc = "wait"] /\ UNCHANGED <<replayBuf, liveBuf>>
      BY <1>8, <2>5 DEF ReadFramed
    <3>2. <<>> \in Seq(Byte)
      OBVIOUS
    <3>3. /\ reader'.bytes = <<>>
          /\ reader' \in [pc : {"call", "wait", "submit", "control", "ack", "close", "flush", "done"},
                          k : Kinds, bytes : Seq(Byte), eof : BOOLEAN]
      BY <3>1, <3>2 DEF Idle, Kinds
    <3> QED  BY <1>7, <2>1, <3>1, <3>3
  <2> QED  BY <2>2, <2>3, <2>4, <2>5
<1>9. ASSUME ReadFramedWoken  PROVE Advanced
  BY <1>5, <1>9 DEF ReadFramedWoken, channelVars
<1>10. ASSUME ReadFlat  PROVE Advanced
  <2>1. reader.pc \in {"call", "wait"} /\ chunks' = chunks
    BY <1>10 DEF ReadFlat, channelVars
  <2>2. CASE /\ reader' = Chunk("replay", FirstOf(replayBuf), "submit")
             /\ replayBuf' = RestOf(replayBuf) /\ UNCHANGED liveBuf
    BY <1>6, <2>1, <2>2
  <2>3. CASE TakeLive /\ UNCHANGED replayBuf
    BY <1>5, <2>1, <2>3
  <2> QED  BY <1>10, <2>2, <2>3 DEF ReadFlat
<1>11. ASSUME SubmitControl  PROVE Advanced
  BY <1>3, <1>4, <1>7, <1>11 DEF SubmitControl, sessVars
<1>12. ASSUME ControlAcked  PROVE Advanced
  <2>1. reader.eof => reader.bytes = <<>>
    BY <1>4
  <2>2. CASE reader.eof
    <3>1. reader' = [reader EXCEPT !.pc = "close"] /\ UNCHANGED <<replayBuf, liveBuf, chunks>>
      BY <1>12, <2>2 DEF ControlAcked, sessVars, channelVars
    <3> QED  BY <1>3, <1>7, <2>1, <2>2, <3>1
  <2>3. CASE ~reader.eof /\ reader.bytes = <<>>
    <3>1. reader' = Idle /\ UNCHANGED <<replayBuf, liveBuf, chunks>>
      BY <1>12, <2>3 DEF ControlAcked, sessVars, channelVars
    <3> QED  BY <1>3, <1>7, <2>3, <3>1 DEF Idle, Kinds
  <2>4. CASE ~reader.eof /\ reader.bytes # <<>>
    <3>1. reader' = [reader EXCEPT !.pc = "submit"] /\ UNCHANGED <<replayBuf, liveBuf, chunks>>
      BY <1>12, <2>4 DEF ControlAcked, sessVars, channelVars
    <3> QED  BY <1>3, <1>7, <2>4, <3>1
  <2> QED  BY <2>2, <2>3, <2>4
<1>13. ASSUME Submit  PROVE Advanced
  <2>1. Flow' /\ chunks' \in Seq(Seq(Item))
    BY <1>1, <1>13, SubmitFlow
  <2>2. UNCHANGED <<replayBuf, liveBuf>> /\ reader' = Idle /\ Len(chunks) < ChunkCap
    BY <1>13 DEF Submit, sessVars
  <2>3. Len(chunks') = Len(chunks) + 1
    BY <1>3, <1>13 DEF Submit
  <2>4. Len(chunks') <= ChunkCap
    BY <1>3, <2>2, <2>3
  <2> QED  BY <1>3, <2>1, <2>2, <2>4 DEF Idle, Kinds, Advanced
<1>14. ASSUME ReaderCloses  PROVE Advanced
  BY <1>3, <1>4, <1>7, <1>14 DEF ReaderCloses, sessVars
<1>15. ASSUME ReaderDone  PROVE Advanced
  BY <1>3, <1>4, <1>7, <1>15 DEF ReaderDone, sessVars, channelVars
<1>16. Advanced
  BY <1>8, <1>9, <1>10, <1>11, <1>12, <1>13, <1>14, <1>15 DEF Reader
<1>17. /\ boundaryEmitted' \in BOOLEAN /\ firstChunkDone' \in BOOLEAN /\ inReplay' \in BOOLEAN
       /\ chunksClosed' \in BOOLEAN /\ acked' \in BOOLEAN /\ nudged' \in BOOLEAN
       /\ control' \in {"none", "start", "end"}
  <2>1. /\ boundaryEmitted \in BOOLEAN /\ firstChunkDone \in BOOLEAN /\ inReplay \in BOOLEAN
        /\ chunksClosed \in BOOLEAN /\ acked \in BOOLEAN /\ nudged \in BOOLEAN
        /\ control \in {"none", "start", "end"}
    BY <1>1 DEF TerminalTypeOK
  <2>2. boundaryEmitted' \in {boundaryEmitted, TRUE}
    BY DEF Reader, ReadFramed, ReadFramedWoken, ReadFlat, SubmitControl, ControlAcked, Submit, ReaderCloses,
           ReaderDone, sessVars
  <2>3. chunksClosed' \in {chunksClosed, TRUE} /\ nudged' \in {nudged, TRUE} /\ acked' \in {acked, FALSE}
    BY DEF Reader, ReadFramed, ReadFramedWoken, ReadFlat, SubmitControl, ControlAcked, Submit, ReaderCloses,
           ReaderDone, channelVars, connVars
  <2>4. control' \in {control, "start", "end"}
    BY DEF Reader, ReadFramed, ReadFramedWoken, ReadFlat, SubmitControl, ControlAcked, Submit, ReaderCloses,
           ReaderDone, channelVars
  <2>5. firstChunkDone' \in BOOLEAN /\ inReplay' \in BOOLEAN
    <3>1. CASE SubmitControl
      BY <3>1 DEF SubmitControl
    <3>2. CASE ~SubmitControl
      BY <2>1, <3>2 DEF Reader, ReadFramed, ReadFramedWoken, ReadFlat, ControlAcked, Submit, ReaderCloses, ReaderDone
    <3> QED  BY <3>1, <3>2
  <2> QED  BY <2>1, <2>2, <2>3, <2>4, <2>5
<1>18. TerminalTypeOK'
  BY <1>1, <1>2, <1>16, <1>17 DEF TerminalTypeOK, shellVars, daemonVars, coalVars, Advanced
<1>19. DataTypes'
  BY <1>1, <1>2, <1>16 DEF DataTypes, shellVars, daemonVars, coalVars, Advanced
<1>20. Control'
  BY <1>1, <1>2, <1>16 DEF Control, coalVars, Advanced
<1>21. RingInv'
  BY <1>1, <1>2 DEF RingInv, shellVars
<1> QED  BY <1>16, <1>18, <1>19, <1>20, <1>21 DEF TInv, Advanced
-----------------------------------------------------------------------------
\* A control after what is buffered carries no byte.
LEMMA ControlItem ==
  ASSUME NEW s \in Seq(Item), NEW x \in Item, x.k \notin Kinds, NEW K \in Kinds, Sorted(s, K)
  PROVE  Append(s, x) \in Seq(Item) /\ Of(Append(s, x), K) = Of(s, K) /\ Sorted(Append(s, x), K)
<1>1. <<x>> \in Seq(Item) /\ Append(s, x) = s \o <<x>>
  OBVIOUS
<1>2. DOMAIN <<x>> = {1} /\ <<x>>[1] = x
  OBVIOUS
<1>3. Of(<<x>>, K) = {} /\ Sorted(<<x>>, K)
  BY <1>2 DEF Of, Sorted
<1>4. Below(Of(s, K), Of(<<x>>, K))
  BY <1>3 DEF Below
<1>5. Of(s \o <<x>>, K) = Of(s, K) \cup Of(<<x>>, K) /\ Sorted(s \o <<x>>, K)
  BY <1>1, <1>3, <1>4, OfConcat
<1>6. s \o <<x>> \in Seq(Item)
  BY <1>1, ConcatProperties
<1> QED  BY <1>1, <1>3, <1>5, <1>6

\* What a write does to the flags.
LEMMA WriteFlags ==
  ASSUME TerminalTypeOK, NEW items, NEW rest, Write(items, rest)
  PROVE  /\ writeFailed' \in BOOLEAN /\ nudged' \in BOOLEAN /\ lost' \in BOOLEAN
         /\ lost => lost'
         /\ writeFailed' => writeFailed \/ (browser = "closed" /\ lost')
         /\ writeFailed => writeFailed'
<1>1. writeFailed \in BOOLEAN /\ nudged \in BOOLEAN /\ lost \in BOOLEAN /\ browser \in {"open", "closed"}
  BY DEF TerminalTypeOK
<1>2. CASE items = <<>> \/ browser = "open"
  BY <1>1, <1>2 DEF Write
<1>3. CASE ~(items = <<>> \/ browser = "open")
  BY <1>1, <1>3 DEF Write
<1> QED  BY <1>2, <1>3

\* The coalescer.
LEMMA CoalescerStep ==
  ASSUME TInv, Coalescer
  PROVE  TInv'
<1>1. TerminalTypeOK /\ DataTypes /\ RingInv /\ Flow /\ Control
  BY DEF TInv
<1>2. UNCHANGED CoalescerRest
  BY DEF Coalescer, Drain, ProcessControl, NoControl, SelectChunk, SelectTimer, Finish, Discard
<1>3. UNCHANGED <<gated, printed, ring, unsent, alive, client, replay, from, queue, replayBuf, liveBuf, replaySeen,
                  boundaryEmitted, sessDone, reader, firstChunkDone, inReplay, chunksClosed, browser, main>>
  BY <1>2 DEF CoalescerRest, shellVars, daemonVars, sessVars, readerVars
<1>4. /\ chunks \in Seq(Seq(Item)) /\ buffered \in Seq(Item) /\ feed \in Seq(Item)
      /\ Len(chunks) <= ChunkCap /\ Len(buffered) < MaxFrame /\ MaxFrame \in Nat \ {0}
      /\ ChunkCap \in Nat /\ Len(chunks) \in Nat
  BY <1>1, TerminalAssumption DEF DataTypes, TerminalTypeOK
<1>5. \A K \in Kinds : Sorted(buffered, K)
  BY <1>1 DEF Flow, StageInv
<1> DEFINE Flags ==
      /\ writeFailed' \in BOOLEAN /\ nudged' \in BOOLEAN /\ lost' \in BOOLEAN
      /\ lost => lost'
      /\ writeFailed' => writeFailed \/ (browser = "closed" /\ lost')
      /\ writeFailed => writeFailed'
           Moved ==
      /\ Flow' /\ feed' \in Seq(Item) /\ buffered' \in Seq(Item) /\ chunks' \in Seq(Seq(Item))
      /\ Len(buffered') < MaxFrame /\ Len(chunks') <= ChunkCap
      /\ Flags
<1>6. ASSUME chunks # <<>>, chunks' = Tail(chunks), AppendChunk(buffered \o Head(chunks))
      PROVE  Moved
  <2>1. /\ Flow' /\ feed' \in Seq(Item) /\ buffered' \in Seq(Item) /\ chunks' \in Seq(Seq(Item))
        /\ Len(buffered') < MaxFrame /\ Len(chunks') <= Len(chunks)
    BY <1>1, <1>3, <1>6, TakeChunk
  <2>2. Flags
    BY <1>1, <1>6, WriteFlags DEF AppendChunk
  <2>3. Len(chunks') <= ChunkCap
    <3>1. Len(chunks') \in Nat
      BY <2>1
    <3> QED  BY <1>4, <2>1, <3>1
  <2> QED  BY <2>1, <2>2, <2>3
<1>7. ASSUME NEW all \in Seq(Item), Write(all, <<>>), chunks' = chunks,
             \A K \in Kinds : Of(all, K) = Of(buffered, K) /\ Sorted(all, K)
      PROVE  Moved
  <2>1. Flow' /\ feed' \in Seq(Item) /\ buffered' \in Seq(Item) /\ Len(buffered') = 0
    BY <1>1, <1>3, <1>7, FlushAll
  <2>2. Flags
    BY <1>1, <1>7, WriteFlags
  <2> QED  BY <1>4, <1>7, <2>1, <2>2
<1>8. ASSUME UNCHANGED <<chunks, buffered, feed, writeFailed, nudged, lost>>
      PROVE  Moved
  <2>1. Flow'
    BY <1>1, <1>3, <1>8, FlowSame
  <2>2. Flags
    <3>1. writeFailed \in BOOLEAN /\ nudged \in BOOLEAN /\ lost \in BOOLEAN
      BY <1>1 DEF TerminalTypeOK
    <3> QED  BY <1>8, <3>1
  <2> QED  BY <1>4, <1>8, <2>1, <2>2
<1> HIDE DEF Moved, Flags
<1>9. ASSUME Drain  PROVE Moved /\ coalescer' \in {"drain", "controls"} /\ UNCHANGED <<control, acked>>
  <2>1. CASE /\ chunks # <<>> /\ AppendChunk(buffered \o Head(chunks))
             /\ chunks' = Tail(chunks) /\ UNCHANGED coalescer
    BY <1>6, <1>9, <2>1 DEF Drain
  <2>2. CASE coalescer' = "controls" /\ UNCHANGED <<chunks, buffered, feed, writeFailed, nudged, lost>>
    BY <1>8, <1>9, <2>2 DEF Drain
  <2> QED  BY <1>9, <2>1, <2>2 DEF Drain
<1>10. ASSUME ProcessControl
      PROVE  Moved /\ coalescer' = Top(writeFailed') /\ control' = "none" /\ acked' \in BOOLEAN
  <2>1. control \in {"start", "end"}
    BY <1>1, <1>10 DEF ProcessControl, TerminalTypeOK
  <2>2. PICK x : x = [k |-> control, b |-> 0]
    OBVIOUS
  <2>3. x \in Item /\ x.k \notin Kinds
    BY <2>1, <2>2 DEF Item, Kinds
  <2>4. Append(buffered, x) \in Seq(Item)
    BY <1>4, <2>3
  <2>5. \A K \in Kinds : Of(Append(buffered, x), K) = Of(buffered, K) /\ Sorted(Append(buffered, x), K)
    BY <1>4, <1>5, <2>3, ControlItem
  <2>6. Write(Append(buffered, x), <<>>) /\ chunks' = chunks
    BY <1>10, <2>2 DEF ProcessControl
  <2>7. coalescer' = Top(writeFailed') /\ control' = "none" /\ acked' \in BOOLEAN
    BY <1>10 DEF ProcessControl
  <2> QED  BY <1>7, <2>4, <2>5, <2>6, <2>7
<1>11. ASSUME NoControl  PROVE Moved /\ coalescer' = "select" /\ UNCHANGED <<control, acked>>
  BY <1>8, <1>11 DEF NoControl, channelVars
<1>12. ASSUME SelectChunk  PROVE Moved /\ coalescer' = Top(writeFailed') /\ UNCHANGED <<control, acked>>
  BY <1>6, <1>12 DEF SelectChunk
<1>13. ASSUME SelectTimer  PROVE Moved /\ coalescer' = Top(writeFailed') /\ UNCHANGED <<control, acked>>
  BY <1>4, <1>5, <1>7, <1>13 DEF SelectTimer
<1>14. ASSUME Finish  PROVE Moved /\ coalescer' = "done" /\ UNCHANGED <<control, acked>>
  BY <1>4, <1>5, <1>7, <1>14 DEF Finish
<1>15. ASSUME Discard
       PROVE  Moved /\ (coalescer' = "done" \/ (coalescer' = "discard" /\ writeFailed')) /\ UNCHANGED <<control, acked>>
  <2>1. UNCHANGED <<lost, control, acked, buffered, writeFailed, feed, nudged>> /\ coalescer = "discard"
    BY <1>15 DEF Discard
  <2>2. writeFailed /\ browser # "open" /\ lost
    BY <1>1, <2>1 DEF Control
  <2>3. CASE chunks # <<>> /\ chunks' = Tail(chunks) /\ UNCHANGED coalescer
    <3>1. Flow'
      BY <1>1, <1>3, <2>1, <2>2, <2>3, DiscardFlow
    <3>2. Flags
      <4>1. writeFailed \in BOOLEAN /\ nudged \in BOOLEAN /\ lost \in BOOLEAN
        BY <1>1 DEF TerminalTypeOK
      <4> QED  BY <2>1, <4>1 DEF Flags
    <3>3. chunks' \in Seq(Seq(Item)) /\ Len(chunks') = Len(chunks) - 1
      BY <1>4, <2>3, ChunksTail DEF Kinds
    <3>4. Len(chunks') <= ChunkCap
      BY <1>4, <3>3
    <3>5. Moved
      BY <1>4, <2>1, <3>1, <3>2, <3>3, <3>4 DEF Moved
    <3> QED  BY <2>1, <2>2, <2>3, <3>5
  <2>4. CASE coalescer' = "done" /\ UNCHANGED chunks
    BY <1>8, <2>1, <2>4
  <2> QED  BY <1>15, <2>3, <2>4 DEF Discard
<1>16. /\ Moved /\ coalescer' \in {"drain", "controls", "select", "discard", "done"}
       /\ coalescer' = "discard" => writeFailed'
       /\ control' \in {"none", "start", "end"} /\ acked' \in BOOLEAN
  <2>1. control \in {"none", "start", "end"} /\ acked \in BOOLEAN
    BY <1>1 DEF TerminalTypeOK
  <2>2. CASE ProcessControl
    BY <1>10, <2>2 DEF Top
  <2>3. CASE Drain \/ NoControl \/ SelectChunk \/ SelectTimer \/ Finish \/ Discard
    <3>1. UNCHANGED <<control, acked>>
      BY <1>9, <1>11, <1>12, <1>13, <1>14, <1>15, <2>3
    <3>2. /\ Moved /\ coalescer' \in {"drain", "controls", "select", "discard", "done"}
          /\ coalescer' = "discard" => writeFailed'
      BY <1>9, <1>11, <1>12, <1>13, <1>14, <1>15, <2>3 DEF Top
    <3> QED  BY <2>1, <3>1, <3>2
  <2> QED  BY <2>2, <2>3 DEF Coalescer
<1>17. TerminalTypeOK'
  BY <1>1, <1>3, <1>16 DEF TerminalTypeOK, Moved, Flags
<1>18. DataTypes'
  BY <1>1, <1>3, <1>16 DEF DataTypes, Moved
<1>19. Control'
  <2>1. writeFailed' => browser' = "closed" /\ lost'
    BY <1>1, <1>3, <1>16 DEF Control, Moved, Flags
  <2> QED  BY <1>1, <1>3, <1>16, <2>1 DEF Control
<1>20. RingInv'
  BY <1>1, <1>3 DEF RingInv
<1> QED  BY <1>16, <1>17, <1>18, <1>19, <1>20 DEF TInv, Moved

\* The session's end, the browser's and the main loop's.
LEMMA EndStep ==
  ASSUME TInv, SignalDone \/ BrowserCloses \/ MainEnds
  PROVE  TInv'
<1>1. TerminalTypeOK /\ DataTypes /\ RingInv /\ Flow /\ Control
  BY DEF TInv
<1>2. UNCHANGED <<gated, lost, shellVars, daemonVars, replayBuf, liveBuf, replaySeen, boundaryEmitted,
                  readerVars, channelVars, coalVars, nudged>>
  BY DEF SignalDone, BrowserCloses, MainEnds, sessVars, connVars
<1>3. /\ sessDone' \in {sessDone, TRUE} /\ browser' \in {browser, "closed"} /\ main' \in {main, "ended"}
  BY DEF SignalDone, BrowserCloses, MainEnds, sessVars, connVars
<1>4. Flow'
  BY <1>1, <1>2, <1>3, FlowSame DEF shellVars, daemonVars, readerVars, channelVars, coalVars
<1>5. TerminalTypeOK'
  <2>1. sessDone' \in BOOLEAN /\ browser' \in {"open", "closed"} /\ main' \in {"reading", "closing", "ended"}
    BY <1>1, <1>3 DEF TerminalTypeOK
  <2> QED  BY <1>1, <1>2, <2>1 DEF TerminalTypeOK, shellVars, daemonVars, readerVars, channelVars, coalVars
<1>6. DataTypes'
  BY <1>1, <1>2 DEF DataTypes, shellVars, daemonVars, readerVars, channelVars, coalVars
<1>7. Control'
  BY <1>1, <1>2, <1>3 DEF Control, readerVars, coalVars
<1>8. RingInv'
  BY <1>1, <1>2 DEF RingInv, shellVars
<1> QED  BY <1>4, <1>5, <1>6, <1>7, <1>8 DEF TInv

-----------------------------------------------------------------------------
\* The path starts empty.
LEMMA TerminalStart ==
  ASSUME TerminalInit
  PROVE  TInv
<1>1. /\ printed = 0 /\ unsent = <<>> /\ replay = <<>> /\ queue = <<>> /\ replayBuf = <<>> /\ liveBuf = <<>>
      /\ reader = Idle /\ chunks = <<>> /\ buffered = <<>> /\ feed = <<>> /\ client = "absent" /\ from = 1
  BY DEF TerminalInit
<1>2. RingSize \in Nat \ {0} /\ QueueCap \in Nat /\ BufferCap \in Nat /\ ChunkCap \in Nat /\ MaxFrame \in Nat \ {0}
  BY TerminalAssumption
<1>3. RingInv
  BY <1>1, <1>2 DEF TerminalInit, newRingBuffer, RingInv, RingHolds
<1>4. TerminalTypeOK
  <2>1. printed \in 0..MaxPrinted
    BY <1>1, TerminalAssumption
  <2>2. ring.size \in 0..RingSize /\ ring.head \in 0..(RingSize - 1) /\ ring.tail \in 0..(RingSize - 1)
    BY <1>1, <1>3, RingFields DEF RingInv
  <2>3. /\ gated \in Modes /\ lost \in BOOLEAN /\ alive \in BOOLEAN
        /\ {replaySeen, boundaryEmitted, sessDone, firstChunkDone, inReplay, chunksClosed,
            acked, writeFailed, nudged} \subseteq BOOLEAN
    BY DEF TerminalInit
  <2>4. /\ control = "none" /\ coalescer = "drain" /\ browser = "open" /\ main = "reading" /\ reader.pc = "call"
    BY DEF TerminalInit, Idle
  <2>5. /\ queue \in Seq(Frames) /\ Len(queue) <= QueueCap /\ Len(replayBuf) <= BufferCap /\ Len(liveBuf) <= BufferCap
        /\ Len(chunks) <= ChunkCap /\ Len(buffered) < MaxFrame
    BY <1>1, <1>2
  <2> QED  BY <1>1, <2>1, <2>2, <2>3, <2>4, <2>5 DEF TerminalTypeOK
<1>5. DataTypes
  BY <1>1 DEF DataTypes, Idle, Kinds
<1>6. Control
  BY DEF TerminalInit, Control, Idle
<1>7. \A K : Of(<<>>, K) = {} /\ ChunksOf(<<>>, K) = {} /\ QueueOf(<<>>, K) = {}
  BY DEF Of, ChunksOf, QueueOf
<1>8. \A K \in Kinds : ReaderOf(K) = {} /\ BufOf(K) = {} /\ SourceOf(K) = {}
  BY <1>1, EmptyRange DEF ReaderOf, BufOf, SourceOf, Idle
<1>9. ASSUME NEW K \in Kinds
      PROVE  StageInv(K) /\ Whole(Stages(K)) = {} /\ Downstream(Stages(K)) = {}
  <2>1. Whole(Stages(K)) = {} /\ Downstream(Stages(K)) = {}
    BY <1>1, <1>7, <1>8, StagesNow
  <2>2. \A i \in 1..7 : Stages(K)[i] = {}
    BY <2>1 DEF Whole
  <2>3. Chain(Stages(K))
    BY <2>2 DEF Chain, Below
  <2> QED  BY <1>1, <2>1, <2>3 DEF StageInv, Sorted
<1>10. SeqInv
  BY <1>1, EmptyRange DEF SeqInv, LastPrinted, Stretch, Idle
<1>11. OneReplay
  BY <1>1, <1>7, <1>9 DEF OneReplay, Convex, Kinds
<1>12. Gapless
  BY <1>1 DEF Gapless
<1> QED  BY <1>3, <1>4, <1>5, <1>6, <1>9, <1>10, <1>11, <1>12 DEF TInv, Flow

\* A step that changes nothing.
LEMMA TerminalStutter ==
  ASSUME TInv, UNCHANGED terminalVars
  PROVE  TInv'
<1>1. UNCHANGED <<gated, lost, printed, ring, unsent, alive, client, replay, from, queue, replayBuf, liveBuf, replaySeen,
                  boundaryEmitted, sessDone, reader, firstChunkDone, inReplay, chunks, chunksClosed, control,
                  acked, buffered, coalescer, writeFailed, feed, browser, nudged, main>>
  BY DEF terminalVars, shellVars, daemonVars, sessVars, readerVars, channelVars, coalVars, connVars
<1>2. Flow'
  BY <1>1, FlowSame DEF TInv
<1> QED  BY <1>1, <1>2 DEF TInv, TerminalTypeOK, DataTypes, RingInv, Control

\* TInv is inductive.
LEMMA TerminalStep ==
  ASSUME TInv, [TerminalNext]_terminalVars
  PROVE  TInv'
<1>1. CASE PumpRead
  BY <1>1, PumpReadStep
<1>2. CASE Broadcast \/ AddClient \/ TakeSnapshot \/ QueueReplay \/ Shutdown \/ MainCloses
  BY <1>2, DaemonStep
<1>3. CASE ReadFrame
  BY <1>3, ReadFrameStep
<1>4. CASE Reader
  BY <1>4, ReaderStep
<1>5. CASE Coalescer
  BY <1>5, CoalescerStep
<1>6. CASE SignalDone \/ BrowserCloses \/ MainEnds
  BY <1>6, EndStep
<1>7. CASE UNCHANGED terminalVars
  BY <1>7, TerminalStutter
<1> QED  BY <1>1, <1>2, <1>3, <1>4, <1>5, <1>6, <1>7 DEF TerminalNext, Daemon, Session, Main

\* The invariant of the path, for every capacity and every write of the
\* shell.
THEOREM PathIsKept == TerminalSpec => []TInv
<1>1. TerminalInit => TInv
  BY TerminalStart
<1>2. TInv /\ [TerminalNext]_terminalVars => TInv'
  BY TerminalStep
<1> QED  BY <1>1, <1>2, PTL DEF TerminalSpec

\* RingKeepsTail for every ring, however the shell's writes fall.
THEOREM RingTheorem == TerminalSpec => []RingKeepsTail
<1>1. TInv => RingKeepsTail
  <2> SUFFICES ASSUME TInv  PROVE RingKeepsTail
    OBVIOUS
  <2>1. RingInv /\ printed \in Nat /\ RingSize \in Nat \ {0}
    BY TerminalAssumption DEF TInv, TerminalTypeOK
  <2>2. PICK kept : kept = IF printed < RingSize THEN printed ELSE RingSize
    OBVIOUS
  <2>3. ring.size = kept
    BY <2>1, <2>2 DEF RingInv, RingHolds
  <2>4. ASSUME NEW k \in 0..RingSize, NEW m, m = IF k < kept THEN k ELSE kept
        PROVE  SnapshotTail(ring, k) = [i \in 1..m |-> printed - m + i]
    <3>1. k \in Nat
      BY <2>1
    <3>2. m = IF k < ring.size THEN k ELSE ring.size
      BY <2>3, <2>4
    <3> QED  BY <2>1, <3>1, <3>2, RingTail
  <2> QED  BY <2>2, <2>4 DEF RingKeepsTail
<1> QED  BY <1>1, PathIsKept, PTL

\* Every byte of a stage other than the pump's is in the pipeline.
LEMMA StagesInPipeline ==
  ASSUME DataTypes, NEW K \in Kinds, NEW y \in Whole(Stages(K))
  PROVE  y \in InPipeline \/ y \in Range(unsent)
<1>1. Whole(Stages(K)) = Of(feed, K) \cup Of(buffered, K) \cup ChunksOf(chunks, K) \cup ReaderOf(K) \cup BufOf(K)
                           \cup QueueOf(queue, K) \cup SourceOf(K)
  BY StagesNow
<1>2. Of(feed, K) \subseteq Bytes(feed) /\ Of(buffered, K) \subseteq Bytes(buffered)
  BY DEF Of, Bytes
<1>3. ChunksOf(chunks, K) \subseteq UNION {Bytes(chunks[i]) : i \in DOMAIN chunks}
  <2>1. \A i \in DOMAIN chunks : Of(chunks[i], K) \subseteq Bytes(chunks[i])
    BY DEF Of, Bytes
  <2> QED  BY <2>1 DEF ChunksOf
<1>4. ReaderOf(K) \subseteq Range(reader.bytes)
  BY DEF ReaderOf
<1>5. BufOf(K) \subseteq Range(liveBuf) \cup Range(replayBuf)
  BY DEF BufOf
<1>6. QueueOf(queue, K) \subseteq FrameBytes
  <2>1. \A i \in DOMAIN queue : FrameOf(queue[i], K) \subseteq Range(queue[i].bytes)
    BY DEF FrameOf
  <2> QED  BY <2>1 DEF QueueOf, FrameBytes
<1>7. SourceOf(K) \subseteq Range(unsent) \cup Range(replay)
  BY DEF SourceOf
<1>8. PICK U : U = UNION {Bytes(chunks[i]) : i \in DOMAIN chunks}
  OBVIOUS
<1>9. InPipeline = Range(replay) \cup FrameBytes \cup Range(replayBuf) \cup Range(liveBuf) \cup Range(reader.bytes)
                     \cup U \cup Bytes(buffered) \cup Bytes(feed)
  BY <1>8 DEF InPipeline
<1>10. ChunksOf(chunks, K) \subseteq U
  BY <1>3, <1>8
<1> QED  BY <1>1, <1>2, <1>4, <1>5, <1>6, <1>7, <1>9, <1>10

\* PathInv: every buffer within its limit, and no byte missing.
THEOREM PathTheorem == TerminalSpec => []PathInv
<1>1. TInv => PathInv
  <2> SUFFICES ASSUME TInv, client \in {"snapped", "attached"}, ~lost, NEW y \in from..(printed - Len(unsent))
               PROVE  y \in InPipeline
    BY DEF TInv, PathInv, NoGap
  <2>1. DataTypes /\ Flow /\ printed \in Nat /\ unsent \in Seq(Byte) /\ Len(unsent) \in Nat /\ from \in Int
    BY TerminalAssumption DEF TInv, TerminalTypeOK, DataTypes
  <2>2. y \in from..printed /\ y <= printed - Len(unsent)
    BY <2>1
  <2>3. y \in Whole(Stages("live")) \/ y \in Whole(Stages("replay"))
    BY <2>1, <2>2 DEF Flow, Gapless
  <2>4. y \notin Range(unsent)
    <3>1. Range(unsent) = (printed - Len(unsent) + 1)..printed
      BY <2>1, LastPrintedFacts DEF Flow, SeqInv, LastPrinted
    <3> QED  BY <2>1, <2>2, <3>1
  <2> QED  BY <2>1, <2>3, <2>4, StagesInPipeline DEF Kinds
<1> QED  BY <1>1, PathIsKept, PTL

-----------------------------------------------------------------------------
\* What the viewer has seen is orderly, as long as the browser is there.
LEMMA FeedOrderly ==
  ASSUME TInv, browser = "open"
  PROVE  Viewer!Orderly(feed) /\ \A i \in DOMAIN feed : feed[i].b <= printed
<1>1. DataTypes /\ Flow /\ printed \in Nat /\ feed \in Seq(Item) /\ DOMAIN feed = 1..Len(feed) /\ Len(feed) \in Nat
  BY TerminalAssumption DEF TInv, TerminalTypeOK, DataTypes
<1>2. ASSUME NEW K \in Kinds
      PROVE  /\ Sorted(feed, K) /\ Chain(Stages(K)) /\ Whole(Stages(K)) \subseteq 1..printed
             /\ Of(feed, K) = Stages(K)[1] /\ Of(feed, K) \subseteq Whole(Stages(K))
  BY <1>1, StagesNow DEF Flow, StageInv
<1>3. ASSUME NEW i \in DOMAIN feed
      PROVE  feed[i].b \in Nat /\ feed[i].b <= printed
  <2>1. feed[i] \in Item
    BY <1>1
  <2>2. CASE feed[i].k \in Kinds
    <3>1. feed[i].b \in Of(feed, feed[i].k)
      BY InOf
    <3>2. feed[i].b \in 1..printed
      BY <1>2, <2>2, <3>1
    <3> QED  BY <1>1, <3>2
  <2>3. CASE feed[i].k \notin Kinds
    <3>1. feed[i].b = 0
      BY <2>1, <2>3 DEF Item
    <3> QED  BY <1>1, <3>1
  <2> QED  BY <2>2, <2>3
<1>4. ASSUME NEW i \in DOMAIN feed, NEW j \in DOMAIN feed, i < j, Viewer!Both(feed, i, j, "live")
      PROVE  feed[i].b < feed[j].b
  BY <1>2, <1>4 DEF Viewer!Both, Sorted, Kinds
<1>5. ASSUME NEW i \in DOMAIN feed, NEW j \in DOMAIN feed, i < j, Viewer!Both(feed, i, j, "replay"),
             \A n \in (i + 1)..(j - 1) : feed[n].k # "replay"
      PROVE  feed[j].b = feed[i].b + 1
  <2>1. feed[i].k = "replay" /\ feed[j].k = "replay" /\ "replay" \in Kinds
    BY <1>5 DEF Viewer!Both, Kinds
  <2>2. feed[i].b < feed[j].b /\ feed[i].b \in Nat /\ feed[j].b \in Nat
    BY <1>2, <1>3, <1>5, <2>1 DEF Sorted
  <2>3. SUFFICES ASSUME feed[i].b + 1 < feed[j].b  PROVE FALSE
    BY <2>2
  <2>4. PICK y \in Nat : y = feed[i].b + 1 /\ feed[i].b < y /\ y < feed[j].b
    BY <2>2, <2>3
  <2>5. feed[i].b \in Of(feed, "replay") /\ feed[j].b \in Of(feed, "replay")
    BY <2>1, InOf
  <2>6. y \in Whole(Stages("replay"))
    <3>1. Convex(Whole(Stages("replay")))
      BY <1>1 DEF Flow, OneReplay
    <3>2. feed[i].b \in Whole(Stages("replay")) /\ feed[j].b \in Whole(Stages("replay"))
      BY <1>2, <2>1, <2>5
    <3>3. y \in feed[i].b..feed[j].b
      BY <2>2, <2>4
    <3> QED  BY <3>1, <3>2, <3>3 DEF Convex
  <2>7. y \in Of(feed, "replay")
    <3>1. PICK s \in 1..7 : y \in Stages("replay")[s]
      BY <2>6 DEF Whole
    <3>2. CASE s = 1
      BY <1>2, <2>1, <3>1, <3>2
    <3>3. CASE s # 1
      <4>1. 1 < s /\ 1 \in 1..7
        BY <3>3
      <4>2. Below(Stages("replay")[1], Stages("replay")[s])
        BY <1>2, <2>1, <4>1 DEF Chain
      <4>3. feed[j].b < y
        BY <1>2, <2>1, <2>5, <3>1, <4>2 DEF Below
      <4> QED  BY <2>2, <2>4, <4>3
    <3> QED  BY <3>2, <3>3
  <2>8. PICK n \in DOMAIN feed : feed[n].k = "replay" /\ feed[n].b = y
    BY <2>7, InOf
  <2>9. i < n /\ n < j
    <3>1. Sorted(feed, "replay")
      BY <1>2, <2>1
    <3>2. ~(n < i) /\ n # i
      BY <2>1, <2>2, <2>4, <2>8, <3>1 DEF Sorted
    <3>3. ~(j < n) /\ n # j
      BY <2>1, <2>2, <2>4, <2>8, <3>1 DEF Sorted
    <3> QED  BY <1>1, <3>2, <3>3
  <2>10. n \in (i + 1)..(j - 1)
    BY <1>1, <2>9
  <2> QED  BY <1>5, <2>8, <2>10
<1> QED  BY <1>3, <1>4, <1>5 DEF Viewer!Orderly

\* Only the coalescer adds to the feed, and only for a browser that is there.
LEMMA FeedGrows ==
  ASSUME TInv, TerminalNext
  PROVE  \/ feed' = feed /\ (printed' = printed \/ printed' > printed)
         \/ /\ printed' = printed /\ browser' = "open"
            /\ \E items \in Seq(Item) : feed' = feed \o items
<1>1. printed \in Nat /\ feed \in Seq(Item) /\ buffered \in Seq(Item) /\ chunks \in Seq(Seq(Item))
  BY TerminalAssumption DEF TInv, TerminalTypeOK, DataTypes
<1>2. CASE PumpRead
  <2>1. feed' = feed /\ \E m \in 1..MaxChunk : printed' = printed + m
    BY <1>2 DEF PumpRead, coalVars
  <2>2. printed' > printed
    BY <1>1, <2>1, TerminalAssumption
  <2> QED  BY <2>1, <2>2
<1>3. ASSUME NEW items \in Seq(Item), NEW rest, Write(items, rest), UNCHANGED CoalescerRest
      PROVE  \/ feed' = feed /\ (printed' = printed \/ printed' > printed)
             \/ /\ printed' = printed /\ browser' = "open"
                /\ \E its \in Seq(Item) : feed' = feed \o its
  <2>1. UNCHANGED <<printed, browser>>
    BY <1>3 DEF CoalescerRest, shellVars
  <2>2. CASE items = <<>>
    <3>1. feed' = feed
      BY <1>1, <1>3, <2>2 DEF Write
    <3> QED  BY <2>1, <3>1
  <2>3. CASE items # <<>> /\ browser = "open"
    BY <1>3, <2>1, <2>3 DEF Write
  <2>4. CASE items # <<>> /\ browser # "open"
    BY <1>3, <2>1, <2>4 DEF Write
  <2> QED  BY <2>2, <2>3, <2>4
<1>4. ASSUME chunks # <<>>, AppendChunk(buffered \o Head(chunks)), UNCHANGED CoalescerRest
      PROVE  \/ feed' = feed /\ (printed' = printed \/ printed' > printed)
             \/ /\ printed' = printed /\ browser' = "open"
                /\ \E its \in Seq(Item) : feed' = feed \o its
  <2>1. PICK all \in Seq(Item) : all = buffered \o Head(chunks)
    <3>1. Head(chunks) \in Seq(Item)
      BY <1>1, <1>4
    <3> QED  BY <1>1, <3>1, ConcatProperties
  <2>2. PICK n : n = (Len(all) \div MaxFrame) * MaxFrame
    OBVIOUS
  <2>3. n \in 0..Len(all)
    <3>1. Len(all) \in Nat /\ MaxFrame \in Nat \ {0}
      BY TerminalAssumption
    <3> QED  BY <2>2, <3>1, DivPart
  <2>4. SubSeq(all, 1, n) \in Seq(Item)
    BY <2>3, OfSplit DEF Kinds
  <2> QED  BY <1>3, <1>4, <2>1, <2>2, <2>4 DEF AppendChunk
<1>5. CASE Coalescer
  <2>1. UNCHANGED CoalescerRest
    BY <1>5 DEF Coalescer, Drain, ProcessControl, NoControl, SelectChunk, SelectTimer, Finish, Discard
  <2>2. CASE chunks # <<>> /\ AppendChunk(buffered \o Head(chunks))
    BY <1>4, <2>1, <2>2
  <2>3. CASE ProcessControl
    <3>1. control \in {"start", "end"}
      BY <2>3 DEF ProcessControl, TInv, TerminalTypeOK
    <3>2. [k |-> control, b |-> 0] \in Item
      BY <3>1 DEF Item
    <3>3. Append(buffered, [k |-> control, b |-> 0]) \in Seq(Item)
      BY <1>1, <3>2
    <3> QED  BY <1>3, <2>1, <2>3, <3>3 DEF ProcessControl
  <2>4. CASE Write(buffered, <<>>)
    BY <1>1, <1>3, <2>1, <2>4
  <2>5. CASE feed' = feed
    BY <2>1, <2>5 DEF CoalescerRest, shellVars
  <2> QED  BY <1>5, <2>2, <2>3, <2>4, <2>5
           DEF Coalescer, Drain, NoControl, SelectChunk, SelectTimer, Finish, Discard
<1>6. CASE ~PumpRead /\ ~Coalescer
  <2>1. UNCHANGED <<feed, printed>>
    BY <1>6 DEF TerminalNext, Daemon, Session, Reader, Main, Broadcast, AddClient, TakeSnapshot, QueueReplay,
                Shutdown, ReadFrame, SignalDone, ReadFramed, ReadFramedWoken, ReadFlat, SubmitControl, ControlAcked,
                Submit, ReaderCloses, ReaderDone, BrowserCloses, MainCloses, MainEnds, coalVars, shellVars
  <2> QED  BY <2>1
<1> QED  BY <1>2, <1>5, <1>6

\* The path implements TerminalFeed.
THEOREM FeedTheorem == TerminalSpec => FeedKept
<1>1. TerminalInit => Viewer!FeedInit
  BY DEF TerminalInit, Viewer!FeedInit
<1>2. TInv /\ browser = "open" => Viewer!Orderly(feed) /\ \A i \in DOMAIN feed : feed[i].b <= printed
  BY FeedOrderly
<1>3. TInv /\ TInv' /\ [TerminalNext]_terminalVars => [Viewer!PrintBytes \/ Viewer!Show]_<<printed, feed>>
  <2> SUFFICES ASSUME TInv, TInv', TerminalNext, ~UNCHANGED <<printed, feed>>
               PROVE  Viewer!PrintBytes \/ Viewer!Show
    BY DEF terminalVars, shellVars, coalVars
  <2>1. CASE feed' = feed
    <3>1. printed' > printed
      BY <2>1, FeedGrows
    <3> QED  BY <2>1, <3>1 DEF Viewer!PrintBytes
  <2>2. CASE feed' # feed
    <3>1. PICK items \in Seq(Item) : feed' = feed \o items
      BY <2>2, FeedGrows
    <3>2. printed' = printed /\ browser' = "open"
      BY <2>2, FeedGrows
    <3>3. (TInv /\ browser = "open")'
      BY <3>2
    <3>4. (Viewer!Orderly(feed) /\ \A i \in DOMAIN feed : feed[i].b <= printed)'
      BY <1>2, <3>3, PTL
    <3>5. Viewer!IsPrefix(feed, feed')
      <4>1. feed \in Seq(Item)
        BY DEF TInv, DataTypes
      <4>2. /\ Len(feed) \in Nat /\ Len(feed') = Len(feed) + Len(items) /\ Len(items) \in Nat
            /\ \A i \in 1..Len(feed) : feed'[i] = feed[i]
        BY <3>1, <4>1, ConcatProperties
      <4>3. SubSeq(feed, 1, Len(feed)) = feed
        BY <4>1
      <4>4. SubSeq(feed', 1, Len(feed)) = feed
        BY <3>1, <4>1, <4>2
      <4> QED  BY <4>2, <4>3, <4>4 DEF Viewer!IsPrefix
    <3>6. Viewer!Orderly(feed') /\ \A i \in DOMAIN feed' : feed'[i].b <= printed
      BY <3>2, <3>4 DEF Viewer!Orderly, Viewer!Both
    <3> QED  BY <2>2, <3>2, <3>5, <3>6 DEF Viewer!Show
  <2> QED  BY <2>1, <2>2
<1> QED  BY <1>1, <1>3, PathIsKept, PTL DEF TerminalSpec, FeedKept, Viewer!FeedSpec

-----------------------------------------------------------------------------
(* PeerStreams, for any peers, body and wire. *)

USE PeerStreamsAssumption

Frame == {"chunk", "eof", "abort"}

\* The end that registers the token has done so.
Registered ==
  IF request.viewerDials THEN host \in {"waiting", "open", "blocked", "ended"} ELSE viewer # "start"

SetupInv ==
  /\ \A p \in Peers : claim[p] \in {"matched", "claimed"} => p = Expected
  /\ OnlyExpectedPeer
  /\ Registered => pending \/ expired
  /\ pending \/ expired => ~ Waiting(Expected)
  /\ viewer = "waiting" => ~ request.viewerDials
  /\ host = "waiting" => request.viewerDials

\* The viewer may still send chunks.
Early == viewer \in {"start", "asking", "waiting", "open"}

\* The host is asked once, and answers once, when it ends.
OrderInv ==
  /\ viewer \in {"start", "asking"} => ask = "none"
  /\ ask \in {"none", "sent"} => host = "idle"
  /\ file = "kept" => host = "ended" /\ stored = request.body
  /\ file = "failed" => request.upload /\ host \in {"open", "blocked"}
  /\ host # "ended" => reply = "none"
  /\ reply = "path" => file = "kept"
  /\ request.upload /\ viewer = "ok" => reply = "path"

FlowInv ==
  /\ wire \in Seq(Frame)
  /\ sent <= request.body
  /\ Early => \A k \in 1 .. Len(wire) : wire[k] = "chunk"
  /\ Early /\ ~ Broken /\ file # "failed" => stored + Len(wire) = sent
  /\ \A k \in 1 .. Len(wire) : wire[k] = "chunk" => stored + k <= sent
  /\ host # "ended" /\ file # "failed" =>
       \A k \in 1 .. Len(wire) : wire[k] = "eof" =>
          stored + k = sent + 1 /\ sent = request.body

\* The types, without the length of the wire and the size of a set.
Types ==
  /\ request \in [upload: BOOLEAN, viewerDials: BOOLEAN, body: 0..MaxBody]
  /\ viewer \in {"start", "asking", "waiting", "open", "result", "aborting"} \cup ViewerEnded
  /\ host \in {"idle", "opening", "waiting", "open", "blocked", "ended"}
  /\ ask \in {"none", "sent", "lost", "taken"}
  /\ pending \in BOOLEAN /\ expired \in BOOLEAN /\ timedOut \in BOOLEAN
  /\ claim \in [Peers -> {"none", "sent", "waiting", "matched", "dropped",
                           "claimed", "resolved", "refused"}]
  /\ closed \subseteq {"viewer", "host", "listener"}
  /\ Len(wire) <= WireCap
  /\ sent \in 0..MaxBody /\ stored \in 0..sent
  /\ file \in {"none", "open", "failed", "kept"}
  /\ reply \in {"none", "path", "error"}

PInv == Types /\ SetupInv /\ OrderInv /\ FlowInv

\* The initial states satisfy the invariant.
LEMMA InitStreams == Init => PInv
<1> SUFFICES ASSUME Init PROVE PInv
  OBVIOUS
<1>1. Types
  <2>1. claim \in [Peers -> {"none", "sent", "waiting", "matched", "dropped",
                             "claimed", "resolved", "refused"}]
    BY DEF Init
  <2>2. Len(wire) <= WireCap /\ sent \in 0..MaxBody /\ stored \in 0..sent
    BY DEF Init
  <2> QED  BY <2>1, <2>2 DEF Init, Types
<1>2. SetupInv
  BY DEF Init, SetupInv, OnlyExpectedPeer, Registered, Waiting
<1>3. OrderInv
  BY DEF Init, OrderInv
<1>4. FlowInv
  <2>1. wire \in Seq(Frame) /\ Len(wire) = 0
    BY DEF Init
  <2>2. sent = 0 /\ stored = 0 /\ request.body \in Nat
    BY <1>1 DEF Init, Types
  <2> QED  BY <2>1, <2>2 DEF FlowInv
<1> QED  BY <1>1, <1>2, <1>3, <1>4 DEF PInv

-----------------------------------------------------------------------------
\* Register keeps what holds of the registry: afterwards the token is pending
\* or expired, and Expected does not wait.
LEMMA RegisterFacts ==
  ASSUME Types, SetupInv, Register
  PROVE  /\ pending' \in BOOLEAN /\ expired' \in BOOLEAN
         /\ claim' \in [Peers -> {"none", "sent", "waiting", "matched", "dropped",
                                  "claimed", "resolved", "refused"}]
         /\ \A p \in Peers : claim'[p] \in {"matched", "claimed"} => p = Expected
         /\ pending' \/ expired'
         /\ claim'[Expected] # "waiting"
<1>1. CASE expired
  BY <1>1 DEF Register, registry, Types, SetupInv, Waiting
<1>2. CASE ~ expired /\ \E p \in Peers : Matches(p)
  BY <1>2 DEF Register, DropWaiters, Matches, Types, SetupInv, Waiting
<1>3. CASE ~ expired /\ \A p \in Peers : ~ Matches(p)
  BY <1>3 DEF Register, Matches, Types, SetupInv, Waiting
<1> QED  BY <1>1, <1>2, <1>3

\* A step of the registry, which leaves the handlers and the transfer alone,
\* keeps the rest of the invariant.
LEMMA RegistryStep ==
  ASSUME PInv, UNCHANGED <<request, viewer, host, ask, transfer>>, closed \subseteq closed',
         closed' \subseteq {"viewer", "host", "listener"}
  PROVE  OrderInv' /\ FlowInv'
  BY DEF PInv, OrderInv, FlowInv, transfer, Early, Broken

\* The steps of the registry keep the invariant.
LEMMA RegistryKeeps ==
  ASSUME PInv, Expire \/ \E p \in Peers : Claim(p) \/ ClaimReturns(p) \/ Resolve(p) \/ Stray(p)
  PROVE  PInv'
<1> USE DEF PInv, Types, SetupInv, OnlyExpectedPeer, Registered, Waiting, transfer
<1>1. CASE Expire
  <2>1. OrderInv' /\ FlowInv'  BY <1>1, RegistryStep DEF Expire
  <2>2. Types' /\ SetupInv'
    <3>1. pending' \in BOOLEAN /\ expired' \in BOOLEAN /\ timedOut' \in BOOLEAN /\ expired' = TRUE
      BY <1>1 DEF Expire
    <3>2. /\ claim' \in [Peers -> {"none", "sent", "waiting", "matched", "dropped",
                                    "claimed", "resolved", "refused"}]
          /\ \A q \in Peers : claim'[q] \in {claim[q], "dropped"} /\ claim'[q] # "waiting"
      BY <1>1 DEF Expire, DropWaiters
    <3>3. UNCHANGED <<request, viewer, host, ask, resolved, used, closed, transfer>>
      BY <1>1 DEF Expire
    <3>4. Types'     BY <3>1, <3>2, <3>3
    <3>5. SetupInv'  BY <3>1, <3>2, <3>3
    <3> QED  BY <3>4, <3>5
  <2> QED  BY <2>1, <2>2
<1>2. ASSUME NEW p \in Peers, Claim(p)  PROVE PInv'
  <2>1. closed \subseteq closed' /\ closed' \subseteq {"viewer", "host", "listener"}
    BY <1>2 DEF Claim, AfterClaim
  <2>2. OrderInv' /\ FlowInv'  BY <1>2, <2>1, RegistryStep DEF Claim
  <2>3. Types' /\ SetupInv'
    <3>1. CASE expired \/ (pending /\ ~ Entitled(p))
      <4>1. claim' = [claim EXCEPT ![p] = "refused"] /\ UNCHANGED <<pending, expired>>
        BY <1>2, <3>1 DEF Claim
      <4> QED  BY <1>2, <2>1, <4>1 DEF Claim
    <3>2. CASE ~ expired /\ pending /\ Entitled(p)
      <4>1. /\ claim' = DropWaiters([claim EXCEPT ![p] = "claimed"])
            /\ pending' = FALSE /\ expired' = TRUE /\ p = Expected
        BY <1>2, <3>2 DEF Claim, Entitled
      <4>2. /\ claim' \in [Peers -> {"none", "sent", "waiting", "matched", "dropped",
                                      "claimed", "resolved", "refused"}]
            /\ claim'[Expected] = "claimed"
            /\ \A q \in Peers \ {Expected} : claim'[q] \in {claim[q], "dropped"}
        BY <4>1 DEF DropWaiters
      <4>3. UNCHANGED <<request, viewer, host, ask, resolved, used, transfer, timedOut>>
        BY <1>2 DEF Claim
      <4>4. Types'
        <5>1. pending' \in BOOLEAN /\ expired' \in BOOLEAN
          BY <4>1
        <5> QED  BY <2>1, <4>2, <4>3, <5>1
      <4>5. SetupInv'  BY <4>1, <4>2, <4>3
      <4> QED  BY <4>4, <4>5
    <3>3. CASE ~ expired /\ ~ pending
      <4>1. claim' = [claim EXCEPT ![p] = "waiting"] /\ UNCHANGED <<pending, expired>>
        BY <1>2, <3>3 DEF Claim
      <4> QED  BY <1>2, <2>1, <3>3, <4>1 DEF Claim
    <3> QED  BY <3>1, <3>2, <3>3
  <2> QED  BY <2>2, <2>3
<1>3. ASSUME NEW p \in Peers, ClaimReturns(p)  PROVE PInv'
  <2>1. closed \subseteq closed' /\ closed' \subseteq {"viewer", "host", "listener"}
    BY <1>3 DEF ClaimReturns, AfterClaim
  <2>2. OrderInv' /\ FlowInv'  BY <1>3, <2>1, RegistryStep DEF ClaimReturns
  <2>3. Types' /\ SetupInv'
    <3>1. PICK c \in {"claimed", "refused"} :
            /\ claim' = [claim EXCEPT ![p] = c]
            /\ c = "claimed" => claim[p] = "matched"
      BY <1>3 DEF ClaimReturns
    <3>2. timedOut' \in BOOLEAN
      BY <1>3 DEF ClaimReturns
    <3> QED  BY <1>3, <2>1, <3>1, <3>2 DEF ClaimReturns
  <2> QED  BY <2>2, <2>3
<1>4. ASSUME NEW p \in Peers, Resolve(p)  PROVE PInv'
  <2>1. closed \subseteq closed' /\ closed' \subseteq {"viewer", "host", "listener"}
    BY <1>4 DEF Resolve
  <2>2. OrderInv' /\ FlowInv'  BY <1>4, <2>1, RegistryStep DEF Resolve
  <2>3. Types' /\ SetupInv'
    BY <1>4, <2>1 DEF Resolve
  <2> QED  BY <2>2, <2>3
<1>5. ASSUME NEW p \in Peers, Stray(p)  PROVE PInv'
  <2>1. OrderInv' /\ FlowInv'  BY <1>5, RegistryStep DEF Stray
  <2>2. Types' /\ SetupInv'
    BY <1>5 DEF Stray
  <2> QED  BY <2>1, <2>2
<1> QED  BY <1>1, <1>2, <1>3, <1>4, <1>5

-----------------------------------------------------------------------------
\* The two handlers' setup keeps the invariant.
LEMMA SetupKeeps ==
  ASSUME PInv, \/ ViewerSetsUp \/ ViewerAsks \/ AskLost \/ HostAsked \/ HostSetsUp
               \/ ViewerWaits \/ HostWaits
  PROVE  PInv'
<1> USE DEF PInv, OnlyExpectedPeer, transfer, registry, ViewerEnded
<1>1. CASE ViewerSetsUp
  <2>1. OrderInv' /\ FlowInv'
    BY <1>1 DEF ViewerSetsUp, OrderInv, FlowInv, Early, Broken
  <2>2. CASE request.viewerDials
    <3>1. timedOut' \in BOOLEAN
      BY <1>1, <2>2 DEF ViewerSetsUp, Types
    <3>2. /\ UNCHANGED <<request, host, ask, pending, expired, resolved, used, closed, transfer>>
          /\ viewer' \in {"asking", "failed"} /\ viewer = "start"
          /\ claim' = [claim EXCEPT ![Expected] = "sent"] \/ UNCHANGED claim
      BY <1>1, <2>2 DEF ViewerSetsUp, Dial
    <3>3. Types'
      BY <3>1, <3>2 DEF Types
    <3>4. SetupInv'
      BY <2>2, <3>2 DEF Types, SetupInv, Registered, Waiting
    <3> QED  BY <2>1, <3>3, <3>4
  <2>3. CASE ~ request.viewerDials
    BY <1>1, <2>1, <2>3, RegisterFacts DEF ViewerSetsUp, Types, SetupInv, Registered, Waiting
  <2> QED  BY <2>2, <2>3
<1>2. CASE ViewerAsks
  BY <1>2 DEF ViewerAsks, Types, SetupInv, OrderInv, FlowInv, Early, Broken, Registered, Waiting
<1>3. CASE AskLost
  BY <1>3 DEF AskLost, Types, SetupInv, OrderInv, FlowInv, Early, Broken, Registered, Waiting
<1>4. CASE HostAsked
  BY <1>4 DEF HostAsked, Types, SetupInv, OrderInv, FlowInv, Early, Broken, Registered, Waiting
<1>5. CASE HostSetsUp
  <2>1. OrderInv' /\ FlowInv'
    BY <1>5 DEF HostSetsUp, OpenFile, OrderInv, FlowInv, Early, Broken
  <2>2. CASE request.viewerDials
    BY <1>5, <2>1, <2>2, RegisterFacts DEF HostSetsUp, Types, SetupInv, Registered, Waiting
  <2>3. CASE ~ request.viewerDials
    <3>1. Types'
      <4>1. file' \in {"none", "open", "failed", "kept"} /\ timedOut' \in BOOLEAN
        BY <1>5, <2>3 DEF HostSetsUp, OpenFile, Types
      <4>2. host' \in {"open", "ended"}
        BY <1>5, <2>3 DEF HostSetsUp
      <4> QED  BY <1>5, <2>3, <4>1, <4>2 DEF HostSetsUp, Dial, Types
    <3>2. SetupInv'
      BY <1>5, <2>3 DEF HostSetsUp, Dial, Types, SetupInv, Registered, Waiting
    <3> QED  BY <2>1, <3>1, <3>2
  <2> QED  BY <2>2, <2>3
<1>6. CASE ViewerWaits
  <2>1. timedOut' \in BOOLEAN
    BY <1>6 DEF ViewerWaits, Taken, GivenUp, Types
  <2>2. /\ UNCHANGED <<request, host, ask, pending, expired, claim, closed, transfer>>
        /\ viewer' \in {"open", "failed"} /\ viewer = "waiting"
        /\ resolved' \subseteq resolved /\ used' \subseteq used \cup resolved
    BY <1>6 DEF ViewerWaits, Taken, GivenUp
  <2>3. Types'
    BY <2>1, <2>2 DEF Types
  <2>4. SetupInv'
    BY <2>2 DEF Types, SetupInv, Registered, Waiting
  <2>5. OrderInv' /\ FlowInv'
    BY <2>2 DEF OrderInv, FlowInv, Early, Broken
  <2> QED  BY <2>3, <2>4, <2>5
<1>7. CASE HostWaits
  <2>1. timedOut' \in BOOLEAN
    BY <1>7 DEF HostWaits, Taken, GivenUp, Types
  <2>2. /\ UNCHANGED <<request, viewer, ask, pending, expired, claim, closed, wire, sent, stored, reply>>
        /\ host' \in {"open", "ended"} /\ host = "waiting"
        /\ resolved' \subseteq resolved /\ used' \subseteq used \cup resolved
        /\ file' = file \/ (request.upload /\ host' = "open" /\ file' \in {"open", "failed"})
    BY <1>7 DEF HostWaits, Taken, GivenUp, OpenFile
  <2>3. Types'
    BY <2>1, <2>2 DEF Types
  <2>4. SetupInv'
    BY <2>2 DEF Types, SetupInv, Registered, Waiting
  <2>5. OrderInv'
    BY <2>2 DEF OrderInv
  <2>6. FlowInv'
    BY <2>2 DEF OrderInv, FlowInv, Early, Broken
  <2> QED  BY <2>3, <2>4, <2>5, <2>6
<1> QED  BY <1>1, <1>2, <1>3, <1>4, <1>5, <1>6, <1>7

-----------------------------------------------------------------------------
\* The registry does not notice the use of a connection.
LEMMA UseStep ==
  ASSUME PInv, UNCHANGED <<request, registry, resolved, used>>,
         "start" \in {viewer, viewer'} \/ viewer' = "waiting" => viewer' = viewer,
         (host = "open" /\ host' \in {"blocked", "ended"}) \/ host' = host
  PROVE  SetupInv'
  BY DEF PInv, SetupInv, OnlyExpectedPeer, Registered, Waiting, registry

\* The viewer's side of a transfer keeps the invariant.
LEMMA ViewerKeeps ==
  ASSUME PInv, \/ ViewerSends \/ ViewerWriteFails \/ BrowserGone \/ ViewerAborts \/ ViewerSendsEof \/ ViewerReads
               \/ Break \/ TerminalEnds
  PROVE  PInv'
<1> USE DEF PInv, transfer, ViewerEnded
<1>1. CASE ViewerSends
  <2>1. SetupInv'  BY <1>1, UseStep DEF ViewerSends
  <2>2. OrderInv'  BY <1>1 DEF ViewerSends, OrderInv, registry
  <2>3. Types'     BY <1>1 DEF ViewerSends, Types, FlowInv, BodyLeft, registry
  <2>4. FlowInv'
    <3>1. /\ wire' \in Seq(Frame) /\ Len(wire') = Len(wire) + 1
          /\ \A k \in 1 .. Len(wire) : wire'[k] = wire[k] /\ wire[k] = "chunk"
          /\ wire'[Len(wire) + 1] = "chunk"
      BY <1>1 DEF ViewerSends, FlowInv, Early, Frame
    <3>2. /\ UNCHANGED <<request, viewer, host, closed, stored, file>>
          /\ sent' = sent + 1 /\ sent < request.body /\ Early /\ ~ Broken
      BY <1>1 DEF ViewerSends, BodyLeft, Early
    <3>3. stored + Len(wire) <= sent
      <4>1. CASE Len(wire) = 0
        BY <4>1 DEF Types
      <4>2. CASE Len(wire) # 0
        <5>1. Len(wire) \in 1 .. Len(wire)
          BY <4>2 DEF FlowInv
        <5> QED  BY <3>1, <5>1 DEF FlowInv
      <4> QED  BY <4>1, <4>2
    <3>4. Len(wire) \in Nat /\ stored \in Nat /\ sent \in Nat /\ request.body \in Nat
      BY DEF Types, FlowInv
    <3>5. \A k \in 1 .. Len(wire') : wire'[k] = "chunk" /\ stored' + k <= sent'
      BY <3>1, <3>2, <3>3, <3>4
    <3>6. Broken' = Broken /\ sent' <= request'.body
      BY <3>2, <3>4 DEF Broken
    <3>7. ~ Broken' /\ file' # "failed" => stored' + Len(wire') = sent'
      BY <3>1, <3>2, <3>4 DEF FlowInv
    <3> QED  BY <3>1, <3>5, <3>6, <3>7 DEF FlowInv
  <2> QED  BY <2>1, <2>2, <2>3, <2>4
<1>2. CASE ViewerWriteFails
  <2>1. SetupInv'  BY <1>2, UseStep DEF ViewerWriteFails
  <2>2. OrderInv'  BY <1>2 DEF ViewerWriteFails, OrderInv, registry
  <2>3. Types'     BY <1>2 DEF ViewerWriteFails, Types, registry
  <2>4. FlowInv'   BY <1>2 DEF ViewerWriteFails, FlowInv, Early, Broken
  <2> QED  BY <2>1, <2>2, <2>3, <2>4
<1>3. CASE BrowserGone
  <2>1. SetupInv'  BY <1>3, UseStep DEF BrowserGone
  <2>2. OrderInv'  BY <1>3 DEF BrowserGone, OrderInv, registry
  <2>3. Types'     BY <1>3 DEF BrowserGone, Types, registry
  <2>4. FlowInv'   BY <1>3 DEF BrowserGone, FlowInv, Early, Broken
  <2> QED  BY <2>1, <2>2, <2>3, <2>4
<1>8. CASE ViewerAborts
  <2>1. SetupInv'  BY <1>8, UseStep DEF ViewerAborts
  <2>2. OrderInv'  BY <1>8 DEF ViewerAborts, OrderInv, registry
  <2>3. CASE UNCHANGED wire
    <3>1. Types'    BY <1>8, <2>3 DEF ViewerAborts, Types, registry
    <3>2. FlowInv'  BY <1>8, <2>3 DEF ViewerAborts, FlowInv, Early
    <3> QED  BY <2>1, <2>2, <3>1, <3>2
  <2>4. CASE wire' = Append(wire, "abort") /\ Len(wire) < WireCap
    <3>1. /\ wire' \in Seq(Frame) /\ Len(wire') = Len(wire) + 1
          /\ \A k \in 1 .. Len(wire) : wire'[k] = wire[k]
          /\ wire'[Len(wire) + 1] = "abort"
      BY <2>4 DEF FlowInv, Frame
    <3>2. Len(wire') <= WireCap
      BY <2>4, <3>1 DEF FlowInv
    <3>3. closed' \subseteq {"viewer", "host", "listener"}
      BY <1>8 DEF ViewerAborts, Types
    <3>4. Types'    BY <1>8, <3>2, <3>3 DEF ViewerAborts, Types, registry
    <3>5. FlowInv'  BY <1>8, <2>4, <3>1 DEF ViewerAborts, FlowInv, Early
    <3> QED  BY <2>1, <2>2, <3>4, <3>5
  <2> QED  BY <1>8, <2>3, <2>4 DEF ViewerAborts
<1>4. CASE ViewerSendsEof
  <2>1. SetupInv'  BY <1>4, UseStep DEF ViewerSendsEof
  <2>2. OrderInv'  BY <1>4 DEF ViewerSendsEof, OrderInv, registry
  <2>3. Types'     BY <1>4 DEF ViewerSendsEof, Types, FlowInv, registry, Frame
  <2>4. FlowInv'
    BY <1>4 DEF ViewerSendsEof, Types, FlowInv, BodyLeft, Early, Broken, Frame
  <2> QED  BY <2>1, <2>2, <2>3, <2>4
<1>5. CASE ViewerReads
  <2>1. SetupInv'  BY <1>5, UseStep DEF ViewerReads
  <2>2. OrderInv'  BY <1>5 DEF ViewerReads, OrderInv, registry
  <2>3. Types'
    <3>1. viewer' \in ViewerEnded
      BY <1>5 DEF ViewerReads, Types
    <3> QED  BY <1>5, <3>1 DEF ViewerReads, Types, registry
  <2>4. FlowInv'   BY <1>5 DEF ViewerReads, FlowInv, Early, Broken
  <2> QED  BY <2>1, <2>2, <2>3, <2>4
<1>6. CASE Break
  <2>1. SetupInv'  BY <1>6, UseStep DEF Break
  <2>2. OrderInv'  BY <1>6 DEF Break, OrderInv, registry
  <2>3. PICK n \in 0..Len(wire) : wire' = SubSeq(wire, 1, n)
    BY <1>6 DEF Break
  <2>4. /\ wire' \in Seq(Frame) /\ Len(wire') = n
        /\ \A k \in 1 .. n : wire'[k] = wire[k]
    BY <2>3, SubSeqProperties DEF FlowInv
  <2>5. Types'     BY <1>6, <2>4 DEF Break, Types, FlowInv, registry
  <2>6. FlowInv'   BY <1>6, <2>4 DEF Break, Types, FlowInv, Early, Broken
  <2> QED  BY <2>1, <2>2, <2>5, <2>6
<1>7. CASE TerminalEnds
  <2>1. SetupInv'  BY <1>7, UseStep DEF TerminalEnds
  <2>2. OrderInv'  BY <1>7 DEF TerminalEnds, OrderInv, registry
  <2>3. Types'
    <3>1. /\ viewer' \in {viewer, "ok"} /\ host' \in {host, "ended"}
          /\ closed' \subseteq closed \cup {"viewer", "host"}
      BY <1>7 DEF TerminalEnds
    <3> QED  BY <1>7, <3>1 DEF TerminalEnds, Types, registry
  <2>4. FlowInv'   BY <1>7 DEF TerminalEnds, FlowInv, Early, Broken
  <2> QED  BY <2>1, <2>2, <2>3, <2>4
<1> QED  BY <1>1, <1>2, <1>3, <1>4, <1>5, <1>6, <1>7, <1>8

\* The host's side of a transfer keeps the invariant: an eof read from the
\* wire finds the whole body in the file.
LEMMA HostKeeps ==
  ASSUME PInv, HostReads \/ HostReadFails
  PROVE  PInv'
<1> USE DEF PInv
<1>1. CASE HostReads
  <2>1. SetupInv'  BY <1>1, UseStep DEF HostReads, HostEnds, StoreChunk
  <2>2. /\ wire # <<>> /\ wire \in Seq(Frame) /\ Len(wire) >= 1
        /\ wire' = Tail(wire) /\ wire' \in Seq(Frame) /\ Len(wire') = Len(wire) - 1
        /\ \A k \in 1 .. Len(wire') : wire'[k] = wire[k + 1]
        /\ Head(wire) = wire[1]
    BY <1>1, HeadTailProperties DEF HostReads, FlowInv
  <2>3. CASE Head(wire) = "chunk" /\ file = "open" /\ stored' = stored + 1
             /\ UNCHANGED <<host, closed, file, reply>>
    <3>1. UNCHANGED <<request, viewer, ask, registry, sent, timedOut>>
      BY <1>1 DEF HostReads
    <3>2. stored + 1 <= sent
      BY <2>2, <2>3 DEF FlowInv
    <3>3. Types'
      BY <2>2, <2>3, <3>1, <3>2 DEF Types, registry
    <3>4. OrderInv'
      BY <1>1, <2>3, <3>1 DEF OrderInv, HostReads
    <3>5. FlowInv'
      <4>1. Len(wire) \in Nat /\ stored \in Nat /\ sent \in Nat
        BY <2>2 DEF Types
      <4>2. \A k \in 1 .. Len(wire') : k + 1 \in 1 .. Len(wire) /\ wire'[k] = wire[k + 1]
        BY <2>2, <4>1
      <4>3. Early' => Early /\ (~ Broken' => ~ Broken)
        BY <2>3, <3>1 DEF Early, Broken
      <4>8. file = "open"
        BY <2>3
      <4>4. Early' => \A k \in 1 .. Len(wire') : wire'[k] = "chunk"
        BY <4>2, <4>3 DEF FlowInv
      <4>5. Early' /\ ~ Broken' => stored' + Len(wire') = sent'
        BY <2>2, <2>3, <3>1, <4>1, <4>3, <4>8 DEF FlowInv
      <4>6. \A k \in 1 .. Len(wire') : wire'[k] = "chunk" => stored' + k <= sent'
        BY <2>3, <3>1, <4>1, <4>2 DEF FlowInv
      <4>7. host' # "ended" =>
              \A k \in 1 .. Len(wire') : wire'[k] = "eof" =>
                stored' + k = sent' + 1 /\ sent' = request'.body
        BY <2>3, <3>1, <4>1, <4>2 DEF FlowInv
      <4> QED  BY <2>2, <3>1, <4>4, <4>5, <4>6, <4>7 DEF FlowInv
    <3> QED  BY <2>1, <3>3, <3>4, <3>5
  <2>4. ASSUME NEW keep \in BOOLEAN, NEW answer \in {"none", "path", "error"},
               HostEnds(keep, answer), UNCHANGED stored,
               keep => stored = request.body, answer = "path" => keep
        PROVE  PInv'
    <3>1. UNCHANGED <<request, viewer, ask, registry, sent, timedOut>> /\ host = "open"
      BY <1>1 DEF HostReads
    <3>2. Types'
      BY <2>2, <2>4, <3>1 DEF Types, registry, HostEnds
    <3>3. OrderInv'
      BY <2>4, <3>1 DEF OrderInv, HostEnds
    <3>4. FlowInv'
      BY <2>2, <2>4, <3>1 DEF Types, FlowInv, Early, Broken, HostEnds
    <3> QED  BY <2>1, <3>2, <3>3, <3>4
  <2>5. CASE /\ Head(wire) = "chunk" /\ UNCHANGED <<stored, closed, reply>>
             /\ file' = "failed" /\ file \in {"open", "failed"} /\ host' \in {"open", "blocked"}
    <3>1. UNCHANGED <<request, viewer, ask, registry, sent, timedOut>> /\ host = "open" /\ request.upload
      BY <1>1 DEF HostReads
    <3>2. Types'
      BY <2>2, <2>5, <3>1 DEF Types, registry
    <3>3. OrderInv'
      BY <2>5, <3>1 DEF OrderInv
    <3>4. FlowInv'
      BY <2>2, <2>5, <3>1 DEF Types, FlowInv, Early, Broken
    <3> QED  BY <2>1, <3>2, <3>3, <3>4
  <2>6. CASE Head(wire) # "chunk"
    <3>1. Complete(Head(wire)) => stored = request.body
      BY <1>1, <2>2 DEF Complete, FlowInv, HostReads, Types
    <3>2. Complete(Head(wire)) \in BOOLEAN /\ (Complete(Head(wire)) => Head(wire) # "abort")
      BY DEF Complete
    <3>3. UNCHANGED stored
      BY <1>1, <2>6 DEF HostReads
    <3>4. CASE Head(wire) = "abort"
      BY <1>1, <2>4, <2>6, <3>2, <3>3, <3>4 DEF HostReads
    <3>5. CASE Head(wire) # "abort" /\ Complete(Head(wire))
      BY <1>1, <2>4, <2>6, <3>1, <3>3, <3>5 DEF HostReads
    <3>6. CASE Head(wire) # "abort" /\ ~ Complete(Head(wire))
      BY <1>1, <2>4, <2>6, <3>2, <3>3, <3>6 DEF HostReads
    <3> QED  BY <3>4, <3>5, <3>6
  <2> QED  BY <1>1, <2>3, <2>5, <2>6 DEF HostReads, StoreChunk
<1>2. CASE HostReadFails
  <2>1. SetupInv'  BY <1>2, UseStep DEF HostReadFails, HostEnds
  <2>2. OrderInv'  BY <1>2 DEF HostReadFails, HostEnds, KeepOnError, OrderInv, registry
  <2>3. Types'     BY <1>2 DEF HostReadFails, HostEnds, KeepOnError, Types, registry
  <2>4. FlowInv'   BY <1>2 DEF HostReadFails, HostEnds, FlowInv, Early, Broken
  <2> QED  BY <2>1, <2>2, <2>3, <2>4
<1> QED  BY <1>1, <1>2

-----------------------------------------------------------------------------
\* Every step keeps the invariant.
LEMMA NextStreams == PInv /\ [Next]_vars => PInv'
<1> SUFFICES ASSUME PInv, [Next]_vars PROVE PInv'
  OBVIOUS
<1>1. CASE Next
  BY <1>1, RegistryKeeps, SetupKeeps, ViewerKeeps, HostKeeps DEF Next
<1>2. CASE UNCHANGED vars
  BY <1>2 DEF PInv, Types, SetupInv, OrderInv, FlowInv, OnlyExpectedPeer, Registered, Waiting,
              Early, Broken, vars
<1> QED  BY <1>1, <1>2

\* The invariant holds throughout.
THEOREM StreamsSound == Spec => []PInv
  BY InitStreams, NextStreams, PTL DEF Spec

\* A token is joined with the connection of the peer it is bound to and with no
\* other, and its two ends never wait for each other, for any number of peers.
THEOREM TokenJoins == Spec => []RegistryInv
<1>1. PInv => RegistryInv
  <2> SUFFICES ASSUME PInv PROVE RegistryInv
    OBVIOUS
  <2>1. OnlyExpectedPeer /\ NoMutualWait
    BY DEF PInv, SetupInv, NoMutualWait, Registered
  <2>2. resolved = {} \/ resolved = {Expected}
    BY <2>1 DEF OnlyExpectedPeer
  <2>3. Cardinality(resolved) <= 1
    BY <2>2, FS_EmptySet, FS_Singleton
  <2>4. resolved \subseteq Peers /\ used \subseteq Peers
    BY <2>1 DEF OnlyExpectedPeer
  <2>5. TypeOK
    BY <2>3, <2>4 DEF TypeOK, PInv, Types
  <2> QED  BY <2>1, <2>5 DEF RegistryInv
<1> QED  BY <1>1, StreamsSound, PTL

\* A file is kept, and the browser is told a path, only when the whole body is
\* in it, for any body and any wire.
THEOREM WholeUploads == Spec => []UploadWhole
<1>1. PInv => UploadWhole  BY DEF PInv, OrderInv, UploadWhole
<1> QED  BY <1>1, StreamsSound, PTL
=============================================================================
