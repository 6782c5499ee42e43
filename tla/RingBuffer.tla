----------------------------- MODULE RingBuffer -----------------------------
(***************************************************************************)
(* The session daemon's scrollback: a circular byte buffer written in at   *)
(* most two copies (daemon.go, ringBuffer).  Positions count from 0 as in  *)
(* the code; buf is a function on 0..n-1.                                  *)
(***************************************************************************)
EXTENDS Naturals, Sequences, FiniteSets

SmallerOf(a, b) == IF a < b THEN a ELSE b

newRingBuffer(n) == [buf |-> [i \in 0..(n - 1) |-> 0], head |-> 0, tail |-> 0, size |-> 0]

(* Copy data into buf from position at, wrapping once.                     *)
RingCopy(buf, at, data) ==
    LET n == Cardinality(DOMAIN buf)
    IN  [i \in DOMAIN buf |->
           LET k == ((i + n - at) % n) + 1 IN IF k <= Len(data) THEN data[k] ELSE buf[i]]

RingWrite_TailStays(r, bytes) ==
    LET n    == Cardinality(DOMAIN r.buf)
        data == IF Len(bytes) > n THEN SubSeq(bytes, Len(bytes) - n + 1, Len(bytes)) ELSE bytes
        used == SmallerOf(Len(data), n - r.size)
    IN  [r EXCEPT !.buf = RingCopy(r.buf, r.head, data),
                  !.head = (r.head + Len(data)) % n,
                  !.size = @ + used]

(***************************************************************************)
(* Write: keep the last n bytes of an oversized write, fill what is free,  *)
(* overwrite the oldest bytes with the rest; after an overwrite the oldest *)
(* byte is at head.                                                        *)
(***************************************************************************)
RingWrite(r, bytes) ==
    LET n    == Cardinality(DOMAIN r.buf)
        data == IF Len(bytes) > n THEN SubSeq(bytes, Len(bytes) - n + 1, Len(bytes)) ELSE bytes
        used == SmallerOf(Len(data), n - r.size)
        head == (r.head + Len(data)) % n
    IN  [buf  |-> RingCopy(r.buf, r.head, data),
         head |-> head,
         tail |-> IF Len(data) > used THEN head ELSE r.tail,
         size |-> r.size + used]

(* Snapshot of the last k bytes, oldest first; Snapshot is SnapshotTail of *)
(* everything.                                                             *)
SnapshotTail(r, k) ==
    LET n     == Cardinality(DOMAIN r.buf)
        count == SmallerOf(k, r.size)
        start == r.tail + r.size - count
    IN  [i \in 1..count |-> r.buf[(start + i - 1) % n]]

Snapshot(r) == SnapshotTail(r, r.size)

=============================================================================
