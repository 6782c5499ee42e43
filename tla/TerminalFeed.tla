---------------------------- MODULE TerminalFeed ----------------------------
(***************************************************************************)
(* What a terminal's viewer is promised, whatever buffers lie in between:  *)
(* the feed only grows; its live bytes are bytes the shell printed, in the *)
(* order it printed them, none twice; its replay bytes are one unbroken    *)
(* stretch of what the shell printed.  Live bytes may be missing: a slow   *)
(* viewer loses output rather than stop the shell.                         *)
(***************************************************************************)
EXTENDS Naturals, Sequences, SequencesExt

VARIABLES printed,  \* number of bytes the shell has printed: they are 1..printed
          feed      \* what the viewer received: [k : kind, b : byte]

(* Items i and j of the feed are both of this kind.                        *)
Both(f, i, j, kind) == f[i].k = kind /\ f[j].k = kind

Orderly(f) ==
    \A i, j \in DOMAIN f : i < j =>
      /\ Both(f, i, j, "live") => f[i].b < f[j].b
      /\ Both(f, i, j, "replay") /\ (\A n \in (i + 1)..(j - 1) : f[n].k # "replay")
           => f[j].b = f[i].b + 1

FeedInit == printed = 0 /\ feed = <<>>

PrintBytes == printed' > printed /\ UNCHANGED feed

Show ==
    /\ feed' # feed /\ IsPrefix(feed, feed')
    /\ Orderly(feed')
    /\ \A i \in DOMAIN feed' : feed'[i].b <= printed
    /\ UNCHANGED printed

FeedSpec == FeedInit /\ [][PrintBytes \/ Show]_<<printed, feed>>

=============================================================================
