--------------------------- MODULE PeerLinkProofs ---------------------------
(***************************************************************************)
(* Proofs about PeerLink, for every set of connection slots, all commands  *)
(* and any number of them, any number of failures and restarts, with       *)
(* half-open redials or without.                                           *)
(***************************************************************************)
EXTENDS PeerLink, FiniteSetTheorems, TLAPS

-----------------------------------------------------------------------------
(* The inductive invariant. *)

\* The dials of n that are in progress and not cancelled.
LiveDials(n) == {c \in Conn : conn[c].dialer = n /\ conn[c].dial # "done" /\ ~ conn[c].cancelled}

\* A busy reconnector is in exactly one of them, any other in none.
ReconnectorDials ==
    \A n \in Node : IF recon[n] = "busy" THEN \E c \in Conn : LiveDials(n) = {c}
                    ELSE LiveDials(n) = {}

\* A slot that was never dialed is unused.
UndialedFree ==
    \A c \in Conn : conn[c].dialer = None => conn[c].dial = "done" /\ conn[c].listen = "done"

\* n runs a session over c, or still has its deferred calls to make.
Holds(c, n) == EndAt(c, n) \in {"session", "closing"}

\* What n holds is what it has registered: this is stronger than Registered,
\* which says nothing about a session that is closing and not registered.
\* Teardown would drop the registration of another session otherwise.
HeldIsRegistered == cut \/ \A n \in Node, c \in Conn : Holds(c, n) <=> reg[n] = c

Inv == TypeOK /\ UndialedFree /\ HeldIsRegistered /\ ReconnectorDials

-----------------------------------------------------------------------------
(* Ends of connections. *)

ConnRecord == [dialer : Node \cup {None}, wire : {"open", "broken"},
               dial : EndState, listen : EndState,
               cancelled : BOOLEAN, forget : Node \cup {None}]

\* There are two servers.
LEMMA TwoNodes ==
  ASSUME NEW n \in Node
  PROVE  /\ Other(n) \in Node \ {n}
         /\ \A m \in Node : m # n => m = Other(n)
<1>1. PICK a \in Node, b \in Node : a # b /\ Node = {a, b}
  BY LinkAssumption
<1>2. \E m \in Node : m # n
  BY <1>1
<1>3. Other(n) \in Node /\ Other(n) # n
  BY <1>2 DEF Other
<1>. QED  BY <1>1, <1>3

\* They are at different ends of a connection in use.
LEMMA Ends ==
  ASSUME TypeOK, NEW c \in Conn, NEW n \in Node
  PROVE  /\ conn[c].dialer = n => EndOf(c, n) = "dial" /\ EndAt(c, n) = conn[c].dial
         /\ conn[c].dialer # n => EndOf(c, n) = "listen" /\ EndAt(c, n) = conn[c].listen
         /\ Other(n) \in Node \ {n}
         /\ \A m \in Node : m # n => m = Other(n)
BY TwoNodes DEF EndOf, EndAt

\* Writing one end in the record of a connection.
LEMMA WriteField ==
  ASSUME NEW r \in ConnRecord, NEW v \in EndState
  PROVE  /\ [r EXCEPT !["dial"] = v] \in ConnRecord
         /\ [r EXCEPT !["listen"] = v] \in ConnRecord
         /\ [r EXCEPT !["dial"] = v].dial = v
         /\ [r EXCEPT !["dial"] = v].listen = r.listen
         /\ [r EXCEPT !["dial"] = v].dialer = r.dialer
         /\ [r EXCEPT !["dial"] = v].cancelled = r.cancelled
         /\ [r EXCEPT !["listen"] = v].listen = v
         /\ [r EXCEPT !["listen"] = v].dial = r.dial
         /\ [r EXCEPT !["listen"] = v].dialer = r.dialer
         /\ [r EXCEPT !["listen"] = v].cancelled = r.cancelled
BY DEF ConnRecord

\* The types of the variables, with the record of a connection by its name.
LEMMA InvParts ==
  ASSUME Inv
  PROVE  /\ peer \in [Node -> PeerRecord] /\ recon \in [Node -> ReconState]
         /\ conn \in [Conn -> ConnRecord] /\ reg \in [Node -> Conn \cup {None}]
         /\ pending \in [Node -> PeerRecord \cup {None}]
         /\ commands \in Nat /\ commands <= MaxCommands
         /\ breaks \in Nat /\ breaks <= MaxBreaks /\ cut \in BOOLEAN
         /\ TypeOK /\ UndialedFree /\ HeldIsRegistered /\ ReconnectorDials
BY LinkAssumption DEF Inv, TypeOK, ConnRecord

\* ... and what has to be shown of the state after a step.
LEMMA TypeAfter ==
  ASSUME peer' \in [Node -> PeerRecord], recon' \in [Node -> ReconState],
         conn' \in [Conn -> ConnRecord], reg' \in [Node -> Conn \cup {None}],
         pending' \in [Node -> PeerRecord \cup {None}],
         commands' \in 0 .. MaxCommands, breaks' \in 0 .. MaxBreaks, cut' \in BOOLEAN
  PROVE  TypeOK'
BY DEF TypeOK, ConnRecord

LEMMA FreeRecord == Free \in ConnRecord
BY DEF Free, ConnRecord, EndState

LEMMA InvInit == Init => Inv
<1>. SUFFICES ASSUME Init PROVE Inv
  OBVIOUS
<1>1. TypeOK
  <2>1. Unknown \in PeerRecord
    BY DEF Unknown, PeerRecord
  <2>2. peer \in [Node -> PeerRecord]
    BY <2>1 DEF Init
  <2>3. conn \in [Conn -> ConnRecord]
    BY FreeRecord DEF Init
  <2>4. recon \in [Node -> ReconState] /\ reg \in [Node -> Conn \cup {None}]
        /\ pending \in [Node -> PeerRecord \cup {None}] /\ cut \in BOOLEAN
    BY DEF Init, ReconState
  <2>5. commands \in 0 .. MaxCommands /\ breaks \in 0 .. MaxBreaks
    BY LinkAssumption DEF Init
  <2>. QED  BY <2>2, <2>3, <2>4, <2>5 DEF TypeOK, ConnRecord
<1>2. UndialedFree /\ ReconnectorDials
  BY DEF Init, UndialedFree, ReconnectorDials, LiveDials, Free
<1>3. HeldIsRegistered
  BY LinkAssumption, <1>1, Ends DEF Init, HeldIsRegistered, Holds, Free
<1>. QED  BY <1>1, <1>2, <1>3 DEF Inv

-----------------------------------------------------------------------------
(* Steps, by what they do to the ends of the connections. *)

\* A connection in use has a dialer.
LEMMA InUse ==
  ASSUME Inv, NEW c \in Conn, ~ IsFree(c)
  PROVE  conn[c].dialer \in Node
BY InvParts DEF UndialedFree, IsFree, Ended, ConnRecord

\* runSession's step at n's end of c.
Moved(c, n, v) == conn' = [conn EXCEPT ![c][EndOf(c, n)] = v]

LEMMA WriteEnd ==
  ASSUME Inv, NEW c \in Conn, NEW n \in Node, NEW v \in EndState, Moved(c, n, v)
  PROVE  /\ conn' \in [Conn -> ConnRecord]
         /\ \A d \in Conn : d # c => conn'[d] = conn[d]
         /\ conn'[c].dialer = conn[c].dialer
         /\ conn'[c].cancelled = conn[c].cancelled
         /\ conn[c].dialer = n => conn'[c].dial = v /\ conn'[c].listen = conn[c].listen
         /\ conn[c].dialer # n => conn'[c].dial = conn[c].dial /\ conn'[c].listen = v
<1>0. conn \in [Conn -> ConnRecord] /\ conn[c] \in ConnRecord
  BY InvParts
<1>1. CASE conn[c].dialer = n
  <2>. DEFINE r == [conn[c] EXCEPT !["dial"] = v]
  <2>1. conn' = [conn EXCEPT ![c] = r]
    BY <1>0, <1>1 DEF EndOf, Moved
  <2>2. /\ r \in ConnRecord /\ r.dialer = conn[c].dialer /\ r.cancelled = conn[c].cancelled
        /\ r.dial = v /\ r.listen = conn[c].listen
    BY <1>0, WriteField
  <2>. HIDE DEF r
  <2>. QED  BY <1>0, <1>1, <2>1, <2>2
<1>2. CASE conn[c].dialer # n
  <2>. DEFINE r == [conn[c] EXCEPT !["listen"] = v]
  <2>1. conn' = [conn EXCEPT ![c] = r]
    BY <1>0, <1>2 DEF EndOf, Moved
  <2>2. /\ r \in ConnRecord /\ r.dialer = conn[c].dialer /\ r.cancelled = conn[c].cancelled
        /\ r.listen = v /\ r.dial = conn[c].dial
    BY <1>0, WriteField
  <2>. HIDE DEF r
  <2>. QED  BY <1>0, <1>2, <2>1, <2>2
<1>. QED  BY <1>1, <1>2

\* What n holds after it.
LEMMA HeldAfterWrite ==
  ASSUME Inv, NEW c \in Conn, ~ IsFree(c), NEW n \in Node, NEW v \in EndState, Moved(c, n, v)
  PROVE  /\ UndialedFree'
         /\ \A m \in Node, d \in Conn :
              Holds(d, m)' <=> IF d = c /\ m = n THEN v \in {"session", "closing"} ELSE Holds(d, m)
<1>1. conn[c].dialer \in Node
  BY InUse
<1>2. /\ conn' \in [Conn -> ConnRecord]
      /\ \A d \in Conn : d # c => conn'[d] = conn[d]
      /\ conn'[c].dialer = conn[c].dialer
      /\ conn[c].dialer = n => conn'[c].dial = v /\ conn'[c].listen = conn[c].listen
      /\ conn[c].dialer # n => conn'[c].dial = conn[c].dial /\ conn'[c].listen = v
  BY WriteEnd
<1>3. UndialedFree'
  BY <1>1, <1>2, InvParts, LinkAssumption DEF UndialedFree
<1>4. ASSUME NEW m \in Node, NEW d \in Conn
      PROVE  EndAt(d, m)' = IF d = c /\ m = n THEN v ELSE EndAt(d, m)
  <2>1. EndAt(d, m)' = IF conn'[d].dialer = m THEN conn'[d].dial ELSE conn'[d].listen
    BY DEF EndAt, EndOf
  <2>2. EndAt(d, m) = IF conn[d].dialer = m THEN conn[d].dial ELSE conn[d].listen
    BY DEF EndAt, EndOf
  <2>3. m # n /\ conn[c].dialer # n => m = conn[c].dialer
    BY <1>1, Ends, InvParts
  <2>. QED  BY <1>2, <2>1, <2>2, <2>3
<1>. QED  BY <1>3, <1>4 DEF Holds

\* A step that registers nothing and moves no end into a session or out of
\* its deferred calls, apart from a registration that is cut short.
Quiet(old, new) ==
    /\ new.dialer = old.dialer
    /\ new.dial # old.dial =>
         old.dialer # None /\ {new.dial, old.dial} \cap {"session", "closing"} = {}
    /\ new.listen # old.listen =>
         old.dialer # None /\ {new.listen, old.listen} \cap {"session", "closing"} = {}

LEMMA QuietStep ==
  ASSUME Inv, \A c \in Conn : Quiet(conn[c], conn'[c]),
         cut' \/ (cut' = cut /\ reg' = reg)
  PROVE  UndialedFree' /\ HeldIsRegistered'
<1>1. UndialedFree'
  BY InvParts DEF UndialedFree, Quiet
<1>2. ASSUME NEW m \in Node, NEW d \in Conn
      PROVE  Holds(d, m)' <=> Holds(d, m)
  <2>1. EndAt(d, m)' = IF conn'[d].dialer = m THEN conn'[d].dial ELSE conn'[d].listen
    BY DEF EndAt, EndOf
  <2>2. EndAt(d, m) = IF conn[d].dialer = m THEN conn[d].dial ELSE conn[d].listen
    BY DEF EndAt, EndOf
  <2>. QED  BY <2>1, <2>2 DEF Holds, Quiet
<1>3. HeldIsRegistered'
  BY <1>2, InvParts DEF HeldIsRegistered
<1>. QED  BY <1>1, <1>3

\* The dials go on as they were.
LEMMA DialsKept ==
  ASSUME Inv, recon' = recon,
         \A c \in Conn : /\ conn'[c].dialer = conn[c].dialer
                         /\ conn'[c].cancelled = conn[c].cancelled
                         /\ conn'[c].dial = "done" <=> conn[c].dial = "done"
  PROVE  ReconnectorDials'
<1>1. \A n \in Node : LiveDials(n)' = LiveDials(n)
  BY DEF LiveDials
<1>. QED  BY <1>1, InvParts DEF ReconnectorDials

\* dialOnce returns and its reconnector goes on to something else, unless it
\* had been replaced.
LEMMA DialReturns ==
  ASSUME Inv, NEW c \in Conn, conn[c].dialer \in Node, conn[c].dial # "done",
         NEW next \in {"ready", "off"},
         recon' = [recon EXCEPT ![conn[c].dialer] = IF conn[c].cancelled THEN @ ELSE next],
         \A d \in Conn : d # c => conn'[d] = conn[d],
         conn'[c].dialer = conn[c].dialer, conn'[c].dial = "done"
  PROVE  ReconnectorDials' /\ recon' \in [Node -> ReconState]
<1>. DEFINE n == conn[c].dialer
<1>1. \A m \in Node : LiveDials(m)' = LiveDials(m) \ {c}
  BY DEF LiveDials
<1>2. \A m \in Node : m # n => c \notin LiveDials(m)
  BY DEF LiveDials
<1>3. \A m \in Node : m # n => recon'[m] = recon[m]
  BY InvParts
<1>4. CASE conn[c].cancelled
  <2>1. recon' = recon
    BY <1>4, InvParts
  <2>2. c \notin LiveDials(n)
    BY <1>4 DEF LiveDials
  <2>. QED  BY <1>1, <1>2, <2>1, <2>2, InvParts DEF ReconnectorDials
<1>5. CASE ~ conn[c].cancelled
  <2>1. recon'[n] = next /\ recon' \in [Node -> ReconState]
    BY <1>5, InvParts DEF ReconState
  <2>2. c \in LiveDials(n)
    BY <1>5 DEF LiveDials
  <2>3. LiveDials(n) = {c}
    BY <2>2, InvParts DEF ReconnectorDials
  <2>4. LiveDials(n)' = {}
    BY <1>1, <2>3
  <2>5. \A m \in Node : m # n => LiveDials(m)' = LiveDials(m)
    BY <1>1, <1>2
  <2>. QED  BY <1>3, <2>1, <2>4, <2>5, InvParts DEF ReconnectorDials
<1>. QED  BY <1>4, <1>5

\* The link of some servers is replaced.
LEMMA DialsCancelled ==
  ASSUME Inv, NEW servers \in SUBSET Node,
         \A c \in Conn : /\ conn'[c].dialer = Cancelled(servers)[c].dialer
                         /\ conn'[c].dial = Cancelled(servers)[c].dial
                         /\ conn'[c].cancelled = Cancelled(servers)[c].cancelled,
         \A n \in servers : recon'[n] # "busy",
         \A n \in Node \ servers : recon'[n] = recon[n]
  PROVE  ReconnectorDials'
<1>0. \A c \in Conn : conn[c] \in ConnRecord
  BY InvParts
<1>1. ASSUME NEW c \in Conn
      PROVE  /\ conn'[c].dialer = conn[c].dialer /\ conn'[c].dial = conn[c].dial
             /\ conn'[c].cancelled = (conn[c].cancelled \/ (conn[c].dialer \in servers /\ conn[c].dial # "done"))
  <2>1. CASE conn[c].dialer \in servers /\ conn[c].dial # "done"
    <3>1. Cancelled(servers)[c] = [conn[c] EXCEPT !.cancelled = TRUE]
      BY <2>1 DEF Cancelled
    <3>2. Cancelled(servers)[c].cancelled = TRUE
      BY <1>0, <3>1 DEF ConnRecord
    <3>3. conn'[c].cancelled = TRUE
      BY <3>2
    <3>4. (conn[c].cancelled \/ (conn[c].dialer \in servers /\ conn[c].dial # "done")) = TRUE
      BY <2>1
    <3>6. Cancelled(servers)[c].dialer = conn[c].dialer /\ Cancelled(servers)[c].dial = conn[c].dial
      BY <1>0, <3>1 DEF ConnRecord
    <3>5. conn'[c].dialer = conn[c].dialer /\ conn'[c].dial = conn[c].dial
      BY <3>6
    <3>. QED  BY <3>3, <3>4, <3>5
  <2>2. CASE ~ (conn[c].dialer \in servers /\ conn[c].dial # "done")
    <3>1. Cancelled(servers)[c] = conn[c]
      BY <2>2 DEF Cancelled
    <3>2. conn[c].cancelled \in BOOLEAN
      BY <1>0 DEF ConnRecord
    <3>. QED  BY <2>2, <3>1, <3>2
  <2>. QED  BY <2>1, <2>2
<1>2. ASSUME NEW n \in servers
      PROVE  LiveDials(n)' = {}
  <2>1. \A c \in Conn : ~ (conn'[c].dialer = n /\ conn'[c].dial # "done" /\ ~ conn'[c].cancelled)
    BY <1>1, <1>2
  <2>. QED  BY <2>1 DEF LiveDials
<1>3. ASSUME NEW n \in Node \ servers
      PROVE  LiveDials(n)' = LiveDials(n)
  <2>1. \A c \in Conn : (conn'[c].dialer = n /\ conn'[c].dial # "done" /\ ~ conn'[c].cancelled)
                        <=> (conn[c].dialer = n /\ conn[c].dial # "done" /\ ~ conn[c].cancelled)
    BY <1>1, <1>3
  <2>. QED  BY <2>1 DEF LiveDials
<1>. QED  BY <1>2, <1>3, InvParts DEF ReconnectorDials

LEMMA CancelledQuiet ==
  ASSUME Inv, NEW servers
  PROVE  /\ Cancelled(servers) \in [Conn -> ConnRecord]
         /\ \A c \in Conn : Quiet(conn[c], Cancelled(servers)[c])
<1>0. \A c \in Conn : conn[c] \in ConnRecord
  BY InvParts
<1>1. \A c \in Conn : [conn[c] EXCEPT !.cancelled = TRUE] \in ConnRecord
  BY <1>0 DEF ConnRecord
<1>. QED  BY <1>0, <1>1 DEF Cancelled, Quiet, ConnRecord

-----------------------------------------------------------------------------
(* One lemma per action. *)

\* A write to one field of one connection's record.
LEMMA OneSlot ==
  ASSUME Inv, NEW c \in Conn, NEW r \in ConnRecord, conn' = [conn EXCEPT ![c] = r]
  PROVE  /\ conn' \in [Conn -> ConnRecord]
         /\ conn'[c] = r
         /\ \A d \in Conn : d # c => conn'[d] = conn[d]
BY InvParts

LEMMA QuietSelf == ASSUME NEW r PROVE Quiet(r, r)
BY DEF Quiet

LEMMA DialInv ==
  ASSUME Inv, NEW n \in Node, NEW c \in Conn, Dial(n, c)
  PROVE  Inv'
<1>. DEFINE r == [Free EXCEPT !.dialer = n, !.dial = "auth", !.listen = "auth"]
<1>1. /\ r \in ConnRecord /\ r.dialer = n /\ r.dial = "auth" /\ r.listen = "auth"
      /\ r.cancelled = FALSE
  BY DEF Free, ConnRecord, EndState
<1>2. conn' = [conn EXCEPT ![c] = r]
  BY DEF Dial
<1>. HIDE DEF r
<1>3. /\ conn' \in [Conn -> ConnRecord] /\ conn'[c] = r
      /\ \A d \in Conn : d # c => conn'[d] = conn[d]
  BY <1>1, <1>2, OneSlot
<1>4. TypeOK'
  <2>1. recon' \in [Node -> ReconState]
    BY InvParts DEF Dial, ReconState
  <2>. QED  BY <1>3, <2>1, InvParts, TypeAfter DEF Dial
<1>5. UndialedFree'
  BY <1>1, <1>3, InvParts, LinkAssumption DEF UndialedFree
<1>6. HeldIsRegistered'
  <2>1. ASSUME NEW m \in Node, NEW d \in Conn
        PROVE  Holds(d, m)' <=> Holds(d, m)
    <3>1. EndAt(d, m)' = IF conn'[d].dialer = m THEN conn'[d].dial ELSE conn'[d].listen
      BY DEF EndAt, EndOf
    <3>2. EndAt(d, m) = IF conn[d].dialer = m THEN conn[d].dial ELSE conn[d].listen
      BY DEF EndAt, EndOf
    <3>3. conn[c].dial = "done" /\ conn[c].listen \in {"done", "stray", "rejected", "unknown"}
      BY DEF Dial, IsFree, Ended
    <3>. QED  BY <1>1, <1>3, <3>1, <3>2, <3>3 DEF Holds
  <2>. QED  BY <2>1, InvParts DEF HeldIsRegistered, Dial
<1>7. ReconnectorDials'
  <2>1. recon[n] = "ready" /\ recon' = [recon EXCEPT ![n] = "busy"]
    BY DEF Dial
  <2>2. LiveDials(n) = {}
    BY <2>1, InvParts DEF ReconnectorDials
  <2>3. conn[c].dial = "done"
    BY DEF Dial, IsFree
  <2>4. LiveDials(n)' = {c}
    BY <1>1, <1>3, <2>2 DEF LiveDials
  <2>5. \A m \in Node : m # n => LiveDials(m)' = LiveDials(m)
    BY <1>1, <1>3, <2>3 DEF LiveDials
  <2>6. recon'[n] = "busy" /\ \A m \in Node : m # n => recon'[m] = recon[m]
    BY <2>1, InvParts
  <2>. QED  BY <2>4, <2>5, <2>6, InvParts DEF ReconnectorDials
<1>. QED  BY <1>4, <1>5, <1>6, <1>7 DEF Inv

LEMMA AcceptInv ==
  ASSUME Inv, NEW c \in Conn, Accept(c)
  PROVE  Inv'
<1>. DEFINE v == IF conn[c].wire = "broken" \/ conn[c].dial = "done" THEN "done"
                 ELSE IF ~ peer[Other(conn[c].dialer)].known THEN "unknown"
                 ELSE IF reg[Other(conn[c].dialer)] # None THEN "rejected"
                 ELSE "ok"
            r == [conn[c] EXCEPT !["listen"] = v]
<1>0. conn[c] \in ConnRecord /\ v \in EndState /\ v \notin {"session", "closing"}
  BY InvParts DEF EndState
<1>1. conn' = [conn EXCEPT ![c] = r] /\ conn[c].listen = "auth"
  BY DEF Accept
<1>. HIDE DEF v
<1>2. /\ r \in ConnRecord /\ r.dialer = conn[c].dialer /\ r.cancelled = conn[c].cancelled
      /\ r.dial = conn[c].dial /\ r.listen = v
  BY <1>0, WriteField
<1>. HIDE DEF r
<1>3. /\ conn' \in [Conn -> ConnRecord] /\ conn'[c] = r
      /\ \A d \in Conn : d # c => conn'[d] = conn[d]
  BY <1>1, <1>2, OneSlot
<1>4. conn[c].dialer # None
  BY InUse, LinkAssumption DEF Accept
<1>5. Quiet(conn[c], conn'[c])
  BY <1>0, <1>1, <1>2, <1>3, <1>4 DEF Quiet
<1>6. TypeOK'
  BY <1>3, InvParts, TypeAfter DEF Accept
<1>7. UndialedFree' /\ HeldIsRegistered'
  <2>1. \A d \in Conn : Quiet(conn[d], conn'[d])
    BY <1>3, <1>5, QuietSelf
  <2>2. cut' = cut /\ reg' = reg
    BY DEF Accept
  <2>. QED  BY <2>1, <2>2, QuietStep
<1>8. ReconnectorDials'
  <2>1. recon' = recon
    BY DEF Accept
  <2>. QED  BY <1>2, <1>3, <2>1, DialsKept
<1>. QED  BY <1>6, <1>7, <1>8 DEF Inv

\* The steps of dialOnce up to the verdict write the dialer's end.
LEMMA DialerMoves ==
  ASSUME Inv, NEW c \in Conn, ~ IsFree(c), conn[c].dial = "auth", NEW v \in {"ok", "done"},
         conn' = [conn EXCEPT ![c].dial = v]
  PROVE  /\ conn' \in [Conn -> ConnRecord]
         /\ conn[c].dialer \in Node
         /\ conn'[c].dialer = conn[c].dialer /\ conn'[c].dial = v
         /\ conn'[c].cancelled = conn[c].cancelled
         /\ \A d \in Conn : d # c => conn'[d] = conn[d]
         /\ \A d \in Conn : Quiet(conn[d], conn'[d])
<1>. DEFINE r == [conn[c] EXCEPT !["dial"] = v]
<1>0. conn[c] \in ConnRecord /\ v \in EndState
  BY InvParts DEF EndState
<1>1. conn' = [conn EXCEPT ![c] = r]
  BY InvParts
<1>2. /\ r \in ConnRecord /\ r.dialer = conn[c].dialer /\ r.cancelled = conn[c].cancelled
      /\ r.listen = conn[c].listen /\ r.dial = v
  BY <1>0, WriteField
<1>. HIDE DEF r
<1>3. /\ conn' \in [Conn -> ConnRecord] /\ conn'[c] = r
      /\ \A d \in Conn : d # c => conn'[d] = conn[d]
  BY <1>1, <1>2, OneSlot
<1>4. conn[c].dialer \in Node /\ conn[c].dialer # None
  BY InUse, LinkAssumption
<1>5. Quiet(conn[c], conn'[c])
  BY <1>2, <1>3, <1>4 DEF Quiet
<1>. QED  BY <1>2, <1>3, <1>4, <1>5, QuietSelf

LEMMA ReadVerdictInv ==
  ASSUME Inv, NEW c \in Conn, ReadVerdict(c)
  PROVE  Inv'
<1>0. conn' = [conn EXCEPT ![c].dial = "ok"] /\ ~ IsFree(c) /\ conn[c].dial = "auth"
  BY DEF ReadVerdict
<1>1. /\ conn' \in [Conn -> ConnRecord]
      /\ conn'[c].dialer = conn[c].dialer /\ conn'[c].dial = "ok"
      /\ conn'[c].cancelled = conn[c].cancelled
      /\ \A d \in Conn : d # c => conn'[d] = conn[d]
      /\ \A d \in Conn : Quiet(conn[d], conn'[d])
  BY <1>0, DialerMoves
<1>2. TypeOK'
  BY <1>1, InvParts, TypeAfter DEF ReadVerdict
<1>3. UndialedFree' /\ HeldIsRegistered'
  BY <1>1, QuietStep DEF ReadVerdict
<1>4. ReconnectorDials'
  <2>1. recon' = recon
    BY DEF ReadVerdict
  <2>. QED  BY <1>0, <1>1, <2>1, DialsKept
<1>. QED  BY <1>2, <1>3, <1>4 DEF Inv

LEMMA RoleFlipInv ==
  ASSUME Inv, NEW c \in Conn, RoleFlip(c)
  PROVE  Inv'
<1>0. conn' = [conn EXCEPT ![c].dial = "done"] /\ ~ IsFree(c) /\ conn[c].dial = "auth"
  BY DEF RoleFlip
<1>1. /\ conn' \in [Conn -> ConnRecord] /\ conn[c].dialer \in Node
      /\ conn'[c].dialer = conn[c].dialer /\ conn'[c].dial = "done"
      /\ \A d \in Conn : d # c => conn'[d] = conn[d]
      /\ \A d \in Conn : Quiet(conn[d], conn'[d])
  BY <1>0, DialerMoves
<1>2. ReconnectorDials' /\ recon' \in [Node -> ReconState]
  <2>1. recon' = [recon EXCEPT ![conn[c].dialer] = IF conn[c].cancelled THEN @ ELSE "off"]
    BY DEF RoleFlip
  <2>. QED  BY <1>0, <1>1, <2>1, DialReturns
<1>3. TypeOK'
  <2>1. peer' \in [Node -> PeerRecord]
    <3>. DEFINE n == conn[c].dialer
               b == peer[n].dialer /\ ~ peer[n].known
    <3>1. peer' = [peer EXCEPT ![n].dialer = b]
      BY DEF RoleFlip
    <3>2. b \in BOOLEAN
      OBVIOUS
    <3>. HIDE DEF n, b
    <3>. QED  BY <3>1, <3>2, InvParts DEF PeerRecord
  <2>. QED  BY <1>1, <1>2, <2>1, InvParts, TypeAfter DEF RoleFlip
<1>4. UndialedFree' /\ HeldIsRegistered'
  BY <1>1, QuietStep DEF RoleFlip
<1>. QED  BY <1>2, <1>3, <1>4 DEF Inv

LEMMA DialFailsInv ==
  ASSUME Inv, NEW c \in Conn, DialFails(c)
  PROVE  Inv'
<1>0. conn' = [conn EXCEPT ![c].dial = "done"] /\ ~ IsFree(c) /\ conn[c].dial = "auth"
  BY DEF DialFails
<1>1. /\ conn' \in [Conn -> ConnRecord] /\ conn[c].dialer \in Node
      /\ conn'[c].dialer = conn[c].dialer /\ conn'[c].dial = "done"
      /\ \A d \in Conn : d # c => conn'[d] = conn[d]
      /\ \A d \in Conn : Quiet(conn[d], conn'[d])
  BY <1>0, DialerMoves
<1>2. ReconnectorDials' /\ recon' \in [Node -> ReconState]
  <2>1. recon' = [recon EXCEPT ![conn[c].dialer] = IF conn[c].cancelled THEN @ ELSE "ready"]
    BY DEF DialFails, AfterDial
  <2>. QED  BY <1>0, <1>1, <2>1, DialReturns
<1>3. TypeOK'
  BY <1>1, <1>2, InvParts, TypeAfter DEF DialFails
<1>4. UndialedFree' /\ HeldIsRegistered'
  BY <1>1, QuietStep DEF DialFails
<1>. QED  BY <1>2, <1>3, <1>4 DEF Inv

LEMMA RegisterInv ==
  ASSUME Inv, NEW c \in Conn, NEW n \in Node, Register(c, n)
  PROVE  Inv'
<1>0. /\ ~ IsFree(c) /\ conn[c].dialer \in Node /\ EndAt(c, n) = "ok"
      /\ conn[c].dialer = n => conn[c].dial = "ok"
  BY InUse, InvParts, Ends DEF Register
<1>1. CASE reg[n] = None
  <2>1. Moved(c, n, "session") /\ "session" \in EndState /\ recon' = recon /\ cut' = cut
    BY <1>1 DEF Register, Moved, EndState
  <2>2. reg' = [reg EXCEPT ![n] = c]
    BY <1>1 DEF Register
  <2>3. TypeOK'
    <3>1. conn' \in [Conn -> ConnRecord]
      BY <2>1, WriteEnd
    <3>2. reg' \in [Node -> Conn \cup {None}]
      BY <2>2, InvParts
    <3>. QED  BY <2>1, <3>1, <3>2, InvParts, TypeAfter DEF Register
  <2>4. UndialedFree' /\ HeldIsRegistered'
    <3>1. /\ UndialedFree'
          /\ \A m \in Node, d \in Conn :
               Holds(d, m)' <=> IF d = c /\ m = n THEN TRUE ELSE Holds(d, m)
      BY <1>0, <2>1, HeldAfterWrite
    <3>2. ASSUME ~ cut, NEW m \in Node, NEW d \in Conn
          PROVE  Holds(d, m)' <=> reg'[m] = d
      <4>1. Holds(d, m) <=> reg[m] = d
        BY <3>2, InvParts DEF HeldIsRegistered
      <4>. QED  BY <1>1, <2>2, <3>1, <4>1, InvParts, LinkAssumption
    <3>. QED  BY <2>1, <3>1, <3>2 DEF HeldIsRegistered
  <2>5. ReconnectorDials'
    BY <1>0, <2>1, WriteEnd, DialsKept
  <2>. QED  BY <2>3, <2>4, <2>5 DEF Inv
<1>2. CASE reg[n] # None
  <2>. DEFINE v == IF n = conn[c].dialer THEN "done" ELSE "stray"
  <2>1. /\ Moved(c, n, v) /\ v \in EndState /\ v \notin {"session", "closing"}
        /\ cut' = cut /\ reg' = reg
    BY <1>2 DEF Register, Moved, EndState
  <2>2. n = conn[c].dialer => v = "done"
    OBVIOUS
  <2>. HIDE DEF v
  <2>3. /\ conn' \in [Conn -> ConnRecord]
        /\ \A d \in Conn : d # c => conn'[d] = conn[d]
        /\ conn'[c].dialer = conn[c].dialer
        /\ conn'[c].cancelled = conn[c].cancelled
        /\ conn[c].dialer = n => conn'[c].dial = v
        /\ conn[c].dialer # n => conn'[c].dial = conn[c].dial
    BY <2>1, WriteEnd
  <2>4. UndialedFree' /\ HeldIsRegistered'
    <3>1. /\ UndialedFree'
          /\ \A m \in Node, d \in Conn :
               Holds(d, m)' <=> IF d = c /\ m = n THEN v \in {"session", "closing"} ELSE Holds(d, m)
      BY <1>0, <2>1, HeldAfterWrite
    <3>2. ~ Holds(c, n)
      BY <1>0 DEF Holds
    <3>. QED  BY <2>1, <3>1, <3>2, InvParts DEF HeldIsRegistered
  <2>5. ReconnectorDials' /\ recon' \in [Node -> ReconState]
    <3>1. CASE n = conn[c].dialer
      <4>1. recon' = [recon EXCEPT ![conn[c].dialer] = IF conn[c].cancelled THEN @ ELSE "ready"]
        BY <1>2, <3>1 DEF Register, AfterDial
      <4>. QED  BY <1>0, <2>2, <2>3, <3>1, <4>1, DialReturns
    <3>2. CASE n # conn[c].dialer
      <4>1. recon' = recon
        BY <1>2, <3>2 DEF Register
      <4>. QED  BY <2>3, <3>2, <4>1, DialsKept, InvParts
    <3>. QED  BY <3>1, <3>2
  <2>6. TypeOK'
    BY <2>1, <2>3, <2>5, InvParts, TypeAfter DEF Register
  <2>. QED  BY <2>4, <2>5, <2>6 DEF Inv
<1>. QED  BY <1>1, <1>2

LEMMA SessionEndsInv ==
  ASSUME Inv, NEW c \in Conn, NEW n \in Node, SessionEnds(c, n)
  PROVE  Inv'
<1>0. /\ ~ IsFree(c) /\ conn[c].dialer \in Node /\ EndAt(c, n) = "session"
      /\ conn[c].dialer = n => conn[c].dial = "session"
  BY InUse, InvParts, Ends DEF SessionEnds
<1>1. Moved(c, n, "closing") /\ "closing" \in EndState /\ recon' = recon /\ cut' = cut /\ reg' = reg
  BY DEF SessionEnds, Moved, EndState
<1>2. TypeOK'
  <2>1. conn' \in [Conn -> ConnRecord]
    BY <1>1, WriteEnd
  <2>. QED  BY <2>1, InvParts, TypeAfter DEF SessionEnds
<1>3. UndialedFree' /\ HeldIsRegistered'
  <2>1. /\ UndialedFree'
        /\ \A m \in Node, d \in Conn :
             Holds(d, m)' <=> IF d = c /\ m = n THEN TRUE ELSE Holds(d, m)
    BY <1>0, <1>1, HeldAfterWrite
  <2>2. Holds(c, n)
    BY <1>0 DEF Holds
  <2>. QED  BY <1>1, <2>1, <2>2, InvParts DEF HeldIsRegistered
<1>4. ReconnectorDials'
  BY <1>0, <1>1, WriteEnd, DialsKept
<1>. QED  BY <1>2, <1>3, <1>4 DEF Inv

\* Here HeldIsRegistered is needed in full: what UnregisterPeer drops is c.
LEMMA TeardownInv ==
  ASSUME Inv, NEW c \in Conn, NEW n \in Node, Teardown(c, n)
  PROVE  Inv'
<1>0. /\ ~ IsFree(c) /\ conn[c].dialer \in Node /\ EndAt(c, n) = "closing"
      /\ conn[c].dialer = n => conn[c].dial = "closing"
  BY InUse, InvParts, Ends DEF Teardown
<1>1. Moved(c, n, "done") /\ "done" \in EndState /\ cut' = cut /\ reg' = [reg EXCEPT ![n] = None]
  BY DEF Teardown, Moved, EndState
<1>2. /\ conn' \in [Conn -> ConnRecord]
      /\ \A d \in Conn : d # c => conn'[d] = conn[d]
      /\ conn'[c].dialer = conn[c].dialer
      /\ conn'[c].cancelled = conn[c].cancelled
      /\ conn[c].dialer = n => conn'[c].dial = "done"
      /\ conn[c].dialer # n => conn'[c].dial = conn[c].dial
  BY <1>1, WriteEnd
<1>3. UndialedFree' /\ HeldIsRegistered'
  <2>1. /\ UndialedFree'
        /\ \A m \in Node, d \in Conn :
             Holds(d, m)' <=> IF d = c /\ m = n THEN FALSE ELSE Holds(d, m)
    BY <1>0, <1>1, HeldAfterWrite
  <2>2. Holds(c, n)
    BY <1>0 DEF Holds
  <2>3. ASSUME ~ cut, NEW m \in Node, NEW d \in Conn
        PROVE  Holds(d, m)' <=> reg'[m] = d
    <3>1. (Holds(d, m) <=> reg[m] = d) /\ reg[n] = c
      BY <2>2, <2>3, InvParts DEF HeldIsRegistered
    <3>. QED  BY <1>1, <2>1, <3>1, InvParts, LinkAssumption
  <2>. QED  BY <1>1, <2>1, <2>3 DEF HeldIsRegistered
<1>4. ReconnectorDials' /\ recon' \in [Node -> ReconState]
  <2>1. CASE n = conn[c].dialer
    <3>1. recon' = [recon EXCEPT ![conn[c].dialer] = IF conn[c].cancelled THEN @ ELSE "ready"]
      BY <2>1 DEF Teardown, AfterDial
    <3>. QED  BY <1>0, <1>2, <2>1, <3>1, DialReturns
  <2>2. CASE n # conn[c].dialer
    <3>1. recon' = recon
      BY <2>2 DEF Teardown
    <3>. QED  BY <1>2, <2>2, <3>1, DialsKept, InvParts
  <2>. QED  BY <2>1, <2>2
<1>5. TypeOK'
  <2>1. reg' \in [Node -> Conn \cup {None}]
    BY <1>1, InvParts
  <2>. QED  BY <1>1, <1>2, <1>4, <2>1, InvParts, TypeAfter DEF Teardown
<1>. QED  BY <1>3, <1>4, <1>5 DEF Inv

LEMMA DeliverForgetInv ==
  ASSUME Inv, NEW c \in Conn, DeliverForget(c)
  PROVE  Inv'
<1>. DEFINE n == conn[c].forget
            m == Other(n)
            f == EndOf(c, m)
            q == [conn[c] EXCEPT !.forget = None]
            r == [q EXCEPT ![f] = "closing"]
<1>0. conn[c] \in ConnRecord /\ conn \in [Conn -> ConnRecord]
  BY InvParts
<1>1. n \in Node /\ m \in Node /\ conn[c].dialer \in Node
  BY <1>0, InvParts, Ends, InUse DEF DeliverForget, ConnRecord
<1>2. f \in {"dial", "listen"} /\ conn[c][f] = "session"
  BY DEF EndOf, EndAt, DeliverForget
<1>3. conn' = [conn EXCEPT ![c] = r]
  BY <1>0, <1>2 DEF DeliverForget
<1>4. /\ q \in ConnRecord /\ q.dialer = conn[c].dialer /\ q.cancelled = conn[c].cancelled
      /\ q.dial = conn[c].dial /\ q.listen = conn[c].listen
  BY <1>0 DEF ConnRecord
<1>. HIDE DEF q, f
<1>5. /\ r \in ConnRecord /\ r.dialer = conn[c].dialer /\ r.cancelled = conn[c].cancelled
      /\ r.dial = "done" <=> conn[c].dial = "done"
  <2>0. "closing" \in EndState
    BY DEF EndState
  <2>1. CASE f = "dial"
    <3>1. r = [q EXCEPT !["dial"] = "closing"]
      BY <2>1
    <3>. HIDE DEF r
    <3>2. /\ r \in ConnRecord /\ r.dialer = q.dialer /\ r.cancelled = q.cancelled
          /\ r.dial = "closing" /\ r.listen = q.listen
      BY <1>4, <2>0, <3>1, WriteField
    <3>. QED  BY <1>2, <1>4, <2>1, <3>2
  <2>2. CASE f = "listen"
    <3>1. r = [q EXCEPT !["listen"] = "closing"]
      BY <2>2
    <3>. HIDE DEF r
    <3>2. /\ r \in ConnRecord /\ r.dialer = q.dialer /\ r.cancelled = q.cancelled
          /\ r.listen = "closing" /\ r.dial = q.dial
      BY <1>4, <2>0, <3>1, WriteField
    <3>. QED  BY <1>2, <1>4, <2>2, <3>2
  <2>. QED  BY <1>2, <2>1, <2>2
<1>. HIDE DEF r
<1>6. /\ conn' \in [Conn -> ConnRecord] /\ conn'[c] = r
      /\ \A d \in Conn : d # c => conn'[d] = conn[d]
  BY <1>3, <1>5, OneSlot
<1>7. TypeOK'
  <2>1. peer' \in [Node -> PeerRecord]
    BY InvParts DEF DeliverForget, Unknown, PeerRecord
  <2>2. reg' \in [Node -> Conn \cup {None}]
    BY InvParts DEF DeliverForget
  <2>. QED  BY <1>6, <2>1, <2>2, InvParts, TypeAfter DEF DeliverForget
<1>8. UndialedFree'
  BY <1>1, <1>5, <1>6, InvParts, LinkAssumption DEF UndialedFree
<1>9. HeldIsRegistered'
  BY DEF HeldIsRegistered, DeliverForget
<1>10. ReconnectorDials'
  <2>1. recon' = recon
    BY DEF DeliverForget
  <2>. QED  BY <1>5, <1>6, <2>1, DialsKept
<1>. QED  BY <1>7, <1>8, <1>9, <1>10 DEF Inv

LEMMA BreakInv ==
  ASSUME Inv, NEW c \in Conn, Break(c)
  PROVE  Inv'
<1>. DEFINE r == [conn[c] EXCEPT !.wire = "broken"]
<1>0. conn[c] \in ConnRecord
  BY InvParts
<1>1. conn' = [conn EXCEPT ![c] = r]
  BY DEF Break
<1>2. /\ r \in ConnRecord /\ r.dialer = conn[c].dialer /\ r.cancelled = conn[c].cancelled
      /\ r.dial = conn[c].dial /\ r.listen = conn[c].listen
  BY <1>0 DEF ConnRecord
<1>. HIDE DEF r
<1>3. /\ conn' \in [Conn -> ConnRecord] /\ conn'[c] = r
      /\ \A d \in Conn : d # c => conn'[d] = conn[d]
  BY <1>1, <1>2, OneSlot
<1>4. TypeOK'
  <2>1. breaks' \in 0 .. MaxBreaks
    BY InvParts, LinkAssumption DEF Break
  <2>. QED  BY <1>3, <2>1, InvParts, TypeAfter DEF Break
<1>5. UndialedFree' /\ HeldIsRegistered'
  <2>1. \A d \in Conn : Quiet(conn[d], conn'[d])
    BY <1>2, <1>3, QuietSelf DEF Quiet
  <2>. QED  BY <2>1, QuietStep DEF Break
<1>6. ReconnectorDials'
  <2>1. recon' = recon
    BY DEF Break
  <2>. QED  BY <1>2, <1>3, <2>1, DialsKept
<1>. QED  BY <1>4, <1>5, <1>6 DEF Inv

LEMMA RestartInv ==
  ASSUME Inv, NEW n \in Node, Restart(n)
  PROVE  Inv'
<1>1. ASSUME NEW c \in Conn
      PROVE  /\ conn'[c] \in ConnRecord
             /\ conn'[c].dialer = conn[c].dialer /\ conn'[c].cancelled = conn[c].cancelled
             /\ conn'[c].dial = (IF conn[c].dialer = n THEN "done" ELSE conn[c].dial)
             /\ conn'[c].listen = (IF conn[c].dialer = n \/ IsFree(c) THEN conn[c].listen ELSE "done")
  <2>0. conn[c] \in ConnRecord /\ "done" \in EndState
    BY InvParts DEF EndState
  <2>1. CASE IsFree(c)
    <3>1. conn'[c] = conn[c]
      BY <2>1 DEF Restart
    <3>. QED  BY <2>0, <2>1, <3>1 DEF IsFree
  <2>2. CASE ~ IsFree(c)
    <3>1. conn'[c] = [conn[c] EXCEPT ![EndOf(c, n)] = "done"]
      BY <2>2 DEF Restart
    <3>2. CASE conn[c].dialer = n
      <4>. DEFINE r == [conn[c] EXCEPT !["dial"] = "done"]
      <4>1. conn'[c] = r
        BY <3>1, <3>2 DEF EndOf
      <4>2. /\ r \in ConnRecord /\ r.dialer = conn[c].dialer /\ r.cancelled = conn[c].cancelled
            /\ r.dial = "done" /\ r.listen = conn[c].listen
        BY <2>0, WriteField
      <4>. HIDE DEF r
      <4>. QED  BY <2>2, <3>2, <4>1, <4>2
    <3>3. CASE conn[c].dialer # n
      <4>. DEFINE r == [conn[c] EXCEPT !["listen"] = "done"]
      <4>1. conn'[c] = r
        BY <3>1, <3>3 DEF EndOf
      <4>2. /\ r \in ConnRecord /\ r.dialer = conn[c].dialer /\ r.cancelled = conn[c].cancelled
            /\ r.listen = "done" /\ r.dial = conn[c].dial
        BY <2>0, WriteField
      <4>. HIDE DEF r
      <4>. QED  BY <2>2, <3>3, <4>1, <4>2
    <3>. QED  BY <3>2, <3>3
  <2>. QED  BY <2>1, <2>2
<1>2. /\ recon' = [recon EXCEPT ![n] = Spawned(peer[n])] /\ reg' = [reg EXCEPT ![n] = None]
      /\ cut' = cut /\ Spawned(peer[n]) \in {"ready", "off"}
  BY DEF Restart, Spawned
<1>3. TypeOK'
  <2>1. conn' \in [Conn -> ConnRecord]
    BY <1>1 DEF Restart
  <2>2. breaks' \in 0 .. MaxBreaks
    BY InvParts, LinkAssumption DEF Restart
  <2>3. recon' \in [Node -> ReconState] /\ reg' \in [Node -> Conn \cup {None}]
    BY <1>2, InvParts DEF ReconState
  <2>4. pending' \in [Node -> PeerRecord \cup {None}]
    BY InvParts DEF Restart
  <2>. QED  BY <2>1, <2>2, <2>3, <2>4, InvParts, TypeAfter DEF Restart
<1>4. UndialedFree'
  BY <1>1, InvParts, LinkAssumption DEF UndialedFree
<1>5. ASSUME NEW m \in Node, NEW c \in Conn
      PROVE  Holds(c, m)' <=> m # n /\ Holds(c, m)
  <2>1. EndAt(c, m)' = IF conn'[c].dialer = m THEN conn'[c].dial ELSE conn'[c].listen
    BY DEF EndAt, EndOf
  <2>2. EndAt(c, m) = IF conn[c].dialer = m THEN conn[c].dial ELSE conn[c].listen
    BY DEF EndAt, EndOf
  <2>3. IsFree(c) => conn[c].dial = "done" /\ conn[c].listen \in {"done", "stray", "rejected", "unknown"}
    BY DEF IsFree, Ended
  <2>4. ~ IsFree(c) => conn[c].dialer \in Node
    BY InUse
  <2>5. conn[c].dialer \in Node /\ conn[c].dialer # n /\ m # n => conn[c].dialer = m
    BY InvParts, Ends
  <2>. QED  BY <1>1, <2>1, <2>2, <2>3, <2>4, <2>5 DEF Holds
<1>6. HeldIsRegistered'
  <2>1. ASSUME ~ cut, NEW m \in Node, NEW c \in Conn
        PROVE  Holds(c, m)' <=> reg'[m] = c
    <3>1. Holds(c, m) <=> reg[m] = c
      BY <2>1, InvParts DEF HeldIsRegistered
    <3>. QED  BY <1>2, <1>5, <3>1, InvParts, LinkAssumption
  <2>. QED  BY <1>2, <2>1 DEF HeldIsRegistered
<1>7. ReconnectorDials'
  <2>1. LiveDials(n)' = {}
    BY <1>1 DEF LiveDials
  <2>2. \A m \in Node : m # n => LiveDials(m)' = LiveDials(m)
    BY <1>1 DEF LiveDials
  <2>3. recon'[n] # "busy" /\ \A m \in Node : m # n => recon'[m] = recon[m]
    BY <1>2, InvParts
  <2>. QED  BY <2>1, <2>2, <2>3, InvParts DEF ReconnectorDials
<1>. QED  BY <1>3, <1>4, <1>6, <1>7 DEF Inv

\* What the commands have in common: some links are replaced, their
\* reconnectors are new ones, and a registration goes only with cut.
LEMMA CommandInv ==
  ASSUME Inv, NEW servers \in SUBSET Node, conn' = Cancelled(servers),
         \A n \in servers : recon'[n] # "busy",
         \A n \in Node \ servers : recon'[n] = recon[n],
         cut' \/ (cut' = cut /\ reg' = reg)
  PROVE  /\ conn' \in [Conn -> ConnRecord]
         /\ UndialedFree' /\ HeldIsRegistered' /\ ReconnectorDials'
<1>1. conn' \in [Conn -> ConnRecord] /\ \A c \in Conn : Quiet(conn[c], conn'[c])
  BY CancelledQuiet
<1>2. UndialedFree' /\ HeldIsRegistered'
  BY <1>1, QuietStep
<1>3. ReconnectorDials'
  BY DialsCancelled
<1>. QED  BY <1>1, <1>2, <1>3

LEMMA UnregisterCuts ==
  ASSUME Inv, NEW n \in Node, Unregister(n)
  PROVE  /\ reg' \in [Node -> Conn \cup {None}] /\ cut' \in BOOLEAN
         /\ cut' \/ (cut' = cut /\ reg' = reg)
<1>1. reg' \in [Node -> Conn \cup {None}]
  BY InvParts DEF Unregister
<1>2. CASE reg[n] = None
  BY <1>1, <1>2, InvParts DEF Unregister
<1>3. CASE reg[n] # None
  BY <1>1, <1>3, InvParts DEF Unregister
<1>. QED  BY <1>2, <1>3

LEMMA AskedCounts ==
  ASSUME Inv, NEW command, Asked(command)
  PROVE  commands' \in 0 .. MaxCommands /\ breaks' \in 0 .. MaxBreaks
BY InvParts, LinkAssumption DEF Asked

LEMMA SpawnedIdle ==
  ASSUME NEW record
  PROVE  Spawned(record) \in ReconState /\ Spawned(record) # "busy"
BY DEF Spawned, ReconState

LEMMA PairInv ==
  ASSUME Inv, NEW n \in Node, NEW auto \in BOOLEAN, Pair(n, auto)
  PROVE  Inv'
<1>. DEFINE m       == Other(n)
            ours    == [known |-> TRUE, enabled |-> auto, dialer |-> TRUE]
            fresh   == [known |-> TRUE, enabled |-> TRUE, dialer |-> FALSE]
            servers == IF peer[m].known THEN {n} ELSE {n, m}
<1>0. m \in Node /\ m # n
  BY TwoNodes
<1>1. /\ peer' = [peer EXCEPT ![n] = ours, ![m] = IF peer[m].known THEN @ ELSE fresh]
      /\ conn' = Cancelled(servers)
      /\ recon' = [recon EXCEPT ![n] = Spawned(ours), ![m] = IF peer[m].known THEN @ ELSE "off"]
      /\ reg' = reg /\ pending' = pending /\ cut' = cut
  BY DEF Pair
<1>2. commands' \in 0 .. MaxCommands /\ breaks' \in 0 .. MaxBreaks
  BY AskedCounts DEF Pair
<1>3. ours \in PeerRecord /\ fresh \in PeerRecord
  BY DEF PeerRecord
<1>4. peer' \in [Node -> PeerRecord]
  <2>. HIDE DEF ours, fresh
  <2>. QED  BY <1>0, <1>1, <1>3, InvParts
<1>5. /\ recon' \in [Node -> ReconState]
      /\ recon'[n] # "busy"
      /\ IF peer[m].known THEN recon'[m] = recon[m] ELSE recon'[m] # "busy"
      /\ \A k \in Node \ {n, m} : recon'[k] = recon[k]
  <2>. DEFINE sp == Spawned(ours)
  <2>1. sp \in ReconState /\ sp # "busy"
    BY SpawnedIdle
  <2>2. recon' = [recon EXCEPT ![n] = sp, ![m] = IF peer[m].known THEN @ ELSE "off"]
    BY <1>1
  <2>3. recon \in [Node -> ReconState]
    BY InvParts
  <2>. HIDE DEF sp, m
  <2>4. CASE peer[m].known
    BY <1>0, <2>1, <2>2, <2>3, <2>4
  <2>5. CASE ~ peer[m].known
    BY <1>0, <2>1, <2>2, <2>3, <2>5 DEF ReconState
  <2>. QED  BY <2>4, <2>5
<1>6. servers \in SUBSET Node
  BY <1>0
<1>7. \A k \in servers : recon'[k] # "busy"
  BY <1>5
<1>8. \A k \in Node \ servers : recon'[k] = recon[k]
  BY <1>5
<1>. HIDE DEF servers, m
<1>9. conn' \in [Conn -> ConnRecord] /\ UndialedFree' /\ HeldIsRegistered' /\ ReconnectorDials'
  BY <1>1, <1>6, <1>7, <1>8, CommandInv
<1>10. TypeOK'
  BY <1>1, <1>2, <1>4, <1>5, <1>9, InvParts, TypeAfter
<1>. QED  BY <1>9, <1>10 DEF Inv

LEMMA ReconnectStartInv ==
  ASSUME Inv, NEW n \in Node, ReconnectStart(n)
  PROVE  Inv'
<1>1. commands' \in 0 .. MaxCommands /\ breaks' \in 0 .. MaxBreaks
  BY AskedCounts DEF ReconnectStart
<1>2. /\ reg' \in [Node -> Conn \cup {None}] /\ cut' \in BOOLEAN
      /\ cut' \/ (cut' = cut /\ reg' = reg)
  BY UnregisterCuts DEF ReconnectStart
<1>3. /\ recon' \in [Node -> ReconState] /\ recon'[n] # "busy"
      /\ \A m \in Node \ {n} : recon'[m] = recon[m]
  BY InvParts DEF ReconnectStart, ReconState
<1>4. pending' \in [Node -> PeerRecord \cup {None}] /\ peer' = peer
  BY InvParts DEF ReconnectStart
<1>5. conn' \in [Conn -> ConnRecord] /\ UndialedFree' /\ HeldIsRegistered' /\ ReconnectorDials'
  BY <1>2, <1>3, CommandInv DEF ReconnectStart
<1>6. TypeOK'
  BY <1>1, <1>2, <1>3, <1>4, <1>5, InvParts, TypeAfter
<1>. QED  BY <1>5, <1>6 DEF Inv

LEMMA ReconnectFinishInv ==
  ASSUME Inv, NEW n \in Node, ReconnectFinish(n)
  PROVE  Inv'
<1>1. /\ recon' \in [Node -> ReconState] /\ recon'[n] # "busy"
      /\ \A m \in Node \ {n} : recon'[m] = recon[m]
  BY InvParts, SpawnedIdle DEF ReconnectFinish
<1>2. pending' \in [Node -> PeerRecord \cup {None}]
  BY InvParts DEF ReconnectFinish
<1>3. UNCHANGED <<peer, reg, commands, breaks, cut>> /\ conn' = Cancelled({n})
  BY DEF ReconnectFinish
<1>4. conn' \in [Conn -> ConnRecord] /\ UndialedFree' /\ HeldIsRegistered' /\ ReconnectorDials'
  BY <1>1, <1>3, CommandInv
<1>5. TypeOK'
  BY <1>1, <1>2, <1>3, <1>4, InvParts, TypeAfter
<1>. QED  BY <1>4, <1>5 DEF Inv

LEMMA EnableInv ==
  ASSUME Inv, NEW n \in Node, Enable(n)
  PROVE  Inv'
<1>1. commands' \in 0 .. MaxCommands /\ breaks' \in 0 .. MaxBreaks
  BY AskedCounts DEF Enable
<1>2. /\ recon' \in [Node -> ReconState] /\ recon'[n] # "busy"
      /\ \A m \in Node \ {n} : recon'[m] = recon[m]
  BY InvParts, SpawnedIdle DEF Enable
<1>3. peer' \in [Node -> PeerRecord]
  BY InvParts DEF Enable, PeerRecord
<1>4. UNCHANGED <<reg, pending, cut>> /\ conn' = Cancelled({n})
  BY DEF Enable
<1>5. conn' \in [Conn -> ConnRecord] /\ UndialedFree' /\ HeldIsRegistered' /\ ReconnectorDials'
  BY <1>2, <1>4, CommandInv
<1>6. TypeOK'
  BY <1>1, <1>2, <1>3, <1>4, <1>5, InvParts, TypeAfter
<1>. QED  BY <1>5, <1>6 DEF Inv

LEMMA DisableInv ==
  ASSUME Inv, NEW n \in Node, Disable(n)
  PROVE  Inv'
<1>1. commands' \in 0 .. MaxCommands /\ breaks' \in 0 .. MaxBreaks
  BY AskedCounts DEF Disable
<1>2. /\ reg' \in [Node -> Conn \cup {None}] /\ cut' \in BOOLEAN
      /\ cut' \/ (cut' = cut /\ reg' = reg)
  BY UnregisterCuts DEF Disable
<1>3. /\ recon' \in [Node -> ReconState] /\ recon'[n] # "busy"
      /\ \A m \in Node \ {n} : recon'[m] = recon[m]
  BY InvParts DEF Disable, ReconState
<1>4. peer' \in [Node -> PeerRecord]
  BY InvParts DEF Disable, PeerRecord
<1>5. conn' \in [Conn -> ConnRecord] /\ UndialedFree' /\ HeldIsRegistered' /\ ReconnectorDials'
  BY <1>2, <1>3, CommandInv DEF Disable
<1>6. TypeOK'
  BY <1>1, <1>2, <1>3, <1>4, <1>5, InvParts, TypeAfter DEF Disable
<1>. QED  BY <1>5, <1>6 DEF Inv

LEMMA ForgetInv ==
  ASSUME Inv, NEW n \in Node, Forget(n)
  PROVE  Inv'
<1>. DEFINE old == Cancelled({n})
<1>1. old \in [Conn -> ConnRecord] /\ \A c \in Conn : Quiet(conn[c], old[c])
  BY CancelledQuiet
<1>2. conn' = [c \in Conn |-> [old[c] EXCEPT !.forget = IF reg[n] = c THEN n ELSE @]]
  BY DEF Forget
<1>. HIDE DEF old
<1>3. ASSUME NEW c \in Conn
      PROVE  /\ conn'[c] \in ConnRecord
             /\ conn'[c].dialer = old[c].dialer /\ conn'[c].cancelled = old[c].cancelled
             /\ conn'[c].dial = old[c].dial /\ conn'[c].listen = old[c].listen
  <2>0. old[c] \in ConnRecord
    BY <1>1
  <2>. DEFINE x == IF reg[n] = c THEN n ELSE old[c].forget
  <2>1. x \in Node \cup {None}
    BY <2>0 DEF ConnRecord
  <2>2. conn'[c] = [old[c] EXCEPT !.forget = x]
    BY <1>2
  <2>. HIDE DEF x
  <2>. QED  BY <2>0, <2>1, <2>2 DEF ConnRecord
<1>4. conn' \in [Conn -> ConnRecord]
  BY <1>2, <1>3
<1>5. commands' \in 0 .. MaxCommands /\ breaks' \in 0 .. MaxBreaks
  BY AskedCounts DEF Forget
<1>6. /\ reg' \in [Node -> Conn \cup {None}] /\ cut' \in BOOLEAN
      /\ cut' \/ (cut' = cut /\ reg' = reg)
  BY UnregisterCuts DEF Forget
<1>7. /\ recon' \in [Node -> ReconState] /\ recon'[n] # "busy"
      /\ \A m \in Node \ {n} : recon'[m] = recon[m]
  BY InvParts DEF Forget, ReconState
<1>8. peer' \in [Node -> PeerRecord]
  BY InvParts DEF Forget, Unknown, PeerRecord
<1>9. UndialedFree' /\ HeldIsRegistered'
  <2>1. \A c \in Conn : Quiet(conn[c], conn'[c])
    BY <1>1, <1>3 DEF Quiet
  <2>. QED  BY <1>6, <2>1, QuietStep
<1>10. ReconnectorDials'
  BY <1>3, <1>7, DialsCancelled DEF old
<1>11. TypeOK'
  BY <1>4, <1>5, <1>6, <1>7, <1>8, InvParts, TypeAfter DEF Forget
<1>. QED  BY <1>9, <1>10, <1>11 DEF Inv

-----------------------------------------------------------------------------
(* The theorems. *)

LEMMA InvNext == Inv /\ [Next]_vars => Inv'
<1>. SUFFICES ASSUME Inv, [Next]_vars PROVE Inv'
  OBVIOUS
<1>1. ASSUME NEW c \in Conn, Progress(c) PROVE Inv'
  BY <1>1, AcceptInv, ReadVerdictInv, RoleFlipInv, DialFailsInv, DeliverForgetInv,
     RegisterInv, SessionEndsInv, TeardownInv DEF Progress
<1>2. ASSUME NEW c \in Conn, Break(c) PROVE Inv'
  BY <1>2, BreakInv
<1>3. ASSUME NEW n \in Node, NEW c \in Conn, Dial(n, c) PROVE Inv'
  BY <1>3, DialInv
<1>4. ASSUME NEW n \in Node, NEW auto \in BOOLEAN, Pair(n, auto) PROVE Inv'
  BY <1>4, PairInv
<1>5. ASSUME NEW n \in Node, ReconnectStart(n) \/ ReconnectFinish(n) PROVE Inv'
  BY <1>5, ReconnectStartInv, ReconnectFinishInv
<1>6. ASSUME NEW n \in Node, Enable(n) \/ Disable(n) \/ Forget(n) \/ Restart(n) PROVE Inv'
  BY <1>6, EnableInv, DisableInv, ForgetInv, RestartInv
<1>7. CASE UNCHANGED vars
  BY <1>7 DEF vars, Inv, TypeOK, UndialedFree, HeldIsRegistered, ReconnectorDials,
     LiveDials, Holds, EndAt, EndOf
<1>. QED  BY <1>1, <1>2, <1>3, <1>4, <1>5, <1>6, <1>7 DEF Next

\* What a server holds is what its Manager has registered, and its reconnector
\* is in the one dial that is not cancelled.
THEOREM Invariant == Spec => []Inv
BY InvInit, InvNext, PTL DEF Spec

\* One running session per peer, the registered one, under TryRegisterPeer,
\* UnregisterPeer by id, cancelled dials, half-open redials and restarts, until
\* a request unregisters a live session.
THEOREM OneSessionPerPeer == Spec => []LinkInv
<1>1. Inv => LinkInv
  <2>. SUFFICES ASSUME Inv PROVE LinkInv
    OBVIOUS
  <2>1. \A n \in Node, c \in Conn : Running(c, n) => Holds(c, n)
    BY DEF Running, Holds
  <2>2. OneSession
    BY <2>1, InvParts DEF OneSession, HeldIsRegistered
  <2>3. ASSUME ~ cut, NEW n \in Node, reg[n] # None
        PROVE  ~ IsFree(reg[n]) /\ EndAt(reg[n], n) \in {"session", "closing"}
    <3>1. reg[n] \in Conn
      BY <2>3, InvParts
    <3>2. Holds(reg[n], n)
      BY <2>3, <3>1, InvParts DEF HeldIsRegistered
    <3>. QED  BY <3>1, <3>2, InvParts, Ends DEF Holds, IsFree, Ended
  <2>4. Registered
    BY <2>1, <2>3, InvParts DEF Registered, HeldIsRegistered
  <2>. QED  BY <2>2, <2>4, InvParts DEF LinkInv
<1>. QED  BY <1>1, Invariant, PTL

\* LinkSupervisor never has two reconnectors whose dials count, whatever
\* requests replace its link, and none dials for a link that is gone.
THEOREM OneReconnectorPerPeer == Spec => []OneReconnector
<1>1. Inv => OneReconnector
  <2>. SUFFICES ASSUME Inv, NEW n \in Node
               PROVE  Cardinality(LiveDials(n)) = IF recon[n] = "busy" THEN 1 ELSE 0
    BY DEF OneReconnector, LiveDials
  <2>1. CASE recon[n] = "busy"
    <3>1. PICK c \in Conn : LiveDials(n) = {c}
      BY <2>1, InvParts DEF ReconnectorDials
    <3>. QED  BY <2>1, <3>1, FS_Singleton
  <2>2. CASE recon[n] # "busy"
    <3>1. LiveDials(n) = {}
      BY <2>2, InvParts DEF ReconnectorDials
    <3>. QED  BY <2>2, <3>1, FS_EmptySet
  <2>. QED  BY <2>1, <2>2
<1>. QED  BY <1>1, Invariant, PTL
=============================================================================
