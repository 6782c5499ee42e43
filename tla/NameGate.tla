------------------------------ MODULE NameGate ------------------------------
(***************************************************************************)
(* namer.AutomaticGate for one key: how soon an automatic naming may follow *)
(* the last one.  Times are moments of the gate's clock; 0 is Go's zero     *)
(* time.  A generation ends within GenerateTimeout, by its context.         *)
(***************************************************************************)
EXTENDS Naturals, Sequences, FiniteSets

CONSTANTS
    NormalInterval,    \* after a success
    BackoffSteps,      \* after the first failure in a row, the second, ...
    GenerateTimeout,   \* the deadline of a request to the namer
    MaxMoment          \* bound on the gate's clock

ASSUME GateAssumption ==
    /\ {NormalInterval, GenerateTimeout, MaxMoment} \subseteq Nat \ {0}
    /\ GenerateTimeout < NormalInterval
    /\ BackoffSteps \in Seq(Nat) /\ BackoffSteps # <<>>
    /\ \A i \in DOMAIN BackoffSteps : GenerateTimeout < BackoffSteps[i]

VARIABLE moment

GateStates == [lastAttempt : 0 .. MaxMoment, lastSuccess : 0 .. MaxMoment, failures : 0 .. MaxMoment]
NoState == [lastAttempt |-> 0, lastSuccess |-> 0, failures |-> 0]

Backoff(n) ==
    IF n = 0 THEN NormalInterval
    ELSE BackoffSteps[IF n > Len(BackoffSteps) THEN Len(BackoffSteps) ELSE n]

\* Begin, which answers and, if the answer is yes, records the attempt.
MayBegin(g) ==
    /\ g.lastAttempt = 0 \/ moment >= g.lastAttempt + Backoff(g.failures)
    /\ g.lastSuccess = 0 \/ moment >= g.lastSuccess + NormalInterval

Begun(g) == [g EXCEPT !.lastAttempt = moment]

Succeeded(g) == [g EXCEPT !.lastSuccess = moment, !.failures = 0]

Failed(g) == [g EXCEPT !.failures = @ + 1]

NextEligible(g) ==
    LET a == IF g.lastAttempt = 0 THEN 0 ELSE g.lastAttempt + Backoff(g.failures)
        s == IF g.lastSuccess = 0 THEN 0 ELSE g.lastSuccess + NormalInterval
    IN  IF s > a THEN s ELSE a
=============================================================================
