------------------------------- MODULE Limiter -------------------------------
(***************************************************************************)
(* auth.Limiter for one category and one client address.  The bucket counts *)
(* in units of 1/Window of an attempt, which makes the code's fractions of  *)
(* an attempt whole numbers.                                                *)
(***************************************************************************)
EXTENDS Naturals, Sequences

CONSTANTS
    Capacity, Window,   \* the category's entry in CategoryLimits
    IdleEviction,       \* after which maybeCleanup forgets the bucket
    MaxBurst,           \* bound on attempts at one instant
    MaxInstant          \* bound on the limiter's clock

ASSUME LimiterAssumption ==
    {Capacity, Window, IdleEviction, MaxBurst, MaxInstant} \subseteq Nat \ {0} /\ IdleEviction > Window

VARIABLES
    tokens, last,   \* the bucket; last = 0 when there is none
    allowed,        \* history: when each attempt was let in
    instant,        \* the limiter's clock
    burst           \* attempts at this instant

limiterVars == <<tokens, last, allowed, instant, burst>>

LimiterTypeOK ==
    /\ tokens \in 0 .. Capacity * Window /\ last \in 0 .. MaxInstant
    /\ allowed \in Seq(1 .. MaxInstant) /\ burst \in 0 .. MaxBurst /\ instant \in 1 .. MaxInstant

LimiterInit == tokens = 0 /\ last = 0 /\ allowed = <<>> /\ burst = 0 /\ instant = 1

Refilled_NoCap ==
    IF last = 0 THEN Capacity * Window ELSE tokens + (instant - last) * Capacity

\* The bucket as Allow finds it: new, full again after a Window, or refilled in proportion.
Refilled ==
    IF last = 0 \/ instant - last >= Window \/ tokens + (instant - last) * Capacity > Capacity * Window
    THEN Capacity * Window
    ELSE tokens + (instant - last) * Capacity

\* Allow stamps the bucket on a refusal too: the time up to now has been paid out.
LastSeen_OnlyIfAllowed(ok) == IF ok THEN instant ELSE last

LastSeen(ok) == instant

Attempt ==
    LET ok == Refilled >= Window IN
    /\ burst < MaxBurst /\ burst' = burst + 1
    /\ tokens' = IF ok THEN Refilled - Window ELSE Refilled
    /\ last' = LastSeen(ok)
    /\ allowed' = IF ok THEN Append(allowed, instant) ELSE allowed
    /\ UNCHANGED instant

\* maybeCleanup runs in any client's allowed attempt.
Evict ==
    /\ last # 0 /\ instant - last > IdleEviction
    /\ tokens' = 0 /\ last' = 0
    /\ UNCHANGED <<allowed, burst, instant>>

LimiterTick ==
    /\ instant < MaxInstant /\ instant' = instant + 1
    /\ burst' = 0
    /\ UNCHANGED <<tokens, last, allowed>>

LimiterNext == Attempt \/ Evict \/ LimiterTick

LimiterSpec == LimiterInit /\ [][LimiterNext]_limiterVars

-----------------------------------------------------------------------------
(* However a client spaces its attempts, and whether or not refused ones are *)
(* among them, fewer than twice Capacity get in during any Window: a full    *)
(* bucket and what refills meanwhile.                                        *)
BurstBounded ==
    \A i, j \in 1 .. Len(allowed) :
        i <= j /\ allowed[j] < allowed[i] + Window => j - i + 1 < 2 * Capacity
=============================================================================
