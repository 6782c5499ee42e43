------------------------------ MODULE WallClock ------------------------------
(***************************************************************************)
(* time.Now() of one server, as the expiries and schedules of its services  *)
(* read it.  The zero time of Go is 0, which no reading returns.            *)
(***************************************************************************)
EXTENDS Naturals

CONSTANT MaxTime    \* bound on the clock

ASSUME TimeAssumption == MaxTime \in Nat \ {0}

VARIABLE clock

ClockAdvances == clock < MaxTime /\ clock' = clock + 1
=============================================================================
