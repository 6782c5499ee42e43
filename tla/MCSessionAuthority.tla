------------------------- MODULE MCSessionAuthority -------------------------
(* SessionAuthority for TLC. *)
EXTENDS SessionAuthority, TLC

\* Daemons are interchangeable: for safety only.
MCSymmetry == Permutations(Inst)
=============================================================================
