--------------------------- MODULE MCTerminalPath ---------------------------
(* Small instances of TerminalPath for TLC. *)
EXTENDS TerminalPath
=============================================================================
