---------------------------- MODULE MCToolEvents ----------------------------
(* Small instances of ToolEvents for TLC. *)
EXTENDS ToolEvents

\* Symbolic tool names: one hooked and reaped, one without waiting hooks.
MCTools == {"claude", "codex"}
MCNative == {"claude"}

\* Every monitor beside the others, and the hook-driven ones beside the file.
MCCrews == {{"promoter", "reconciler", "detector", "silence"},
            {"promoter", "reconciler", "persist"}}
=============================================================================
