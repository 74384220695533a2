----------------------------- MODULE MCTooltip -----------------------------
(***************************************************************************)
(* An instance of Tooltip for TLC: each delay is absent, as long as a      *)
(* transition or twice as long.                                            *)
(***************************************************************************)
EXTENDS Tooltip

Delays == {0, 1, 2}

=============================================================================
