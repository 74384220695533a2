----------------------------- MODULE MCCollapse -----------------------------
(***************************************************************************)
(* An instance of Collapse for TLC: three panels, the fewest of which one  *)
(* can open, a second close and a third be in the way.                     *)
(***************************************************************************)
EXTENDS Collapse

=============================================================================
