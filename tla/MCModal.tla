------------------------------ MODULE MCModal ------------------------------
(***************************************************************************)
(* An instance of Modal for TLC: m1 fades and two elements toggle it, m2   *)
(* appears at once on a backdrop that does not close it, and m3 fades and  *)
(* has no backdrop.                                                        *)
(***************************************************************************)
EXTENDS Modal

CONSTANTS m1, m2, m3, t1, t2

Modals == {m1, m2, m3}
Fade == {m1, m3}
Backdrops == {m1, m2}
StaticBackdrops == {m2}
Triggers == {t1, t2}
ForFirst == [t \in Triggers |-> m1]

=============================================================================
