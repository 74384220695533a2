------------------------------ MODULE MCBrain ------------------------------
(***************************************************************************)
(* An instance of Brain for TLC: no context, one pass of it, and three,    *)
(* which need larger windows than the two that an experience needs.        *)
(***************************************************************************)
EXTENDS Brain

Windows == {0, 1, 3}

=============================================================================
