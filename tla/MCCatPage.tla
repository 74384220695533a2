----------------------------- MODULE MCCatPage -----------------------------
(***************************************************************************)
(* An instance of CatPage for TLC: two batches, so that loads differ in    *)
(* length and one can overtake another.                                    *)
(***************************************************************************)
EXTENDS CatPage

=============================================================================
