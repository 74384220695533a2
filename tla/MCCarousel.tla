----------------------------- MODULE MCCarousel -----------------------------
(***************************************************************************)
(* An instance of Carousel for TLC: three items, so that the neighbours of *)
(* an item differ, with every combination of its options.                  *)
(***************************************************************************)
EXTENDS Carousel

=============================================================================
