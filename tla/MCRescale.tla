----------------------------- MODULE MCRescale -----------------------------
(***************************************************************************)
(* A small input for Rescale, and images on either side of its size.       *)
(***************************************************************************)
EXTENDS Rescale

SomeWidths  == {1, 2, 3, 6, 7, 8, 13, 14, 15, 23}
SomeHeights == {1, 2, 3, 5, 7}
=============================================================================
