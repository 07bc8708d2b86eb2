----------------------------- MODULE MCFragments -----------------------------
(* An instance of Fragments for TLC: full fragments of four bytes, a length   *)
(* field of two, so that a last fragment can be shorter than a length field.  *)
EXTENDS Fragments

\* A message of four fragments, then shorter ones of three and two.
Sizes == <<13, 7, 6, 9, 4>>
==============================================================================
