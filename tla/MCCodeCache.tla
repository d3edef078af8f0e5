---------------------------- MODULE MCCodeCache ----------------------------
(* Two pages of four bytes and two chunks.  Two of the places jumped to     *)
(* share a slot, one stands at an odd byte and two in the same page.        *)
EXTENDS CodeCache, TLC

CONSTANTS a, b
MCLin == {a, b}
LinSymmetry == Permutations(MCLin)
=============================================================================
