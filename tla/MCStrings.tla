------------------------------ MODULE MCStrings ------------------------------
(* Memory of five bytes on three pages: all different, or nearly all alike. *)
EXTENDS Strings
FewImages == {[a \in 0..Size |-> a], [a \in 0..Size |-> IF a = 2 THEN 1 ELSE 0]}
=============================================================================
