------------------------------- MODULE MCPic -------------------------------
(* Instances of Pic for TLC. *)
EXTENDS PicRefinement, FiniteSets

\* Command bytes, by what the guest means by them.
NonSpecificEOI == [rotate |-> FALSE, specific |-> FALSE, eoi |-> TRUE, l |-> 0]
RotateOnEOI(i) == [rotate |-> TRUE, specific |-> TRUE, eoi |-> TRUE, l |-> i]
SetLowest(i) == [rotate |-> TRUE, specific |-> TRUE, eoi |-> FALSE, l |-> i]
AutoRotate(b) == [rotate |-> b, specific |-> FALSE, eoi |-> FALSE, l |-> 0]

MCVectors == [c \in Ctrls |-> IF c = Master THEN 8 ELSE 112]
MCOneVector == [c \in Ctrls |-> 0]
MCInitWord == {[sngl |-> FALSE, ic4 |-> TRUE]}

\* One line of each controller, and the cascade.
MCAllLines == {0, 8}
MCHandlerEOI == {NonSpecificEOI}
MCAllOCW2 ==
  {NonSpecificEOI, RotateOnEOI(0), SetLowest(7), AutoRotate(TRUE), AutoRotate(FALSE)}

\* Bound: of the special mask and the rotating automatic EOI of the two
\* controllers, one is in use at a time.
ModesInUse ==
  {<<c, "special">> : c \in {d \in Ctrls : ctrl[d].special}} \cup
  {<<c, "rotate">> : c \in {d \in Ctrls : ctrl[d].rotate_on_autoeoi}}
OneMode == Cardinality(ModesInUse) <= 1

=============================================================================
