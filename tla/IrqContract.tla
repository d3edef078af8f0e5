---------------------------- MODULE IrqContract ----------------------------
(***************************************************************************)
(* What the interrupt controllers promise to the devices and to the        *)
(* processor, whatever their number, priorities and masks: a flat set of   *)
(* lines, no cascade.  An edge on a line is one request; a request is      *)
(* delivered once, as that line's vector, or withdrawn by its device;      *)
(* INTR is raised only while some line requests, and only an acknowledge   *)
(* lowers it; an acknowledge that finds the request withdrawn returns one  *)
(* of the two spurious vectors and changes nothing.                        *)
(***************************************************************************)
EXTENDS Integers

CONSTANTS
  Lines,      \* the lines that devices drive
  Vector,     \* Vector[l], the vector of line l
  NoLine      \* the vectors that stand for no line

VARIABLES asserted, requested, intr, vector

vars == <<asserted, requested, intr, vector>>

Init ==
  /\ asserted = {}
  /\ requested = {}
  /\ intr = FALSE
  /\ vector = -1

\* INTR may go up with the edge, or later (Signal).
Assert(l) ==
  /\ l \notin asserted
  /\ asserted' = asserted \cup {l}
  /\ requested' = requested \cup {l}
  /\ intr' \in {intr, TRUE}
  /\ UNCHANGED vector

Deassert(l) ==
  /\ asserted' = asserted \ {l}
  /\ requested' = requested \ {l}
  /\ UNCHANGED <<intr, vector>>

\* A mask, an end of interrupt or a change of priority lets a request through.
Signal ==
  /\ requested # {}
  /\ intr' = TRUE
  /\ UNCHANGED <<asserted, requested, vector>>

Deliver(l) ==
  /\ intr /\ l \in requested
  /\ requested' = requested \ {l}
  /\ intr' = FALSE
  /\ vector' = Vector[l]
  /\ UNCHANGED asserted

DeliverNothing ==
  /\ intr
  /\ intr' = FALSE
  /\ vector' \in NoLine
  /\ UNCHANGED <<asserted, requested>>

Next ==
  \/ \E l \in Lines : Assert(l) \/ Deassert(l) \/ Deliver(l)
  \/ Signal
  \/ DeliverNothing

Spec == Init /\ [][Next]_vars

=============================================================================
