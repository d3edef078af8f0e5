--------------------------- MODULE PicRefinement ---------------------------
(***************************************************************************)
(* Two cascaded controllers, once initialized, behave as the one flat      *)
(* controller of IrqContract.                                              *)
(***************************************************************************)
EXTENDS Pic

Contract ==
  INSTANCE IrqContract WITH
    Lines <- DevLines,
    Vector <- [l \in DevLines |-> ICW2[CtrlOf(l)] + (l % 8)],
    NoLine <- {ICW2[c] + 7 : c \in Ctrls},
    asserted <- {l \in DevLines : l % 8 \in ctrl[CtrlOf(l)].pin},
    requested <- {l \in DevLines : l % 8 \in ctrl[CtrlOf(l)].irr}

\* Refinement.  Every step of the controllers after initialization is a step
\* of the contract: no edge is delivered twice, no line is delivered that did
\* not ask, one acknowledge takes one request through both controllers, and
\* the cascade line is never seen from outside.
ImplementsContract == Contract!Spec

=============================================================================
