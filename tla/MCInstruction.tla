--------------------------- MODULE MCInstruction ---------------------------
(* Instances of Instruction for TLC.                                        *)
EXTENDS Instruction

MCEveryGroup == PlainGroups \cup WideGroups
=============================================================================
