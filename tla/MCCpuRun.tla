------------------------------ MODULE MCCpuRun ------------------------------
(* CpuRun with every budget up to MCLongest: the last cycle of a slice, the *)
(* last but one, and enough before them for a cut and a second cut.         *)
EXTENDS CpuRun

CONSTANT MCLongest

MCBudgets == 1..MCLongest
=============================================================================
