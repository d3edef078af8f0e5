------------------------------- MODULE MCApic -------------------------------
(* Instances of Apic for TLC. *)
EXTENDS Apic

\* Edge pin 4 and level pin 10 are of the same class.
MCVecOf == [l \in Pins |-> IF l = 4 THEN 49 ELSE 50]

=============================================================================
