------------------------------ MODULE MCClock ------------------------------
(* Instances of Clock for TLC. *)
EXTENDS Clock

MCUses == {{"rtc"}, {"apic"}, {"pit", "acpi"}}

=============================================================================
