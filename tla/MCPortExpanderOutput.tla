------------------------ MODULE MCPortExpanderOutput ------------------------
(* A small instance of PortExpanderOutput for TLC.  The chip starts with    *)
(* all pins low: the levels are alike otherwise.                            *)
EXTENDS PortExpanderOutput, TLC

AllLow == {[p \in Pins |-> FALSE]}

Symmetric == Permutations(Pins) \cup Permutations(Users)
=============================================================================
