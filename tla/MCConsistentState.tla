-------------------------- MODULE MCConsistentState --------------------------
(* Small instances of ConsistentState for TLC.                              *)
EXTENDS ConsistentState, TLC

(* A device with all callbacks, and one with each of them missing.          *)
FullMode == [initialize |-> FALSE, getter |-> TRUE, setter |-> TRUE]
OnlyFull == {FullMode}
SomeModes == {FullMode,
              [initialize |-> TRUE, getter |-> FALSE, setter |-> TRUE],
              [initialize |-> FALSE, getter |-> TRUE, setter |-> FALSE],
              [initialize |-> FALSE, getter |-> FALSE, setter |-> TRUE]}

Symmetric == Permutations(Users) \cup Permutations(Params)
=============================================================================
