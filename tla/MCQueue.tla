------------------------------- MODULE MCQueue -------------------------------
(* Small instances of Queue for TLC.                                        *)
EXTENDS Queue, TLC

Symmetric == Permutations(NamedIds) \cup Permutations(Clients)
=============================================================================
