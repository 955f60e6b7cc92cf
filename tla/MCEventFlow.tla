------------------------------ MODULE MCEventFlow ------------------------------
(* Small instances of EventFlow: the consumers are interchangeable. *)
EXTENDS EventFlow, TLC

CONSTANTS d1, c1, c2

ProcessSymmetry == Permutations(Consumers)
==============================================================================
