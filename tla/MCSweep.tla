------------------------------- MODULE MCSweep -------------------------------
(* Small instances of Sweep for TLC. *)
EXTENDS Sweep, TLC

Symmetry == Permutations(Workers)
==============================================================================
