---------------------------- MODULE MCThreadSync ----------------------------
(* Small instances of ThreadSync for TLC. *)
EXTENDS ThreadSync, TLC

Symmetry == Permutations(Texts)

=============================================================================
