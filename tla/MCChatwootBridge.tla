-------------------------- MODULE MCChatwootBridge --------------------------
(* Small instances of ChatwootBridge for TLC. *)
EXTENDS ChatwootBridge, TLC

TwoFiles == [m \in Messages |-> 2]

\* Requests are interchangeable, and so are delivery ids.
Symmetry == Permutations(Handlers) \cup Permutations(Deliveries)

=============================================================================
