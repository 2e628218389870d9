----------------------------- MODULE MCSyncJobs -----------------------------
(* Small instances of SyncJobs for TLC. *)
EXTENDS SyncJobs, TLC

OneDelay == <<1>>
TwoDelays == <<1, 2>>

\* Note rows are interchangeable, and so are workers.
Symmetry == Permutations(NoteJobs) \cup Permutations(Workers)

=============================================================================
