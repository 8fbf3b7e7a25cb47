---------------------------- MODULE MCDocuments ----------------------------
(* Instances of Documents for TLC. *)
EXTENDS Documents, TLC

\* Documents are interchangeable, and so are workers.
Symmetry == Permutations(Documents) \cup Permutations(FileWorkers)
=============================================================================
