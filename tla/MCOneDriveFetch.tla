--------------------------- MODULE MCOneDriveFetch ---------------------------
(* Instances of OneDriveFetch for TLC. *)
EXTENDS OneDriveFetch, TLC

Losses == {"workerLost", "taskLost"}

AnySymmetry == Permutations(Workers) \cup Permutations(Requests) \cup Permutations(Files)
=============================================================================
