-------------------------- MODULE MCTransferService --------------------------
(* Instances of TransferService for TLC. *)
EXTENDS TransferRefinement, TLC

\* Callers, workers and tails are interchangeable.
Symmetry == Permutations(Callers) \cup Permutations(Workers) \cup Permutations(Tails)

=============================================================================
