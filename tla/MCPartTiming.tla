----------------------------- MODULE MCPartTiming -----------------------------
(* Instances of PartTiming. *)
EXTENDS PartTiming, TLC

CONSTANTS p1, p2

PartSymmetry == Permutations(Parts)

=============================================================================
