----------------------------- MODULE MCJobLease -----------------------------
(* Instances of JobLease for TLC. *)
EXTENDS JobLease, TLC

Symmetry == Permutations(Jobs)
=============================================================================
