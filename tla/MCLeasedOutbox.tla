--------------------------- MODULE MCLeasedOutbox ---------------------------
(* Instances of LeasedOutbox for TLC. *)
EXTENDS LeasedOutbox, TLC

CONSTANTS m1, m2, w1, w2, c1, c2

NoOrder == [m \in Msgs |-> {}]
InOrder == (m1 :> {}) @@ (m2 :> {m1})

WorkerSymmetry  == Permutations(Workers)
ContentSymmetry == Permutations(Contents)
Symmetry == WorkerSymmetry \cup ContentSymmetry
=============================================================================
