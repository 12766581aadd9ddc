---------------------------- MODULE MCUserQueue ----------------------------
(* Model checking of UserQueue: the items are interchangeable.             *)
EXTENDS UserQueue

Symmetry == Permutations(Items)
=============================================================================
