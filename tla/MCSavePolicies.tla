--------------------------- MODULE MCSavePolicies ---------------------------
(* The saver under its policies, on small instances; every constant is     *)
(* given by the .cfg.                                                      *)
EXTENDS SavePolicies, TLC

\* Watchers are interchangeable, and so are room objects; Dangling tells
\* messages apart, so they are not permuted.
Symmetry == Permutations(Watchers) \union Permutations(Rooms)
=============================================================================
