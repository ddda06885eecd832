------------------------------ MODULE MCSeaDeps ------------------------------
(* Three process ids, so that a launch can run while two others race. *)
EXTENDS SeaDeps, TLC

CONSTANTS p1, p2, p3, ws, yaml

Symmetry == Permutations(Pids) \cup Permutations(Packages)
=============================================================================
