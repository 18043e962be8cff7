---------------------------- MODULE MCResources ----------------------------
(* Model values for the runs of SandboxResources. *)
EXTENDS SandboxResources

CONSTANTS x1, x2, s1, s2

\* The slots are interchangeable.
SlotSymmetry == Permutations(Slots)
=============================================================================
