---------------------------- MODULE MCNodeServer ----------------------------
(* Instances of NodeServer for TLC.                                        *)
EXTENDS NodeServer, TLC

CONSTANTS h1, h2, h3, s1, s2

\* Handlers and sandbox IDs are interchangeable in the safety properties.
Symmetry == Permutations(Handlers) \cup Permutations(Sids)
=============================================================================
