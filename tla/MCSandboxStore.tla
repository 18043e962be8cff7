--------------------------- MODULE MCSandboxStore ---------------------------
(* Instances of SandboxStore for TLC: u1 .. u3 serve requests, e1 evicts.  *)
EXTENDS SandboxStore

CONSTANTS u1, u2, u3, e1
=============================================================================
