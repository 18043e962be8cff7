--------------------------- MODULE MCMemoryStore ---------------------------
(* Model values for the runs of MemoryStore. *)
EXTENDS MemoryStore

CONSTANTS u1, u2, e1, sync
=============================================================================
