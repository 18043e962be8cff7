---------------------------- MODULE MCTeamLimit ----------------------------
(* Model values for the runs of TeamLimit. *)
EXTENDS TeamLimit

CONSTANTS u1, u2, u3, s1, s2
=============================================================================
