----------------------------- MODULE MCDatabase -----------------------------
(* Two units of up to two statements, one script, one aclose. *)
EXTENDS Database, TLC

CONSTANTS u1, u2, s1
=============================================================================
