------------------------------ MODULE MCShell ------------------------------
(* Three concurrent operations of any kind, three processes, two restarts. *)
EXTENDS Shell, TLC

CONSTANTS o1, o2, o3
=============================================================================
