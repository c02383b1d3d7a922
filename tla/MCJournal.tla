----------------------------- MODULE MCJournal -----------------------------
(* Three appends, the log opened three times. *)
EXTENDS Journal, TLC

CONSTANTS a1, a2, a3
=============================================================================
