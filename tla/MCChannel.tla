----------------------------- MODULE MCChannel -----------------------------
(* A heartbeat, a request whose handler asks the shell something, and      *)
(* app.shutdown, over pipes of one frame.                                  *)
EXTENDS Channel, TLC

CONSTANTS beat, asker, down
=============================================================================
