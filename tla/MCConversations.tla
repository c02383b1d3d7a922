-------------------------- MODULE MCConversations --------------------------
(* One conversation id in the container and in one opened workspace. *)
EXTENDS Conversations, TLC

Symmetry == Permutations(Sends)
============================================================================
