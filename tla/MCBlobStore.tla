---------------------------- MODULE MCBlobStore ----------------------------
(* Two clients, two collections, one content or two, one crash or none. *)
EXTENDS BlobStore, TLC

CONSTANTS c1, c2, g1, g2, b1, b2
=============================================================================
