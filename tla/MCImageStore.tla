---------------------------- MODULE MCImageStore ----------------------------
(* Small channels for TLC. *)
EXTENDS ImageStore

CONSTANTS c1, c2

=============================================================================
