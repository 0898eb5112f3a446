---------------------------- MODULE MCSocketPath ----------------------------
(* Small instances of SocketPath for TLC. *)
EXTENDS SocketPath, TLC

CONSTANTS d1, d2, d3

Symmetric == Permutations({d1, d2, d3})
=============================================================================
