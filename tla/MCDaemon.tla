------------------------------ MODULE MCDaemon ------------------------------
(* Small instances of Daemon for TLC. *)
EXTENDS Daemon, TLC

CONSTANTS c1, c2, c3, c4

TwoClients  == {c1, c2}
FourClients == {c1, c2, c3, c4}

Symmetric == Permutations(Clients)
=============================================================================
