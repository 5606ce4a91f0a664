------------------------------ MODULE MCConnect ------------------------------
(* Small instances of Connect for TLC. *)
EXTENDS Connect

\* Every name hashes to the last port, so that probing wraps around.
Colliding == [s \in Services |-> 1]
=============================================================================
