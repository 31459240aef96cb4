-------------------------- MODULE MCDaemonLifecycle --------------------------
(* Small instances of DaemonLifecycle for TLC. *)
EXTENDS DaemonLifecycle

CONSTANTS c1, c2

(* two clients of one socket, so that one can be accepted after the other *)
MCSocketOf == [c \in Client |-> "varlink"]
=============================================================================
