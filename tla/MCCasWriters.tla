---------------------------- MODULE MCCasWriters ----------------------------
(* Small instances of CasWriters for TLC. *)
EXTENDS CasWriters

MCSizeOf == [d \in Digest |-> 1]
=============================================================================
