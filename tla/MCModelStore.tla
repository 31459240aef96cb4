---------------------------- MODULE MCModelStore ----------------------------
(* Small instances of ModelStore for TLC. *)
EXTENDS ModelStore

MCSizeOf == [d \in Digest |-> 2]

=============================================================================
