----------------------------- MODULE MCFdHandoff -----------------------------
(* Small instances of FdHandoff for TLC. *)
EXTENDS FdHandoff

CONSTANTS d1, d2

(* two sizes, so that a size of the wrong blob shows *)
MCSizeOf == [d \in Digest |-> IF d = d1 THEN 1 ELSE 2]
=============================================================================
