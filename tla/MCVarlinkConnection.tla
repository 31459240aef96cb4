------------------------- MODULE MCVarlinkConnection -------------------------
(* Small instances of VarlinkConnection for TLC: lengths are in units of   *)
(* which a chunk holds two and the cap three.                              *)
EXTENDS VarlinkConnection
=============================================================================
