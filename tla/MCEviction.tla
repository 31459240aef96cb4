----------------------------- MODULE MCEviction -----------------------------
(* Small instances of Eviction and its audit for TLC. *)
EXTENDS EvictionAudit, TLC

CONSTANTS d1, d2, d3

(* two sizes, so that one removal may or may not be enough *)
MCSizeOf == [d \in Digest |-> IF d = d1 THEN 2 ELSE 1]

(* every digest but the larger one, and the callers, may be exchanged *)
MCSymmetry == Permutations(Digest \ {d1}) \cup Permutations(Pruner)
=============================================================================
