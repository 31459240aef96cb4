------------------------------ MODULE ModelStore ------------------------------
(***************************************************************************)
(* The storage root with everybody on it: the daemon's Prune, Pin and      *)
(* Unpin tasks (Eviction) and the modelctl processes (CasWriters), which   *)
(* know nothing of each other.                                             *)
(***************************************************************************)
EXTENDS Eviction, CasWriters

storeVars == <<casVars, tag, writerVars, evictVars>>

StoreInit == WritingInit /\ EvictInit

(* The last disjunct is the step of a pull that only a Prune makes possible. *)
StoreNext ==
    \/ EvictNext /\ UNCHANGED <<tag, writerVars>>
    \/ WritersNext /\ UNCHANGED evictVars
    \/ \E w \in Writer : PullCopyNoSource(w) /\ UNCHANGED evictVars

StoreSpec == StoreInit /\ [][StoreNext]_storeVars

(* Handlers run to completion without an await (handle_model1_call is a    *)
(* plain function on a runtime thread), so a Prune that was received keeps *)
(* taking steps.  Nothing is assumed of the modelctl processes.            *)
FairStoreSpec ==
    StoreSpec /\ \A p \in Pruner : WF_storeVars(PruneStep(p) /\ UNCHANGED <<tag, writerVars>>)
-----------------------------------------------------------------------------
StoreTypeOK == CasTypeOK /\ TagTypeOK /\ WriterTypeOK /\ EvictTypeOK

(* A writer of d that has published its flat file and is about to replace  *)
(* the standard path.                                                      *)
Relinking(d) ==
    \E w \in Puller : wdigest[w] = d /\ wpc[w] = "unlink_std"

(* The pin promise with writers around: a digest that is pinned while no   *)
(* Prune is past its check is not picked by one, and becomes unreachable   *)
(* in one way only, a pull of the same digest that removes the standard    *)
(* path after its flat file was pruned.                                    *)
PinLossNeedsPull ==
    [][\A d \in SafePins \cap pinned' :
          /\ d \in SafePins'
          /\ Resolvable(d) /\ ~Resolvable(d)' => Relinking(d)]_storeVars
=============================================================================
