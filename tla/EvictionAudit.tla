---------------------------- MODULE EvictionAudit ----------------------------
(***************************************************************************)
(* Eviction with an auditor: history variables that compare what Prune     *)
(* reports and intends with what happens to the files.  They constrain     *)
(* nothing: every behaviour of EvictionSpec is one of AuditSpec.           *)
(***************************************************************************)
EXTENDS Eviction

VARIABLES
    kept,     \* kept[p]: the digests Prune p has passed over as pinned
    beside,   \* the Prune calls that have run beside another one
    freed,    \* bytes that have left the disk
    claimed   \* bytes a call by itself has added to its reclaimed_bytes

auditVars == <<evictionVars, kept, beside, freed, claimed>>

AuditTypeOK ==
    /\ EvictionTypeOK
    /\ kept \in [Pruner -> SUBSET Digest]
    /\ beside \subseteq {p \in Pruner : ppc[p] # "idle"}
    /\ freed \in Nat
    /\ claimed \in Nat

AuditInit ==
    /\ EvictionInit
    /\ kept = [p \in Pruner |-> {}]
    /\ beside = {}
    /\ freed = 0
    /\ claimed = 0

Kept(p) ==
    CASE ppc'[p] = "idle"                     -> {}
      [] ppc[p] = "next" /\ ppc'[p] = "next"  ->
            kept[p] \cup {s.digest : s \in snap[p] \ snap'[p]}
      [] OTHER                                -> kept[p]

Beside(p) ==
    /\ ppc'[p] # "idle"
    /\ p \in beside \/ \E q \in Pruner \ {p} : ppc'[q] # "idle"

Claims(p) == IF reclaimed'[p] > reclaimed[p] /\ ~Beside(p) THEN reclaimed'[p] - reclaimed[p] ELSE 0

AuditNext ==
    /\ EvictNext
    /\ kept' = [p \in Pruner |-> Kept(p)]
    /\ beside' = {p \in Pruner : Beside(p)}
    /\ freed' = freed + (StoredBytes - StoredBytes')
    /\ claimed' = claimed + SumFunction([p \in Pruner |-> Claims(p)])

AuditSpec == AuditInit /\ [][AuditNext]_auditVars
-----------------------------------------------------------------------------
(* "Returns the total number of bytes reclaimed": a Prune call that no     *)
(* other overlaps never reports bytes that are still on disk.              *)
ReclaimedIsFreed == claimed <= freed

(* "... until the total CAS storage falls below max_bytes": a call that no *)
(* other overlaps frees bytes only while more than its budget is on disk.  *)
(* (One that overlaps goes on with the total of its own, stale, scan.)     *)
NoOverEviction ==
    [][\A p \in Pruner \ beside :
          (PruneUnlinkStd(p) \/ PruneUnlinkFlat(p)) /\ StoredBytes' < StoredBytes
             => StoredBytes > budget[p]]_auditVars

(* VARLINK_SPEC 3.5, "pruned ... until total storage is below max_bytes":  *)
(* when a Prune call returns a byte count, the files that are left fit the *)
(* budget, or the call has seen every one of them pinned.                  *)
PruneMeetsBudget ==
    [][\A p \in Pruner : PruneDone(p) \/ PruneUnderBudget(p) =>
          \/ StoredBytes <= budget[p]
          \/ \A d \in Digest : Resolvable(d) => d \in kept[p]]_auditVars

(* "Sort unpinned blobs by modification time ascending (oldest first)":    *)
(* the step that makes a blob unreachable leaves none behind that was      *)
(* written before it and that its call did not see pinned.  The order is   *)
(* that of the last write.  It is not the least-recently-used order of     *)
(* VARLINK_SPEC 3.5: nothing in the program touches the modification time  *)
(* of a blob that is read or handed out.                                   *)
OldestFirst ==
    [][\A p \in Pruner, d \in Digest :
          (PruneUnlinkStd(p) \/ PruneUnlinkFlat(p)) /\ Resolvable(d) /\ ~Resolvable(d)'
             => \A e \in Digest \ kept[p] :
                   Resolvable(e) =>
                      mtime[link[BlobPlace(d)][d]] <= mtime[link[BlobPlace(e)][e]]]_auditVars
-----------------------------------------------------------------------------
(* Why these hold.  Nobody writes, so every path of a digest is a link to  *)
(* one file of its own, and the bytes on disk are the sizes of the digests *)
(* that can be found.                                                      *)
File(d) == <<d, "staged">>
Stored  == {d \in Digest : Resolvable(d)}

Bytes(D) == SumFunctionOnSet(SizeOf, D)

OwnFiles ==
    /\ \A d \in Digest : data[File(d)] = d
    /\ \A l \in Place, d \in Digest : HasFile(l, d) => link[l][d] = File(d)

Scanning(p) == ppc[p] \in {"stat_blobs", "stat_cas"}
Seen(p)     == {s.digest : s \in snap[p]}

(* What stat said of a candidate stays true, and the candidates that are   *)
(* left are no older than the one being removed.                           *)
Faithful(s) == s.size = SizeOf[s.digest] /\ s.mtime = mtime[File(s.digest)]

FaithfulScan(p) ==
    /\ \A s \in snap[p] : Faithful(s)
    /\ Removing(p) =>
          /\ Faithful(victim[p])
          /\ \A s \in snap[p] : victim[p].mtime <= s.mtime
          /\ total[p] > budget[p]
    /\ ppc[p] = "unlink_flat" => ~HasFile("blobs", victim[p].digest)

(* The scan adds up each digest once. *)
ScanTotal(p) ==
    /\ ppc[p] = "idle" => snap[p] = {} /\ total[p] = 0
    /\ Scanning(p) => total[p] = Bytes(Seen(p))
    /\ ppc[p] = "stat_blobs" => listing[p] \cap Seen(p) = {}

(* bytes that the call has freed and not yet taken off its total *)
Unbooked(p) ==
    IF ppc[p] = "unlink_flat" /\ hit[p] /\ victim[p].digest \notin Stored
    THEN victim[p].size ELSE 0

(* A call that nobody disturbs counts nothing that is not on disk ...      *)
OverlapSeen ==
    \A p, q \in Pruner : p # q /\ ppc[p] # "idle" /\ ppc[q] # "idle" => p \in beside

AloneCountsDisk(p) ==
    p \notin beside =>
        /\ Scanning(p) => Seen(p) \subseteq Stored
        /\ ppc[p] = "next" \/ Removing(p) => total[p] <= StoredBytes + Unbooked(p)

CallInv(p) == FaithfulScan(p) /\ ScanTotal(p) /\ AloneCountsDisk(p)

AuditInv == AuditTypeOK /\ OwnFiles /\ OverlapSeen /\ \A p \in Pruner : CallInv(p)

(* ... and claims nothing that it has not freed; and any call, disturbed   *)
(* or not, counts all there is, as long as no digest has a safetensors     *)
(* path: Prune neither scans those nor removes them.                       *)
ClaimsBacked == \A p \in Pruner \ beside : claimed + Unbooked(p) <= freed

NoneMissed(p) ==
    \A d \in Digest :
        /\ ppc[p] = "stat_blobs" /\ HasFile("blobs", d) => d \in Seen(p) \cup listing[p]
        /\ ppc[p] = "stat_cas" /\ HasFile("blobs", d) => d \in Seen(p)
        /\ ppc[p] = "stat_cas" /\ HasFile("gguf", d) => d \in Seen(p) \cup listing[p]
        /\ ppc[p] = "next" /\ Resolvable(d) => d \in Seen(p) \cup kept[p]
        /\ Removing(p) /\ Resolvable(d) => d \in Seen(p) \cup kept[p] \cup {victim[p].digest}

TotalCovers(p) ==
    /\ ppc[p] = "next" \/ Removing(p) => StoredBytes <= total[p]
    /\ ppc[p] = "unlink_flat" /\ hit[p] =>
          Bytes(Stored \ {victim[p].digest}) + victim[p].size <= total[p]

NoSafetensors == \A d \in Digest : ~HasFile("safetensors", d)

GgufInv ==
    /\ NoSafetensors
    /\ ReclaimedIsFreed
    /\ ClaimsBacked
    /\ \A p \in Pruner : NoneMissed(p) /\ TotalCovers(p)
=============================================================================
