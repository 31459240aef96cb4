------------------------------- MODULE Eviction -------------------------------
(***************************************************************************)
(* Pinning and reclamation (eviction.rs) as the daemon runs them: each     *)
(* Varlink connection is a task, handlers do not lock the storage root, so *)
(* tasks interleave at every system call.  A Pruner is a connection that   *)
(* calls Prune, a PinClient one that calls Pin and Unpin.                  *)
(***************************************************************************)
EXTENDS CasLayout

CONSTANTS Pruner,     \* tasks handling Prune calls
          PinClient,  \* tasks handling Pin and Unpin calls
          Budgets     \* max_bytes values the clients ask for

ASSUME EvictionAssumption ==
    /\ IsFiniteSet(Pruner)
    /\ Budgets \subseteq Nat \ {0}  \* handle_prune rejects 0

VARIABLES
    pinned,     \* digests with a file under pinned/
    ppc,        \* ppc[p]: where Prune call p stands
    budget,     \* budget[p]: its max_bytes
    listing,    \* listing[p]: directory entries read and not yet examined
    snap,       \* snap[p]: the candidates collected (blobs in prune)
    total,      \* total[p]: its current_total
    reclaimed,  \* reclaimed[p]: its reclaimed_bytes
    victim,     \* victim[p]: the candidate being removed
    hit,        \* hit[p]: r1, the standard path was removed
    upc         \* upc[c]: the digest an Unpin has found pinned, or None

evictVars == <<pinned, ppc, budget, listing, snap, total, reclaimed, victim,
               hit, upc>>
scanVars  == <<budget, listing, snap, total, reclaimed>>

Removing(p) == ppc[p] \in {"unlink_std", "unlink_flat"}

Candidate == [digest : Digest, size : Nat, mtime : Nat]

EvictTypeOK ==
    /\ pinned \subseteq Digest
    /\ ppc \in [Pruner -> {"idle", "stat_blobs", "stat_cas", "next",
                           "unlink_std", "unlink_flat"}]
    /\ budget \in [Pruner -> Nat]
    /\ listing \in [Pruner -> SUBSET Digest]
    /\ snap \in [Pruner -> SUBSET Candidate]
    /\ total \in [Pruner -> Nat]
    /\ reclaimed \in [Pruner -> Nat]
    /\ victim \in [Pruner -> Candidate \cup {None}]
    /\ \A p \in Pruner : Removing(p) => victim[p] \in Candidate
    /\ hit \in [Pruner -> BOOLEAN]
    /\ upc \in [PinClient -> Digest \cup {None}]

EvictInit ==
    /\ pinned = {}
    /\ ppc = [p \in Pruner |-> "idle"]
    /\ budget = [p \in Pruner |-> 0]
    /\ listing = [p \in Pruner |-> {}]
    /\ snap = [p \in Pruner |-> {}]
    /\ total = [p \in Pruner |-> 0]
    /\ reclaimed = [p \in Pruner |-> 0]
    /\ victim = [p \in Pruner |-> None]
    /\ hit = [p \in Pruner |-> FALSE]
    /\ upc = [c \in PinClient |-> None]
-----------------------------------------------------------------------------
(* Pin and Unpin.  An Unpin looks before it removes; when another Unpin    *)
(* removed the file in between, remove_file fails and nothing changes.     *)

(* some Prune has found d unpinned and has not removed it yet *)
PastCheck(d) == \E p \in Pruner : Removing(p) /\ victim[p].digest = d

Pin(c, d) ==
    /\ upc[c] = None
    /\ pinned' = pinned \cup {d}
    /\ UNCHANGED <<casVars, ppc, scanVars, victim, hit, upc>>

UnpinFound(c, d) ==
    /\ upc[c] = None
    /\ d \in pinned
    /\ upc' = [upc EXCEPT ![c] = d]
    /\ UNCHANGED <<casVars, pinned, ppc, scanVars, victim, hit>>

UnpinRemove(c) ==
    /\ upc[c] # None
    /\ pinned' = pinned \ {upc[c]}
    /\ upc' = [upc EXCEPT ![c] = None]
    /\ UNCHANGED <<casVars, ppc, scanVars, victim, hit>>
-----------------------------------------------------------------------------
(* Prune, one action per system call that other tasks can tell apart.      *)

ReturnTo(p, pc) == ppc' = [ppc EXCEPT ![p] = pc]

(* A finished call keeps nothing: its locals are gone with its stack frame. *)
PruneReturn(p) ==
    /\ ReturnTo(p, "idle")
    /\ budget' = [budget EXCEPT ![p] = 0]
    /\ listing' = [listing EXCEPT ![p] = {}]
    /\ snap' = [snap EXCEPT ![p] = {}]
    /\ total' = [total EXCEPT ![p] = 0]
    /\ reclaimed' = [reclaimed EXCEPT ![p] = 0]
    /\ victim' = [victim EXCEPT ![p] = None]
    /\ hit' = [hit EXCEPT ![p] = FALSE]

(* read_dir(cas/blobs/sha256) *)
PruneStart(p, max) ==
    /\ ppc[p] = "idle"
    /\ ReturnTo(p, "stat_blobs")
    /\ budget' = [budget EXCEPT ![p] = max]
    /\ listing' = [listing EXCEPT ![p] = {d \in Digest : HasFile("blobs", d)}]
    /\ UNCHANGED <<casVars, pinned, upc, snap, total, reclaimed,
                   victim, hit>>

Collect(p, l, d) ==
    /\ snap' = [snap EXCEPT ![p] = @ \cup {[digest |-> d,
                                            size   |-> FileSize(link[l][d]),
                                            mtime  |-> mtime[link[l][d]]]}]
    /\ total' = [total EXCEPT ![p] = @ + FileSize(link[l][d])]

(* entry.metadata()? on a listed blob *)
PruneStatBlob(p, d) ==
    /\ ppc[p] = "stat_blobs"
    /\ d \in listing[p]
    /\ HasFile("blobs", d)
    /\ Collect(p, "blobs", d)
    /\ listing' = [listing EXCEPT ![p] = @ \ {d}]
    /\ UNCHANGED <<casVars, pinned, upc, ppc, budget, reclaimed,
                   victim, hit>>

(* Variant: a listed blob that has gone is waited for. *)
PruneStatBlobGone_Retries(p, d) ==
    /\ ppc[p] = "stat_blobs"
    /\ d \in listing[p]
    /\ ~HasFile("blobs", d)
    /\ UNCHANGED <<casVars, evictVars>>

(* ... which fails the whole call when the file has gone meanwhile. *)
PruneStatBlobGone(p, d) ==
    /\ ppc[p] = "stat_blobs"
    /\ d \in listing[p]
    /\ ~HasFile("blobs", d)
    /\ PruneReturn(p)
    /\ UNCHANGED <<casVars, pinned, upc>>

(* Variant: flat files are forgotten by the scan. *)
PruneListCas_NoFlat(p) ==
    /\ ppc[p] = "stat_blobs"
    /\ listing[p] = {}
    /\ ReturnTo(p, "stat_cas")
    /\ UNCHANGED <<casVars, pinned, upc, scanVars, victim, hit>>

(* read_dir(cas): only the .gguf names count *)
PruneListCas(p) ==
    /\ ppc[p] = "stat_blobs"
    /\ listing[p] = {}
    /\ ReturnTo(p, "stat_cas")
    /\ listing' = [listing EXCEPT ![p] = {d \in Digest : HasFile("gguf", d)}]
    /\ UNCHANGED <<casVars, pinned, upc, budget, snap, total,
                   reclaimed, victim, hit>>

(* Variant: no check for a digest listed twice. *)
PruneStatCas_Twice(p, d) ==
    /\ ppc[p] = "stat_cas"
    /\ d \in listing[p]
    /\ IF HasFile("gguf", d) THEN Collect(p, "gguf", d) ELSE UNCHANGED <<snap, total>>
    /\ listing' = [listing EXCEPT ![p] = @ \ {d}]
    /\ UNCHANGED <<casVars, pinned, upc, ppc, budget, reclaimed, victim, hit>>

(* a flat file is a candidate unless its digest is one already; here a     *)
(* failing metadata() only skips the entry                                 *)
PruneStatCas(p, d) ==
    /\ ppc[p] = "stat_cas"
    /\ d \in listing[p]
    /\ IF HasFile("gguf", d) /\ \A s \in snap[p] : s.digest # d
       THEN Collect(p, "gguf", d)
       ELSE UNCHANGED <<snap, total>>
    /\ listing' = [listing EXCEPT ![p] = @ \ {d}]
    /\ UNCHANGED <<casVars, pinned, upc, ppc, budget, reclaimed,
                   victim, hit>>

(* the scan is complete: nothing to do, or sort and enter the loop *)
PruneSort(p) ==
    /\ ppc[p] = "stat_cas"
    /\ listing[p] = {}
    /\ total[p] > budget[p]
    /\ ReturnTo(p, "next")
    /\ UNCHANGED <<casVars, pinned, upc, scanVars, victim, hit>>

PruneUnderBudget(p) ==
    /\ ppc[p] = "stat_cas"
    /\ listing[p] = {}
    /\ total[p] <= budget[p]
    /\ PruneReturn(p)
    /\ UNCHANGED <<casVars, pinned, upc>>

(* Variant: the sort is descending. *)
Oldest_Newest(p) == {s \in snap[p] : \A t \in snap[p] : s.mtime >= t.mtime}

Oldest(p) == {s \in snap[p] : \A t \in snap[p] : s.mtime <= t.mtime}

(* the loop head: an oldest candidate (ties come in directory order, which *)
(* is arbitrary) is skipped when pinned ...                                *)
PruneSkipPinned(p, s) ==
    /\ ppc[p] = "next"
    /\ total[p] > budget[p]
    /\ s \in Oldest(p)
    /\ s.digest \in pinned
    /\ snap' = [snap EXCEPT ![p] = @ \ {s}]
    /\ UNCHANGED <<casVars, pinned, upc, ppc, budget, listing, total,
                   reclaimed, victim, hit>>

(* Variant: no is_pinned check. *)
PrunePick_IgnoresPins(p, s) ==
    /\ ppc[p] = "next"
    /\ total[p] > budget[p]
    /\ s \in Oldest(p)
    /\ snap' = [snap EXCEPT ![p] = @ \ {s}]
    /\ victim' = [victim EXCEPT ![p] = s]
    /\ ReturnTo(p, "unlink_std")
    /\ UNCHANGED <<casVars, pinned, upc, budget, listing, total, reclaimed, hit>>

(* ... and removed otherwise: the check is separate from the two unlinks *)
PrunePick(p, s) ==
    /\ ppc[p] = "next"
    /\ total[p] > budget[p]
    /\ s \in Oldest(p)
    /\ s.digest \notin pinned
    /\ snap' = [snap EXCEPT ![p] = @ \ {s}]
    /\ victim' = [victim EXCEPT ![p] = s]
    /\ ReturnTo(p, "unlink_std")
    /\ UNCHANGED <<casVars, pinned, upc, budget, listing, total,
                   reclaimed, hit>>

PruneUnlinkStd(p) ==
    /\ ppc[p] = "unlink_std"
    /\ hit' = [hit EXCEPT ![p] = HasFile("blobs", victim[p].digest)]
    /\ Unlink("blobs", victim[p].digest)
    /\ ReturnTo(p, "unlink_flat")
    /\ UNCHANGED <<data, mtime, clock, pinned, upc, scanVars, victim>>

(* Variant: each removed path is accounted for on its own, unsaturated. *)
PruneUnlinkFlat_PerPath(p) ==
    LET paths == (IF hit[p] THEN 1 ELSE 0)
                   + (IF HasFile("gguf", victim[p].digest) THEN 1 ELSE 0)
    IN  /\ ppc[p] = "unlink_flat"
        /\ Unlink("gguf", victim[p].digest)
        /\ total' = [total EXCEPT ![p] = @ - paths * victim[p].size]
        /\ reclaimed' = [reclaimed EXCEPT ![p] = @ + paths * victim[p].size]
        /\ victim' = [victim EXCEPT ![p] = None]
        /\ hit' = [hit EXCEPT ![p] = FALSE]
        /\ ReturnTo(p, "next")
        /\ UNCHANGED <<data, mtime, clock, pinned, upc, budget, listing, snap>>

PruneUnlinkFlat(p) ==
    /\ ppc[p] = "unlink_flat"
    /\ Unlink("gguf", victim[p].digest)
    /\ IF hit[p] \/ HasFile("gguf", victim[p].digest)
       THEN /\ total' = [total EXCEPT ![p] = IF @ > victim[p].size
                                             THEN @ - victim[p].size ELSE 0]
            /\ reclaimed' = [reclaimed EXCEPT ![p] = @ + victim[p].size]
       ELSE UNCHANGED <<total, reclaimed>>
    /\ victim' = [victim EXCEPT ![p] = None]
    /\ hit' = [hit EXCEPT ![p] = FALSE]
    /\ ReturnTo(p, "next")
    /\ UNCHANGED <<data, mtime, clock, pinned, upc, budget, listing,
                   snap>>

PruneDone(p) ==
    /\ ppc[p] = "next"
    /\ total[p] <= budget[p] \/ snap[p] = {}
    /\ PruneReturn(p)
    /\ UNCHANGED <<casVars, pinned, upc>>

(* The daemon is killed: every call in progress is lost, files remain. *)
DaemonCrash ==
    /\ ppc' = [p \in Pruner |-> "idle"]
    /\ budget' = [p \in Pruner |-> 0]
    /\ listing' = [p \in Pruner |-> {}]
    /\ snap' = [p \in Pruner |-> {}]
    /\ total' = [p \in Pruner |-> 0]
    /\ reclaimed' = [p \in Pruner |-> 0]
    /\ victim' = [p \in Pruner |-> None]
    /\ hit' = [p \in Pruner |-> FALSE]
    /\ upc' = [c \in PinClient |-> None]
    /\ UNCHANGED <<casVars, pinned>>

(* Every step a Prune call takes once it has been received. *)
PruneStep(p) ==
    \/ \E d \in Digest : \/ PruneStatBlob(p, d)
                         \/ PruneStatBlobGone(p, d)
                         \/ PruneStatCas(p, d)
    \/ PruneListCas(p)
    \/ PruneSort(p)
    \/ PruneUnderBudget(p)
    \/ \E s \in snap[p] : PruneSkipPinned(p, s) \/ PrunePick(p, s)
    \/ PruneUnlinkStd(p)
    \/ PruneUnlinkFlat(p)
    \/ PruneDone(p)

EvictNext ==
    \/ \E p \in Pruner, max \in Budgets : PruneStart(p, max)
    \/ \E p \in Pruner : PruneStep(p)
    \/ \E c \in PinClient, d \in Digest : Pin(c, d) \/ UnpinFound(c, d)
    \/ \E c \in PinClient : UnpinRemove(c)
    \/ DaemonCrash

evictionVars == <<casVars, evictVars>>

(* The store with nobody writing blobs: what Prune and Pin do on their own. *)
EvictionInit == CasInit /\ EvictInit
EvictionSpec == EvictionInit /\ [][EvictNext]_evictionVars
-----------------------------------------------------------------------------
(* Type invariant of the Prune, Pin and Unpin state. *)
EvictionTypeOK == CasTypeOK /\ EvictTypeOK

SafePins == {d \in pinned : ~PastCheck(d)}

(* A pin holds: once a digest is pinned while no Prune is between its      *)
(* is_pinned check and its unlinks, then until it is unpinned no step of   *)
(* any task, and no crash, makes it evictable or makes its blob            *)
(* unreachable ("strictly protecting pinned system models").               *)
SafePinHolds ==
    [][\A d \in SafePins \cap pinned' :
          /\ d \in SafePins'
          /\ Resolvable(d) => Resolvable(d)']_evictionVars

(* The unconditional promise of VARLINK_SPEC 3.3, "Pinned models will never *)
(* be evicted during disk pressure": whatever is pinned stays reachable.    *)
PinnedNeverEvicted ==
    [][\A d \in pinned \cap pinned' : Resolvable(d) => Resolvable(d)']_evictionVars

(* A Prune call that was received is answered, whatever the other tasks do *)
(* to the files it scans.                                                  *)
PruneTerminates == \A p \in Pruner : ppc[p] # "idle" ~> ppc[p] = "idle"
=============================================================================
