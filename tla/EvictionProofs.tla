---------------------------- MODULE EvictionProofs ----------------------------
(***************************************************************************)
(* Proofs about the blob files, Eviction and its audit.  The lemmas about  *)
(* Eviction speak about EvictNext alone, so that they serve every          *)
(* specification that has Eviction as a part.                              *)
(***************************************************************************)
EXTENDS EvictionAudit, FiniteSums

USE DEF HasFile

(* A file's size is a natural number, whatever it contains. *)
LEMMA FileSizeNat ==
    ASSUME CasTypeOK, NEW l \in Place, NEW d \in Digest, HasFile(l, d)
    PROVE  /\ FileSize(link[l][d]) \in Nat
           /\ mtime[link[l][d]] \in Nat
  BY LayoutAssumption DEF CasTypeOK, FileSize

LEMMA CasInitType == CasInit => CasTypeOK
  <1> SUFFICES ASSUME NEW shape \in [Digest -> Shapes],
                      NEW age \in [Digest -> 0 .. MaxAge],
                      link = [l \in Place |-> [d \in Digest |->
                                IF l \in PlacesOf(shape[d]) THEN <<d, "staged">>
                                                            ELSE None]],
                      data = [i \in Inode |->
                                IF i[2] = "staged" /\ i[1] \in Digest THEN i[1]
                                                                      ELSE Torn],
                      mtime = [i \in Inode |->
                                 IF i[1] \in Digest THEN age[i[1]] ELSE 0],
                      clock = MaxAge
               PROVE  CasTypeOK
    BY DEF CasInit
  <1>1. link \in [Place -> [Digest -> Inode \cup {None}]]
    BY DEF Inode
  <1>2. data \in [Inode -> Digest \cup {Torn}]
    OBVIOUS
  <1>3. mtime \in [Inode -> Nat]
    BY LayoutAssumption
  <1>4. QED
    BY <1>1, <1>2, <1>3, LayoutAssumption DEF CasTypeOK

(* Prune and the pin tasks only ever take names away from the blob files. *)
LEMMA UnlinkType ==
    ASSUME CasTypeOK, NEW l \in Place, NEW d \in Digest, Unlink(l, d),
           UNCHANGED <<data, mtime, clock>>
    PROVE  CasTypeOK'
  BY DEF CasTypeOK, Unlink

(* Whether a digest can be found depends on its own directory entries only. *)
LEMMA ResolvableOwnEntries ==
    ASSUME NEW d \in Digest, \A l \in Place : link'[l][d] = link[l][d]
    PROVE  Resolvable(d)' <=> Resolvable(d)
  BY DEF Resolvable, BlobPlace, Place

(* A digest can be found when any of its three paths is a file: blob_path's *)
(* order of looking decides which file is read, never whether one is.       *)
LEMMA ResolvableIff ==
    ASSUME NEW d
    PROVE  Resolvable(d) <=> \E l \in Place : HasFile(l, d)
  BY DEF Resolvable, BlobPlace, Place

LEMMA ResolvableIffNext ==
    ASSUME NEW d
    PROVE  Resolvable(d)' <=> \E l \in Place : HasFile(l, d)'
  BY DEF Resolvable, BlobPlace, Place
-----------------------------------------------------------------------------
USE DEF Removing, ReturnTo

(* A collected candidate is well typed. *)
LEMMA CollectType ==
    ASSUME CasTypeOK, EvictTypeOK, NEW p \in Pruner, NEW l \in Place,
           NEW d \in Digest, HasFile(l, d), Collect(p, l, d)
    PROVE  snap' \in [Pruner -> SUBSET Candidate] /\ total' \in [Pruner -> Nat]
  <1>1. [digest |-> d, size |-> FileSize(link[l][d]),
         mtime |-> mtime[link[l][d]]] \in Candidate
    BY FileSizeNat DEF Candidate
  <1>2. QED
    BY <1>1, FileSizeNat DEF Collect, EvictTypeOK

(* Returning from Prune resets the locals of the call to their initial values. *)
LEMMA PruneReturnType ==
    ASSUME EvictTypeOK, NEW p \in Pruner, PruneReturn(p), UNCHANGED <<pinned, upc>>
    PROVE  EvictTypeOK'
  BY DEF EvictTypeOK, PruneReturn

LEMMA PruneStepType ==
    ASSUME CasTypeOK, EvictTypeOK, NEW p \in Pruner, PruneStep(p)
    PROVE  CasTypeOK' /\ EvictTypeOK'
  <1> USE DEF casVars, scanVars
  <1>1. ASSUME NEW d \in Digest, PruneStatBlob(p, d)
        PROVE  CasTypeOK' /\ EvictTypeOK'
    <2>1. snap' \in [Pruner -> SUBSET Candidate] /\ total' \in [Pruner -> Nat]
      BY <1>1, CollectType DEF PruneStatBlob, Place
    <2>2. QED
      BY <1>1, <2>1 DEF PruneStatBlob, CasTypeOK, EvictTypeOK
  <1>2. ASSUME NEW d \in Digest, PruneStatBlobGone(p, d)
        PROVE  CasTypeOK' /\ EvictTypeOK'
    BY <1>2, PruneReturnType DEF PruneStatBlobGone, CasTypeOK
  <1>3. ASSUME NEW d \in Digest, PruneStatCas(p, d)
        PROVE  CasTypeOK' /\ EvictTypeOK'
    <2>1. snap' \in [Pruner -> SUBSET Candidate] /\ total' \in [Pruner -> Nat]
      <3>1. CASE HasFile("gguf", d) /\ \A s \in snap[p] : s.digest # d
        BY <1>3, <3>1, CollectType DEF PruneStatCas, Place
      <3>2. CASE ~(HasFile("gguf", d) /\ \A s \in snap[p] : s.digest # d)
        BY <1>3, <3>2 DEF PruneStatCas, EvictTypeOK
      <3>3. QED
        BY <3>1, <3>2
    <2>2. QED
      BY <1>3, <2>1 DEF PruneStatCas, CasTypeOK, EvictTypeOK
  <1>4. CASE PruneListCas(p)
    BY <1>4 DEF PruneListCas, CasTypeOK, EvictTypeOK
  <1>5. CASE PruneSort(p)
    BY <1>5 DEF PruneSort, CasTypeOK, EvictTypeOK
  <1>6. CASE PruneUnderBudget(p)
    BY <1>6, PruneReturnType DEF PruneUnderBudget, CasTypeOK
  <1>7. ASSUME NEW s \in snap[p], PruneSkipPinned(p, s)
        PROVE  CasTypeOK' /\ EvictTypeOK'
    BY <1>7 DEF PruneSkipPinned, CasTypeOK, EvictTypeOK
  <1>8. ASSUME NEW s \in snap[p], PrunePick(p, s)
        PROVE  CasTypeOK' /\ EvictTypeOK'
    <2>1. s \in Candidate
      BY DEF EvictTypeOK
    <2>2. QED
      BY <1>8, <2>1 DEF PrunePick, CasTypeOK, EvictTypeOK
  <1>9. CASE PruneUnlinkStd(p)
    <2>1. victim[p] \in Candidate /\ victim[p].digest \in Digest
      BY <1>9 DEF PruneUnlinkStd, EvictTypeOK, Candidate
    <2>2. CasTypeOK'
      BY <1>9, <2>1, UnlinkType DEF PruneUnlinkStd, Place
    <2>3. EvictTypeOK'
      BY <1>9, <2>1 DEF PruneUnlinkStd, EvictTypeOK
    <2>4. QED
      BY <2>2, <2>3
  <1>10. CASE PruneUnlinkFlat(p)
    <2>1. victim[p] \in Candidate /\ victim[p].digest \in Digest /\ victim[p].size \in Nat
      BY <1>10 DEF PruneUnlinkFlat, EvictTypeOK, Candidate
    <2>2. CasTypeOK'
      BY <1>10, <2>1, UnlinkType DEF PruneUnlinkFlat, Place
    <2>3. total' \in [Pruner -> Nat] /\ reclaimed' \in [Pruner -> Nat]
      BY <1>10, <2>1 DEF PruneUnlinkFlat, EvictTypeOK
    <2>4. EvictTypeOK'
      BY <1>10, <2>3 DEF PruneUnlinkFlat, EvictTypeOK
    <2>5. QED
      BY <2>2, <2>4
  <1>11. CASE PruneDone(p)
    BY <1>11, PruneReturnType DEF PruneDone, CasTypeOK
  <1>12. QED
    BY <1>1, <1>2, <1>3, <1>4, <1>5, <1>6, <1>7, <1>8, <1>9, <1>10, <1>11
       DEF PruneStep

LEMMA EvictNextType ==
    ASSUME CasTypeOK, EvictTypeOK, EvictNext
    PROVE  CasTypeOK' /\ EvictTypeOK'
  <1> USE DEF casVars, scanVars
  <1>1. ASSUME NEW p \in Pruner, NEW max \in Budgets, PruneStart(p, max)
        PROVE  CasTypeOK' /\ EvictTypeOK'
    BY <1>1, EvictionAssumption DEF PruneStart, CasTypeOK, EvictTypeOK
  <1>2. ASSUME NEW p \in Pruner, PruneStep(p)
        PROVE  CasTypeOK' /\ EvictTypeOK'
    BY <1>2, PruneStepType
  <1>3. ASSUME NEW c \in PinClient, NEW d \in Digest, Pin(c, d)
        PROVE  CasTypeOK' /\ EvictTypeOK'
    BY <1>3 DEF Pin, CasTypeOK, EvictTypeOK
  <1>4. ASSUME NEW c \in PinClient, NEW d \in Digest, UnpinFound(c, d)
        PROVE  CasTypeOK' /\ EvictTypeOK'
    BY <1>4 DEF UnpinFound, CasTypeOK, EvictTypeOK
  <1>5. ASSUME NEW c \in PinClient, UnpinRemove(c)
        PROVE  CasTypeOK' /\ EvictTypeOK'
    BY <1>5 DEF UnpinRemove, CasTypeOK, EvictTypeOK
  <1>6. CASE DaemonCrash
    BY <1>6 DEF DaemonCrash, CasTypeOK, EvictTypeOK
  <1>7. QED
    BY <1>1, <1>2, <1>3, <1>4, <1>5, <1>6 DEF EvictNext
-----------------------------------------------------------------------------
LEMMA EvictInitType == EvictInit => EvictTypeOK
  BY DEF EvictInit, EvictTypeOK

(* Type correctness of Prune, Pin and Unpin, in every reachable state: in  *)
(* particular current_total never goes below zero, and a call that is past *)
(* its is_pinned check has a victim.                                       *)
THEOREM EvictionTypeCorrect == EvictionSpec => []EvictionTypeOK
  <1>1. EvictionInit => EvictionTypeOK
    BY CasInitType, EvictInitType DEF EvictionInit, EvictionTypeOK
  <1>2. EvictionTypeOK /\ [EvictNext]_evictionVars => EvictionTypeOK'
    <2> SUFFICES ASSUME EvictionTypeOK, [EvictNext]_evictionVars
                 PROVE  EvictionTypeOK'
      OBVIOUS
    <2>1. CASE EvictNext
      BY <2>1, EvictNextType DEF EvictionTypeOK
    <2>2. CASE UNCHANGED evictionVars
      BY <2>2 DEF evictionVars, evictVars, casVars, EvictionTypeOK, CasTypeOK,
                  EvictTypeOK
    <2>3. QED
      BY <2>1, <2>2
  <1>3. QED
    BY <1>1, <1>2, PTL DEF EvictionSpec
-----------------------------------------------------------------------------
(* What SafePinHolds says about one digest. *)
PinKept(d) == d \in SafePins' /\ (Resolvable(d) => Resolvable(d)')

(* A step that removes no file and takes no Prune past its check keeps     *)
(* every pin that is not taken away.                                       *)
LEMMA QuietStepKeepsPins ==
    ASSUME NEW d \in SafePins, d \in pinned', d \in Digest, UNCHANGED casVars,
           \A p \in Pruner : Removing(p)' => Removing(p) /\ victim'[p] = victim[p]
    PROVE  PinKept(d)
  <1>1. ~PastCheck(d)'
    BY DEF SafePins, PastCheck
  <1>2. Resolvable(d)' <=> Resolvable(d)
    BY ResolvableOwnEntries DEF casVars
  <1>3. QED
    BY <1>1, <1>2 DEF PinKept, SafePins

(* A step of Prune keeps a safe pin: the check passes over pinned digests, *)
(* and the unlinks touch a digest that some call is past the check of.     *)
LEMMA PruneStepKeepsPins ==
    ASSUME CasTypeOK, EvictTypeOK, NEW p \in Pruner, PruneStep(p),
           NEW d \in SafePins, d \in pinned'
    PROVE  PinKept(d)
  <1>0. d \in Digest /\ d \in pinned /\ ~PastCheck(d)
    BY DEF SafePins, EvictTypeOK
  <1>1. ASSUME NEW e \in Digest,
               PruneStatBlob(p, e) \/ PruneStatBlobGone(p, e) \/ PruneStatCas(p, e)
        PROVE  PinKept(d)
    <2>1. UNCHANGED casVars
      BY <1>1 DEF PruneStatBlob, PruneStatBlobGone, PruneStatCas
    <2>2. \A q \in Pruner : Removing(q)' => Removing(q) /\ victim'[q] = victim[q]
      BY <1>1 DEF PruneStatBlob, PruneStatBlobGone, PruneStatCas, PruneReturn,
                  EvictTypeOK
    <2>3. QED
      BY <1>0, <2>1, <2>2, QuietStepKeepsPins
  <1>2. ASSUME \/ PruneListCas(p) \/ PruneSort(p) \/ PruneUnderBudget(p)
               \/ PruneDone(p) \/ \E s \in snap[p] : PruneSkipPinned(p, s)
        PROVE  PinKept(d)
    <2>1. UNCHANGED casVars
      BY <1>2 DEF PruneListCas, PruneSort, PruneUnderBudget, PruneDone,
                  PruneSkipPinned
    <2>2. \A q \in Pruner : Removing(q)' => Removing(q) /\ victim'[q] = victim[q]
      BY <1>2 DEF PruneListCas, PruneSort, PruneUnderBudget, PruneDone,
                  PruneSkipPinned, PruneReturn, EvictTypeOK
    <2>3. QED
      BY <1>0, <2>1, <2>2, QuietStepKeepsPins
  <1>3. ASSUME NEW s \in snap[p], PrunePick(p, s)
        PROVE  PinKept(d)
    <2>1. s.digest # d
      BY <1>0, <1>3 DEF PrunePick
    <2>2. ~PastCheck(d)'
      BY <1>0, <1>3, <2>1 DEF PrunePick, PastCheck, EvictTypeOK
    <2>3. Resolvable(d)' <=> Resolvable(d)
      BY <1>0, <1>3, ResolvableOwnEntries DEF PrunePick, casVars
    <2>4. QED
      BY <2>2, <2>3 DEF PinKept, SafePins
  <1>4. ASSUME PruneUnlinkStd(p) \/ PruneUnlinkFlat(p)
        PROVE  PinKept(d)
    <2>1. victim[p].digest \in Digest /\ victim[p].digest # d
      BY <1>0, <1>4 DEF PruneUnlinkStd, PruneUnlinkFlat, PastCheck, EvictTypeOK,
                        Candidate
    <2>2. \A l \in Place : link'[l][d] = link[l][d]
      BY <1>0, <1>4, <2>1 DEF PruneUnlinkStd, PruneUnlinkFlat, Unlink, CasTypeOK,
                              Place
    <2>3. ~PastCheck(d)'
      BY <1>0, <1>4, <2>1 DEF PruneUnlinkStd, PruneUnlinkFlat, PastCheck,
                              EvictTypeOK
    <2>4. QED
      BY <1>0, <2>2, <2>3, ResolvableOwnEntries DEF PinKept, SafePins
  <1>5. QED
    BY <1>1, <1>2, <1>3, <1>4 DEF PruneStep

LEMMA EvictNextKeepsPins ==
    ASSUME CasTypeOK, EvictTypeOK, EvictNext, NEW d \in SafePins, d \in pinned'
    PROVE  PinKept(d)
  <1>0. d \in Digest
    BY DEF SafePins, EvictTypeOK
  <1>1. ASSUME NEW p \in Pruner, PruneStep(p)
        PROVE  PinKept(d)
    BY <1>1, PruneStepKeepsPins
  <1>2. ASSUME \/ \E p \in Pruner, max \in Budgets : PruneStart(p, max)
               \/ \E c \in PinClient, e \in Digest : Pin(c, e) \/ UnpinFound(c, e)
               \/ \E c \in PinClient : UnpinRemove(c)
               \/ DaemonCrash
        PROVE  PinKept(d)
    <2>1. UNCHANGED casVars
      BY <1>2 DEF PruneStart, Pin, UnpinFound, UnpinRemove, DaemonCrash
    <2>2. \A q \in Pruner : Removing(q)' => Removing(q) /\ victim'[q] = victim[q]
      BY <1>2 DEF PruneStart, Pin, UnpinFound, UnpinRemove, DaemonCrash,
                  EvictTypeOK
    <2>3. QED
      BY <1>0, <2>1, <2>2, QuietStepKeepsPins
  <1>3. QED
    BY <1>1, <1>2 DEF EvictNext

(* Pins hold, for any number of Prune calls, pin clients and blobs: a      *)
(* digest pinned while no Prune is between its is_pinned check and its     *)
(* unlinks is not evicted until it is unpinned, across daemon crashes too. *)
THEOREM SafePinsHold == EvictionSpec => SafePinHolds
  <1>1. EvictionTypeOK /\ [EvictNext]_evictionVars =>
          [\A d \in SafePins \cap pinned' :
              /\ d \in SafePins'
              /\ Resolvable(d) => Resolvable(d)']_evictionVars
    BY EvictNextKeepsPins DEF PinKept, EvictionTypeOK
  <1>2. QED
    BY <1>1, EvictionTypeCorrect, PTL DEF EvictionSpec, SafePinHolds
-----------------------------------------------------------------------------
(* The audit.  First the bytes of a set of digests. *)
LEMMA BytesFacts ==
    ASSUME NEW D \in SUBSET Digest
    PROVE  /\ Bytes(D) \in Nat
           /\ \A E \in SUBSET D : Bytes(E) <= Bytes(D)
           /\ \A d \in D : Bytes(D) = SizeOf[d] + Bytes(D \ {d})
           /\ Bytes({}) = 0
  <1>1. IsFiniteSet(D) /\ \A d \in D : SizeOf[d] \in Nat
    BY LayoutAssumption, FS_Subset
  <1>2. QED
    BY <1>1, SumIsNat, SumMonotone, SumTakeOut, SumOfNothing DEF Bytes

(* The bytes on disk are those of the digests that can be found. *)
LEMMA StoredBytesAre ==
    ASSUME CasTypeOK, OwnFiles
    PROVE  StoredBytes = Bytes(Stored)
  <1> DEFINE f == [i \in Inode |-> FileSize(i)]
             m == [d \in Digest |-> File(d)]
  <1>1. \A d \in Digest : m[d] = <<d, "staged">> /\ m[d] \in Inode
    BY DEF File, Inode
  <1>2. \A d \in Digest : SizeOf[d] \in Nat /\ f[m[d]] = SizeOf[d]
    BY <1>1, LayoutAssumption DEF OwnFiles, FileSize, File
  <1>3. StoredInodes = {m[d] : d \in Stored}
    <2>1. ASSUME NEW l \in Place, NEW d \in Digest, link[l][d] \in Inode
          PROVE  link[l][d] = m[d] /\ d \in Stored
      <3>1. HasFile(l, d)
        BY <2>1, LayoutAssumption
      <3>2. QED
        BY <3>1, ResolvableIff DEF OwnFiles, Stored
    <2>2. ASSUME NEW d \in Stored
          PROVE  \E l \in Place : link[l][d] = m[d]
      <3>1. PICK l \in Place : HasFile(l, d)
        BY <2>2, ResolvableIff DEF Stored
      <3>2. QED
        BY <3>1, <2>2 DEF OwnFiles, Stored
    <2>3. Stored \subseteq Digest
      BY DEF Stored
    <2> HIDE DEF m
    <2>4. QED
      BY <1>1, <2>1, <2>2, <2>3 DEF StoredInodes
  <1>4. IsFiniteSet(Stored) /\ Stored \subseteq Digest
    BY LayoutAssumption, FS_Subset DEF Stored
  <1>5. \A x, y \in Stored : m[x] = m[y] => x = y
    BY <1>1, <1>4
  <1> HIDE DEF f, m
  <1>6. SumFunctionOnSet(SizeOf, Stored) = SumFunctionOnSet(f, {m[d] : d \in Stored})
    BY <1>2, <1>4, <1>5, SumRenamed
  <1>7. QED
    BY <1>3, <1>6 DEF StoredBytes, Bytes, f

(* Prune, Pin and Unpin write into no file and create no directory entry. *)
LEMMA EvictionOnlyRemoves ==
    ASSUME CasTypeOK, EvictNext
    PROVE  /\ data' = data /\ mtime' = mtime
           /\ \A l \in Place, d \in Digest : link'[l][d] \in {link[l][d], None}
  <1> USE DEF casVars, CasTypeOK
  <1>1. CASE link' = link /\ data' = data /\ mtime' = mtime
    BY <1>1
  <1>2. ASSUME NEW p \in Pruner, PruneUnlinkStd(p) \/ PruneUnlinkFlat(p)
        PROVE  /\ data' = data /\ mtime' = mtime
               /\ \A l \in Place, d \in Digest : link'[l][d] \in {link[l][d], None}
    BY <1>2 DEF PruneUnlinkStd, PruneUnlinkFlat, Unlink
  <1>3. ASSUME NEW p \in Pruner, PruneStep(p), ~PruneUnlinkStd(p), ~PruneUnlinkFlat(p)
        PROVE  link' = link /\ data' = data /\ mtime' = mtime
    BY <1>3 DEF PruneStep, PruneStatBlob, PruneStatBlobGone, PruneStatCas, PruneListCas,
       PruneSort, PruneUnderBudget, PruneSkipPinned, PrunePick, PruneDone
  <1>4. CASE \E p \in Pruner : PruneStep(p)
    BY <1>1, <1>2, <1>3, <1>4
  <1>5. CASE \/ \E p \in Pruner, max \in Budgets : PruneStart(p, max)
             \/ \E c \in PinClient, e \in Digest : Pin(c, e) \/ UnpinFound(c, e)
             \/ \E c \in PinClient : UnpinRemove(c)
             \/ DaemonCrash
    BY <1>1, <1>5 DEF PruneStart, Pin, UnpinFound, UnpinRemove, DaemonCrash
  <1>6. QED
    BY <1>4, <1>5 DEF EvictNext

LEMMA OwnFilesStep ==
    ASSUME CasTypeOK, OwnFiles, EvictNext
    PROVE  OwnFiles'
  BY EvictionOnlyRemoves DEF OwnFiles, File

(* So whatever can be found could be found before, and the disk gets no    *)
(* fuller.                                                                 *)
LEMMA StoredShrinks ==
    ASSUME CasTypeOK, EvictTypeOK, OwnFiles, EvictNext
    PROVE  /\ Stored' \subseteq Stored
           /\ StoredBytes = Bytes(Stored) /\ StoredBytes' = Bytes(Stored')
           /\ StoredBytes \in Nat /\ StoredBytes' \in Nat
           /\ StoredBytes' <= StoredBytes
  <1>1. CasTypeOK' /\ OwnFiles'
    BY EvictNextType, OwnFilesStep
  <1>2. StoredBytes = Bytes(Stored) /\ StoredBytes' = Bytes(Stored')
    <2>1. StoredBytes = Bytes(Stored)
      BY StoredBytesAre
    <2>2. (CasTypeOK /\ OwnFiles => StoredBytes = Bytes(Stored))'
      BY StoredBytesAre, PTL
    <2>3. QED
      BY <1>1, <2>1, <2>2 DEF Bytes
  <1>3. Stored' \subseteq Stored /\ Stored \subseteq Digest
    BY EvictionOnlyRemoves, ResolvableIff, ResolvableIffNext DEF Stored
  <1>4. QED
    BY <1>2, <1>3, BytesFacts
-----------------------------------------------------------------------------
(* A step of one call leaves the locals of the others alone. *)
CallStep(p) == PruneStep(p) \/ \E max \in Budgets : PruneStart(p, max)

SameCall(q) ==
    /\ ppc'[q] = ppc[q] /\ budget'[q] = budget[q] /\ listing'[q] = listing[q]
    /\ snap'[q] = snap[q] /\ total'[q] = total[q] /\ reclaimed'[q] = reclaimed[q]
    /\ victim'[q] = victim[q] /\ hit'[q] = hit[q]

SameDisk == link' = link /\ data' = data /\ mtime' = mtime

LEMMA EvictSteps ==
    ASSUME EvictNext
    PROVE  \/ \E p \in Pruner : CallStep(p)
           \/ SameDisk /\ \A q \in Pruner : SameCall(q)
           \/ DaemonCrash
  BY DEF EvictNext, CallStep, Pin, UnpinFound, UnpinRemove, SameDisk, SameCall, casVars, scanVars

LEMMA CallsApart ==
    ASSUME EvictTypeOK, NEW p \in Pruner, CallStep(p), NEW q \in Pruner, q # p
    PROVE  SameCall(q)
  <1> USE DEF EvictTypeOK, SameCall, scanVars, PruneReturn, Collect
  <1>1. CASE \E max \in Budgets : PruneStart(p, max)
    BY <1>1 DEF PruneStart
  <1>2. CASE \E d \in Digest : PruneStatBlob(p, d) \/ PruneStatBlobGone(p, d)
    BY <1>2 DEF PruneStatBlob, PruneStatBlobGone
  <1>3. CASE \E d \in Digest : PruneStatCas(p, d)
    BY <1>3 DEF PruneStatCas
  <1>4. CASE PruneListCas(p) \/ PruneSort(p) \/ PruneUnderBudget(p) \/ PruneDone(p)
    BY <1>4 DEF PruneListCas, PruneSort, PruneUnderBudget, PruneDone
  <1>5. CASE \E s \in snap[p] : PruneSkipPinned(p, s) \/ PrunePick(p, s)
    BY <1>5 DEF PruneSkipPinned, PrunePick
  <1>6. CASE PruneUnlinkStd(p) \/ PruneUnlinkFlat(p)
    BY <1>6 DEF PruneUnlinkStd, PruneUnlinkFlat
  <1>7. QED
    BY <1>1, <1>2, <1>3, <1>4, <1>5, <1>6 DEF CallStep, PruneStep

(* What each step does to the call that takes it. *)
Starts(p) ==
    /\ ppc[p] = "idle" /\ ppc'[p] = "stat_blobs"
    /\ listing'[p] = {d \in Digest : HasFile("blobs", d)}
    /\ snap'[p] = snap[p] /\ total'[p] = total[p] /\ reclaimed'[p] = reclaimed[p]
    /\ SameDisk

Collects(p, d) ==
    \E s \in Candidate :
        /\ s.digest = d /\ Faithful(s) /\ d \in Stored
        /\ snap'[p] = snap[p] \cup {s}
        /\ total'[p] = total[p] + SizeOf[d]

Stats(p, d) ==
    /\ Scanning(p) /\ ppc'[p] = ppc[p]
    /\ d \in listing[p] /\ listing'[p] = listing[p] \ {d}
    /\ \/ Collects(p, d) /\ (ppc[p] = "stat_cas" => d \notin Seen(p))
       \/ /\ snap'[p] = snap[p] /\ total'[p] = total[p]
          /\ ppc[p] = "stat_cas" /\ (~HasFile("gguf", d) \/ d \in Seen(p))
    /\ reclaimed'[p] = reclaimed[p] /\ SameDisk

Lists(p) ==
    /\ ppc[p] = "stat_blobs" /\ ppc'[p] = "stat_cas"
    /\ listing[p] = {} /\ listing'[p] = {d \in Digest : HasFile("gguf", d)}
    /\ snap'[p] = snap[p] /\ total'[p] = total[p] /\ reclaimed'[p] = reclaimed[p]
    /\ SameDisk

Sorts(p) ==
    /\ ppc[p] = "stat_cas" /\ ppc'[p] = "next" /\ listing[p] = {}
    /\ snap'[p] = snap[p] /\ total'[p] = total[p] /\ reclaimed'[p] = reclaimed[p]
    /\ SameDisk

Skips(p, s) ==
    /\ ppc[p] = "next" /\ ppc'[p] = "next"
    /\ s \in snap[p] /\ snap'[p] = snap[p] \ {s}
    /\ total'[p] = total[p] /\ reclaimed'[p] = reclaimed[p] /\ SameDisk

Picks(p, s) ==
    /\ ppc[p] = "next" /\ ppc'[p] = "unlink_std"
    /\ s \in snap[p] /\ snap'[p] = snap[p] \ {s} /\ victim'[p] = s
    /\ \A t \in snap[p] : s.mtime <= t.mtime
    /\ total[p] > budget[p] /\ budget'[p] = budget[p]
    /\ total'[p] = total[p] /\ reclaimed'[p] = reclaimed[p] /\ SameDisk

UnlinksStd(p) ==
    /\ ppc[p] = "unlink_std" /\ ppc'[p] = "unlink_flat"
    /\ hit'[p] = HasFile("blobs", victim[p].digest)
    /\ \A l \in Place, d \in Digest :
          link'[l][d] = IF l = "blobs" /\ d = victim[p].digest THEN None ELSE link[l][d]
    /\ snap'[p] = snap[p] /\ victim'[p] = victim[p] /\ budget'[p] = budget[p]
    /\ total'[p] = total[p] /\ reclaimed'[p] = reclaimed[p]

UnlinksFlat(p) ==
    /\ ppc[p] = "unlink_flat" /\ ppc'[p] = "next"
    /\ \A l \in Place, d \in Digest :
          link'[l][d] = IF l = "gguf" /\ d = victim[p].digest THEN None ELSE link[l][d]
    /\ IF hit[p] \/ HasFile("gguf", victim[p].digest)
       THEN /\ total'[p] = IF total[p] > victim[p].size THEN total[p] - victim[p].size ELSE 0
            /\ reclaimed'[p] = reclaimed[p] + victim[p].size
       ELSE total'[p] = total[p] /\ reclaimed'[p] = reclaimed[p]
    /\ snap'[p] = snap[p]

Returns(p) ==
    /\ ppc[p] # "idle" /\ ppc'[p] = "idle" /\ snap'[p] = {} /\ total'[p] = 0
    /\ reclaimed'[p] = 0 /\ SameDisk

LEMMA CollectEffect ==
    ASSUME CasTypeOK, EvictTypeOK, OwnFiles, NEW p \in Pruner, NEW l \in Place,
           NEW d \in Digest, HasFile(l, d), Collect(p, l, d)
    PROVE  Collects(p, d)
  <1> DEFINE s == [digest |-> d, size |-> FileSize(link[l][d]), mtime |-> mtime[link[l][d]]]
  <1>1. link[l][d] = File(d) /\ data[File(d)] = d
    BY DEF OwnFiles
  <1>2. FileSize(link[l][d]) = SizeOf[d] /\ SizeOf[d] \in Nat
    BY <1>1, LayoutAssumption DEF FileSize
  <1>3. mtime[File(d)] \in Nat
    BY DEF CasTypeOK, File, Inode
  <1>4. s \in Candidate /\ s.digest = d /\ Faithful(s)
    BY <1>1, <1>2, <1>3 DEF Candidate, Faithful
  <1>5. d \in Stored
    BY ResolvableIff DEF Stored
  <1>6. snap'[p] = snap[p] \cup {s} /\ total'[p] = total[p] + SizeOf[d]
    BY <1>2 DEF Collect, EvictTypeOK
  <1> HIDE DEF s
  <1>7. QED
    BY <1>4, <1>5, <1>6 DEF Collects

LEMMA StatEffect ==
    ASSUME CasTypeOK, EvictTypeOK, OwnFiles, NEW p \in Pruner, NEW d \in Digest,
           PruneStatBlob(p, d) \/ PruneStatCas(p, d)
    PROVE  Stats(p, d)
  <1> USE DEF casVars, SameDisk, Scanning
  <1>1. CASE PruneStatBlob(p, d)
    <2>1. Collects(p, d)
      BY <1>1, CollectEffect DEF PruneStatBlob, Place
    <2>2. QED
      BY <1>1, <2>1 DEF PruneStatBlob, EvictTypeOK, Stats
  <1>2. CASE PruneStatCas(p, d)
    <2>1. CASE HasFile("gguf", d) /\ \A s \in snap[p] : s.digest # d
      <3>1. Collects(p, d)
        BY <1>2, <2>1, CollectEffect DEF PruneStatCas, Place
      <3>2. d \notin Seen(p)
        BY <2>1 DEF Seen
      <3>3. QED
        BY <1>2, <3>1, <3>2 DEF PruneStatCas, EvictTypeOK, Stats
    <2>2. CASE ~(HasFile("gguf", d) /\ \A s \in snap[p] : s.digest # d)
      <3>1. ~HasFile("gguf", d) \/ d \in Seen(p)
        BY <2>2 DEF Seen
      <3>2. QED
        BY <1>2, <2>2, <3>1 DEF PruneStatCas, EvictTypeOK, Stats
    <2>3. QED
      BY <2>1, <2>2
  <1>3. QED
    BY <1>1, <1>2

LEMMA UnlinkEffect ==
    ASSUME CasTypeOK, EvictTypeOK, NEW p \in Pruner
    PROVE  /\ PruneUnlinkStd(p) => UnlinksStd(p)
           /\ PruneUnlinkFlat(p) => UnlinksFlat(p)
  <1> USE DEF EvictTypeOK, CasTypeOK, Place, Unlink
  <1>1. PruneUnlinkStd(p) => UnlinksStd(p)
    BY DEF PruneUnlinkStd, UnlinksStd, scanVars
  <1>2. PruneUnlinkFlat(p) => UnlinksFlat(p)
    BY DEF PruneUnlinkFlat, UnlinksFlat
  <1>3. QED
    BY <1>1, <1>2

LEMMA CallEffect ==
    ASSUME CasTypeOK, EvictTypeOK, OwnFiles, NEW p \in Pruner, CallStep(p)
    PROVE  \/ Starts(p) \/ Lists(p) \/ Sorts(p) \/ UnlinksStd(p) \/ UnlinksFlat(p)
           \/ Returns(p)
           \/ \E d \in Digest : Stats(p, d)
           \/ \E s \in snap[p] : Skips(p, s) \/ Picks(p, s)
  <1> USE DEF casVars, scanVars, SameDisk, EvictTypeOK
  <1>1. CASE \E max \in Budgets : PruneStart(p, max)
    BY <1>1 DEF PruneStart, Starts
  <1>2. CASE \E d \in Digest : PruneStatBlob(p, d) \/ PruneStatCas(p, d)
    BY <1>2, StatEffect
  <1>3. CASE \/ \E d \in Digest : PruneStatBlobGone(p, d)
             \/ PruneUnderBudget(p) \/ PruneDone(p)
    BY <1>3 DEF PruneStatBlobGone, PruneUnderBudget, PruneDone, PruneReturn, Returns
  <1>4. CASE PruneListCas(p)
    BY <1>4 DEF PruneListCas, Lists
  <1>5. CASE PruneSort(p)
    BY <1>5 DEF PruneSort, Sorts
  <1>6. ASSUME NEW s \in snap[p], PruneSkipPinned(p, s)
        PROVE  Skips(p, s)
    BY <1>6 DEF PruneSkipPinned, Skips
  <1>7. ASSUME NEW s \in snap[p], PrunePick(p, s)
        PROVE  Picks(p, s)
    BY <1>7 DEF PrunePick, Picks, Oldest
  <1>8. QED
    BY <1>1, <1>2, <1>3, <1>4, <1>5, <1>6, <1>7, UnlinkEffect DEF CallStep, PruneStep

-----------------------------------------------------------------------------
(* The invariant of a call that another task's step leaves alone. *)
LEMMA QuietCall ==
    ASSUME CasTypeOK, EvictTypeOK, OwnFiles, EvictNext, NEW q \in Pruner, SameCall(q)
    PROVE  /\ FaithfulScan(q) => FaithfulScan(q)'
           /\ ScanTotal(q) => ScanTotal(q)'
  <1>1. mtime' = mtime /\ \A d \in Digest : HasFile("blobs", d)' => HasFile("blobs", d)
    BY EvictionOnlyRemoves DEF Place
  <1>2. ppc[q] = "unlink_flat" => victim[q].digest \in Digest
    BY DEF EvictTypeOK, Candidate
  <1>3. FaithfulScan(q) => FaithfulScan(q)'
    BY <1>1, <1>2 DEF FaithfulScan, Faithful, SameCall
  <1>4. ScanTotal(q) => ScanTotal(q)'
    BY DEF ScanTotal, SameCall, Scanning, Seen
  <1>5. QED
    BY <1>3, <1>4

LEMMA CrashedCall ==
    ASSUME DaemonCrash, NEW q \in Pruner
    PROVE  /\ ppc'[q] = "idle" /\ snap'[q] = {} /\ total'[q] = 0 /\ reclaimed'[q] = 0
           /\ SameDisk
  BY DEF DaemonCrash, casVars, SameDisk

LEMMA FaithfulStep ==
    ASSUME CasTypeOK, EvictTypeOK, OwnFiles, NEW p \in Pruner, CallStep(p), EvictNext,
           FaithfulScan(p)
    PROVE  FaithfulScan(p)'
  <1> USE DEF FaithfulScan, Faithful
  <1>1. mtime' = mtime
    BY EvictionOnlyRemoves
  <1>2. CASE Starts(p) \/ Lists(p) \/ Sorts(p) \/ Returns(p)
    BY <1>1, <1>2 DEF Starts, Lists, Sorts, Returns
  <1>3. CASE \E d \in Digest : Stats(p, d)
    BY <1>1, <1>3 DEF Stats, Collects, Scanning
  <1>4. CASE \E s \in snap[p] : Skips(p, s) \/ Picks(p, s)
    BY <1>1, <1>4 DEF Skips, Picks
  <1>5. CASE UnlinksStd(p)
    <2>1. victim[p].digest \in Digest
      BY <1>5 DEF EvictTypeOK, Candidate, UnlinksStd
    <2>2. QED
      BY <1>1, <1>5, <2>1 DEF UnlinksStd, Place
  <1>6. CASE UnlinksFlat(p)
    BY <1>1, <1>6 DEF UnlinksFlat
  <1>7. QED
    BY <1>2, <1>3, <1>4, <1>5, <1>6, CallEffect

LEMMA SeenType ==
    ASSUME EvictTypeOK, NEW p \in Pruner
    PROVE  Seen(p) \subseteq Digest
  BY DEF EvictTypeOK, Seen, Candidate

LEMMA ScanTotalStep ==
    ASSUME CasTypeOK, EvictTypeOK, OwnFiles, NEW p \in Pruner, CallStep(p), ScanTotal(p)
    PROVE  ScanTotal(p)'
  <1> USE DEF ScanTotal, Scanning
  <1>1. Seen(p) \subseteq Digest
    BY SeenType
  <1>2. CASE Starts(p)
    <2>1. Seen(p)' = {} /\ Bytes({}) = 0
      BY <1>2, BytesFacts DEF Starts, Seen
    <2>2. QED
      BY <1>2, <2>1 DEF Starts
  <1>3. CASE Lists(p) \/ Sorts(p) \/ UnlinksStd(p) \/ UnlinksFlat(p) \/ Returns(p)
    BY <1>3 DEF Lists, Sorts, UnlinksStd, UnlinksFlat, Returns, Seen
  <1>4. CASE \E s \in snap[p] : Skips(p, s) \/ Picks(p, s)
    BY <1>4 DEF Skips, Picks
  <1>5. ASSUME NEW d \in Digest, Stats(p, d)
        PROVE  ScanTotal(p)'
    <2>1. CASE Collects(p, d) /\ (ppc[p] = "stat_cas" => d \notin Seen(p))
      <3>1. Seen(p)' = Seen(p) \cup {d}
        BY <2>1 DEF Collects, Seen
      <3>2. d \notin Seen(p)
        BY <1>5, <2>1 DEF Stats
      <3>3. Bytes(Seen(p) \cup {d}) = SizeOf[d] + Bytes(Seen(p))
        <4>1. (Seen(p) \cup {d}) \ {d} = Seen(p)
          BY <3>2
        <4>2. QED
          BY <1>1, <4>1, BytesFacts
      <3>4. total'[p] = Bytes(Seen(p) \cup {d})
        <4>1. total[p] = Bytes(Seen(p)) /\ Bytes(Seen(p)) \in Nat /\ SizeOf[d] \in Nat
          BY <1>1, <1>5, BytesFacts, LayoutAssumption DEF Stats
        <4>2. QED
          BY <2>1, <3>3, <4>1 DEF Collects
      <3>5. QED
        BY <1>5, <3>1, <3>2, <3>4 DEF Stats
    <2>2. CASE snap'[p] = snap[p] /\ total'[p] = total[p] /\ ppc[p] = "stat_cas"
      BY <1>5, <2>2 DEF Stats, Seen
    <2>3. QED
      BY <1>5, <2>1, <2>2 DEF Stats
  <1>6. QED
    BY <1>2, <1>3, <1>4, <1>5, CallEffect

(* What is stored depends on the directory entries only. *)
LEMMA SameStored ==
    ASSUME SameDisk
    PROVE  Stored' = Stored /\ StoredBytes' = StoredBytes
  <1>1. \A d \in Digest : Resolvable(d)' <=> Resolvable(d)
    BY ResolvableOwnEntries DEF SameDisk
  <1>2. Stored' = Stored
    BY <1>1 DEF Stored
  <1>3. StoredBytes' = StoredBytes
    BY DEF SameDisk, StoredBytes, StoredInodes, FileSize
  <1>4. QED
    BY <1>2, <1>3

(* An unlink takes at most the victim out of what is stored. *)
LEMMA UnlinkStored ==
    ASSUME CasTypeOK, EvictTypeOK, OwnFiles, EvictNext, NEW p \in Pruner,
           UnlinksStd(p) \/ UnlinksFlat(p)
    PROVE  /\ victim[p].digest \in Digest
           /\ \/ Stored' = Stored /\ StoredBytes' = StoredBytes
              \/ /\ victim[p].digest \in Stored
                 /\ Stored' = Stored \ {victim[p].digest}
                 /\ StoredBytes = StoredBytes' + SizeOf[victim[p].digest]
  <1> DEFINE v == victim[p].digest
  <1>1. v \in Digest
    BY DEF UnlinksStd, UnlinksFlat, EvictTypeOK, Candidate
  <1>2. \A d \in Digest \ {v} : d \in Stored' <=> d \in Stored
    BY ResolvableIff, ResolvableIffNext DEF UnlinksStd, UnlinksFlat, Stored
  <1>3. Stored \subseteq Digest /\ Stored' \subseteq Stored
    BY StoredShrinks DEF Stored
  <1>4. StoredBytes = Bytes(Stored) /\ StoredBytes' = Bytes(Stored')
    BY StoredShrinks
  <1> HIDE DEF v
  <1>5. CASE Stored' = Stored
    BY <1>1, <1>4, <1>5 DEF v
  <1>6. CASE Stored' # Stored
    <2>1. v \in Stored /\ Stored' = Stored \ {v}
      BY <1>2, <1>3, <1>6
    <2>2. Bytes(Stored) = SizeOf[v] + Bytes(Stored \ {v})
      BY <1>3, <2>1, BytesFacts
    <2>3. Bytes(Stored \ {v}) \in Nat /\ SizeOf[v] \in Nat
      BY <1>1, <1>3, BytesFacts, LayoutAssumption
    <2>4. QED
      BY <1>1, <1>4, <2>1, <2>2, <2>3 DEF v
  <1>7. QED
    BY <1>5, <1>6

LEMMA AloneStep ==
    ASSUME CasTypeOK, EvictTypeOK, OwnFiles, NEW p \in Pruner, CallStep(p), EvictNext,
           FaithfulScan(p), ScanTotal(p), AloneCountsDisk(p), p \notin beside
    PROVE  AloneCountsDisk(p)'
  <1> USE DEF AloneCountsDisk, Scanning
  <1>1. /\ Stored' \subseteq Stored /\ StoredBytes = Bytes(Stored)
        /\ StoredBytes \in Nat /\ StoredBytes' \in Nat /\ StoredBytes' <= StoredBytes
    BY StoredShrinks
  <1>2. Stored \subseteq Digest /\ total[p] \in Nat
    BY DEF Stored, EvictTypeOK
  <1>3. CASE Starts(p)
    <2>1. Seen(p)' = {}
      BY <1>3 DEF Starts, ScanTotal, Seen
    <2>2. QED
      BY <1>3, <2>1 DEF Starts
  <1>4. CASE \E d \in Digest : Stats(p, d)
    <2>1. Seen(p)' \subseteq Stored
      BY <1>4 DEF Stats, Collects, Seen
    <2>2. Stored' = Stored
      BY <1>4, SameStored DEF Stats
    <2>3. QED
      BY <1>4, <2>1, <2>2 DEF Stats
  <1>5. CASE Lists(p)
    BY <1>5, SameStored DEF Lists, Seen
  <1>6. CASE Sorts(p)
    <2>1. total[p] = Bytes(Seen(p)) /\ Seen(p) \subseteq Stored
      BY <1>6 DEF Sorts, ScanTotal
    <2>2. total[p] <= StoredBytes
      BY <1>1, <1>2, <2>1, BytesFacts
    <2>3. StoredBytes' = StoredBytes /\ Unbooked(p)' = 0
      BY <1>6, SameStored DEF Sorts, Unbooked
    <2>4. QED
      BY <1>1, <1>6, <2>2, <2>3 DEF Sorts
  <1>7. CASE \E s \in snap[p] : Skips(p, s) \/ Picks(p, s)
    <2>1. StoredBytes' = StoredBytes /\ Unbooked(p) = 0 /\ Unbooked(p)' = 0
      BY <1>7, SameStored DEF Skips, Picks, Unbooked
    <2>2. QED
      BY <1>7, <2>1 DEF Skips, Picks
  <1>8. CASE UnlinksStd(p)
    <2>1. total[p] <= StoredBytes
      BY <1>1, <1>8 DEF UnlinksStd, Unbooked
    <2>2. victim[p].size = SizeOf[victim[p].digest] /\ SizeOf[victim[p].digest] \in Nat
      BY <1>8, UnlinkStored, LayoutAssumption DEF UnlinksStd, FaithfulScan, Faithful
    <2>3. Unbooked(p)' \in Nat
      BY <1>8, <2>2 DEF UnlinksStd, Unbooked
    <2>4. total[p] <= StoredBytes' + Unbooked(p)'
      <3>1. CASE StoredBytes' = StoredBytes
        BY <1>1, <1>2, <2>1, <2>3, <3>1
      <3>2. CASE /\ victim[p].digest \in Stored
                 /\ Stored' = Stored \ {victim[p].digest}
                 /\ StoredBytes = StoredBytes' + SizeOf[victim[p].digest]
        <4>1. HasFile("blobs", victim[p].digest)
          <5>1. victim[p].digest \in Digest
            BY <1>2, <3>2
          <5>2. PICK l \in Place : HasFile(l, victim[p].digest)
            BY <3>2, ResolvableIff DEF Stored
          <5>3. link'[l][victim[p].digest] = None
            BY <3>2, <5>1, ResolvableIffNext DEF Stored
          <5>4. l = "blobs"
            BY <1>8, <5>1, <5>2, <5>3 DEF UnlinksStd
          <5>5. QED
            BY <5>2, <5>4
        <4>2. Unbooked(p)' = victim[p].size
          BY <1>8, <3>2, <4>1 DEF UnlinksStd, Unbooked
        <4>3. QED
          BY <1>1, <1>2, <2>1, <2>2, <3>2, <4>2
      <3>3. QED
        BY <1>8, <3>1, <3>2, UnlinkStored
    <2>5. QED
      BY <1>8, <2>4 DEF UnlinksStd
  <1>9. CASE UnlinksFlat(p)
    <2>1. total[p] <= StoredBytes + Unbooked(p)
      BY <1>9 DEF UnlinksFlat
    <2>2. victim[p].size = SizeOf[victim[p].digest] /\ SizeOf[victim[p].digest] \in Nat
      BY <1>9, UnlinkStored, LayoutAssumption DEF UnlinksFlat, FaithfulScan, Faithful
    <2>3. Unbooked(p)' = 0
      BY <1>9 DEF UnlinksFlat, Unbooked
    <2>4. total'[p] <= total[p] /\ total'[p] \in Nat
      BY <1>2, <1>9, <2>2 DEF UnlinksFlat
    <2>5. total'[p] <= StoredBytes'
      <3>1. CASE victim[p].digest \in Stored /\ StoredBytes' = StoredBytes
        BY <1>1, <1>2, <2>1, <2>4, <3>1 DEF Unbooked
      <3>2. CASE /\ victim[p].digest \in Stored
                 /\ Stored' = Stored \ {victim[p].digest}
                 /\ StoredBytes = StoredBytes' + SizeOf[victim[p].digest]
        <4>1. HasFile("gguf", victim[p].digest)
          <5>1. victim[p].digest \in Digest
            BY <1>2, <3>2
          <5>2. PICK l \in Place : HasFile(l, victim[p].digest)
            BY <3>2, ResolvableIff DEF Stored
          <5>3. link'[l][victim[p].digest] = None
            BY <3>2, <5>1, ResolvableIffNext DEF Stored
          <5>4. l = "gguf"
            BY <1>9, <5>1, <5>2, <5>3 DEF UnlinksFlat
          <5>5. QED
            BY <5>2, <5>4
        <4>2. Unbooked(p) = 0
          BY <3>2 DEF Unbooked
        <4>3. QED
          BY <1>1, <1>2, <1>9, <2>1, <2>2, <3>2, <4>1, <4>2 DEF UnlinksFlat
      <3>3. CASE victim[p].digest \notin Stored /\ StoredBytes' = StoredBytes
        <4>1. CASE hit[p]
          BY <1>1, <1>2, <1>9, <2>1, <2>2, <3>3, <4>1 DEF UnlinksFlat, Unbooked
        <4>2. CASE ~hit[p]
          BY <1>1, <1>2, <2>1, <2>4, <3>3, <4>2 DEF Unbooked
        <4>3. QED
          BY <4>1, <4>2
      <3>4. QED
        BY <1>9, <3>1, <3>2, <3>3, UnlinkStored
    <2>6. QED
      BY <1>1, <1>9, <2>3, <2>5 DEF UnlinksFlat
  <1>10. CASE Returns(p)
    BY <1>10 DEF Returns
  <1>11. QED
    BY <1>3, <1>4, <1>5, <1>6, <1>7, <1>8, <1>9, <1>10, CallEffect

-----------------------------------------------------------------------------
(* The books of the auditor. *)
LEMMA ClaimsType ==
    ASSUME EvictTypeOK, EvictTypeOK', NEW q \in Pruner
    PROVE  Claims(q) \in Nat
  BY DEF EvictTypeOK, Claims

LEMMA ClaimedBy ==
    ASSUME AuditTypeOK, EvictTypeOK', AuditNext
    PROVE  /\ claimed' \in Nat
           /\ (\A q \in Pruner : Claims(q) = 0) => claimed' = claimed
           /\ \A p \in Pruner : (\A q \in Pruner \ {p} : Claims(q) = 0)
                                => claimed' = claimed + Claims(p)
  <1> DEFINE f == [q \in Pruner |-> Claims(q)]
  <1>1. IsFiniteSet(Pruner) /\ \A q \in Pruner : f[q] \in Nat
    BY EvictionAssumption, ClaimsType DEF AuditTypeOK, EvictionTypeOK
  <1>2. claimed' = claimed + SumFunctionOnSet(f, Pruner) /\ claimed \in Nat
    BY DEF AuditNext, AuditTypeOK, SumFunction
  <1> HIDE DEF f
  <1>3. claimed' \in Nat
    BY <1>1, <1>2, SumIsNat
  <1>4. (\A q \in Pruner : f[q] = 0) => claimed' = claimed
    BY <1>1, <1>2, SumOfZeros
  <1>5. \A p \in Pruner : (\A q \in Pruner : q # p => f[q] = 0) => claimed' = claimed + f[p]
    BY <1>1, <1>2, SumOfOne
  <1>6. \A q \in Pruner : f[q] = Claims(q)
    BY DEF f
  <1>7. QED
    BY <1>3, <1>4, <1>5, <1>6

(* What a step by call p adds to the claims. *)
LEMMA StepClaims ==
    ASSUME AuditTypeOK, OwnFiles, AuditNext
    PROVE  \/ claimed' = claimed
           \/ \E p \in Pruner :
                 /\ CallStep(p) /\ UnlinksFlat(p) /\ p \notin beside'
                 /\ hit[p] \/ HasFile("gguf", victim[p].digest)
                 /\ claimed' = claimed + victim[p].size
  <1>1. EvictTypeOK /\ CasTypeOK /\ EvictNext
    BY DEF AuditTypeOK, EvictionTypeOK, AuditNext
  <1>2. EvictTypeOK'
    BY <1>1, EvictNextType
  <1>3. \A q \in Pruner : SameCall(q) => Claims(q) = 0
    BY <1>1 DEF SameCall, Claims, EvictTypeOK
  <1>4. CASE SameDisk /\ \A q \in Pruner : SameCall(q)
    BY <1>2, <1>3, <1>4, ClaimedBy
  <1>5. CASE DaemonCrash
    <2>1. \A q \in Pruner : Claims(q) = 0
      BY <1>1, <1>5, CrashedCall DEF Claims, EvictTypeOK
    <2>2. QED
      BY <1>2, <2>1, ClaimedBy
  <1>6. ASSUME NEW p \in Pruner, CallStep(p)
        PROVE  \/ claimed' = claimed
               \/ /\ UnlinksFlat(p) /\ p \notin beside'
                  /\ hit[p] \/ HasFile("gguf", victim[p].digest)
                  /\ claimed' = claimed + victim[p].size
    <2>1. \A q \in Pruner \ {p} : Claims(q) = 0
      BY <1>1, <1>3, <1>6, CallsApart
    <2>2. claimed' = claimed + Claims(p) /\ claimed \in Nat
      BY <1>2, <2>1, ClaimedBy DEF AuditTypeOK
    <2>3. reclaimed[p] \in Nat /\ reclaimed'[p] \in Nat
      BY <1>1, <1>2 DEF EvictTypeOK
    <2>4. CASE reclaimed'[p] = reclaimed[p] \/ reclaimed'[p] = 0
      <3>1. Claims(p) = 0
        BY <2>3, <2>4 DEF Claims
      <3>2. QED
        BY <2>2, <3>1
    <2>5. CASE UnlinksFlat(p)
      <3>1. victim[p].size \in Nat
        BY <1>1, <2>5 DEF EvictTypeOK, Candidate, UnlinksFlat
      <3>2. CASE ~(hit[p] \/ HasFile("gguf", victim[p].digest))
        BY <2>4, <2>5, <3>2 DEF UnlinksFlat
      <3>3. CASE hit[p] \/ HasFile("gguf", victim[p].digest)
        <4>1. reclaimed'[p] = reclaimed[p] + victim[p].size
          BY <2>5, <3>3 DEF UnlinksFlat
        <4>2. CASE Beside(p)
          <5>1. Claims(p) = 0
            BY <4>2 DEF Claims
          <5>2. QED
            BY <2>2, <5>1
        <4>3. CASE ~Beside(p)
          <5>1. Claims(p) = victim[p].size
            BY <2>3, <3>1, <4>1, <4>3 DEF Claims
          <5>2. p \notin beside'
            BY <4>3 DEF AuditNext
          <5>3. QED
            BY <2>2, <2>5, <3>3, <5>1, <5>2
        <4>4. QED
          BY <4>2, <4>3
      <3>4. QED
        BY <3>2, <3>3
    <2>6. QED
      BY <1>1, <1>6, <2>4, <2>5, CallEffect
         DEF Starts, Lists, Sorts, UnlinksStd, Returns, Stats, Skips, Picks
  <1>7. QED
    BY <1>1, <1>4, <1>5, <1>6, EvictSteps

(* A call that runs on and is not beside another is the only one, and was. *)
LEMMA AloneBefore ==
    ASSUME AuditNext, NEW q \in Pruner, q \notin beside', ppc'[q] # "idle"
    PROVE  q \notin beside /\ \A r \in Pruner \ {q} : ppc'[r] = "idle"
  BY DEF AuditNext, Beside

(* The only step another can then have taken is its last one. *)
LEMMA AloneOthers ==
    ASSUME CasTypeOK, EvictTypeOK, OwnFiles, AuditNext, NEW q \in Pruner,
           q \notin beside', ppc'[q] # "idle",
           NEW p \in Pruner, p # q, CallStep(p)
    PROVE  SameDisk /\ SameCall(q)
  <1>1. ppc'[p] = "idle"
    BY AloneBefore
  <1>2. Returns(p)
    BY <1>1, CallEffect DEF Starts, Lists, Sorts, UnlinksStd, UnlinksFlat, Stats, Scanning,
       Skips, Picks
  <1>3. QED
    BY <1>2, CallsApart DEF Returns

LEMMA QuietAlone ==
    ASSUME NEW q \in Pruner, q \notin beside, AloneCountsDisk(q), SameDisk, SameCall(q)
    PROVE  AloneCountsDisk(q)' /\ Unbooked(q)' = Unbooked(q)
  <1>1. Stored' = Stored /\ StoredBytes' = StoredBytes
    BY SameStored
  <1>2. Unbooked(q)' = Unbooked(q)
    BY <1>1 DEF Unbooked, SameCall
  <1>3. QED
    BY <1>1, <1>2 DEF AloneCountsDisk, SameCall, Scanning, Seen

LEMMA CallInvStep ==
    ASSUME AuditInv, AuditNext, NEW q \in Pruner
    PROVE  CallInv(q)'
  <1> USE DEF CallInv
  <1>1. CasTypeOK /\ EvictTypeOK /\ OwnFiles /\ EvictNext /\ CallInv(q)
    BY DEF AuditInv, AuditTypeOK, EvictionTypeOK, AuditNext
  <1>2. CASE CallStep(q)
    <2>1. FaithfulScan(q)' /\ ScanTotal(q)'
      BY <1>1, <1>2, FaithfulStep, ScanTotalStep
    <2>2. CASE q \in beside' \/ ppc'[q] = "idle"
      BY <2>1, <2>2 DEF AloneCountsDisk, Scanning
    <2>3. CASE q \notin beside' /\ ppc'[q] # "idle"
      <3>1. q \notin beside
        BY <2>3, AloneBefore
      <3>2. AloneCountsDisk(q)'
        BY <1>1, <1>2, <3>1, AloneStep
      <3>3. QED
        BY <2>1, <3>2
    <2>4. QED
      BY <2>2, <2>3
  <1>3. ASSUME NEW p \in Pruner, p # q, CallStep(p)
        PROVE  CallInv(q)'
    <2>1. FaithfulScan(q)' /\ ScanTotal(q)'
      BY <1>1, <1>3, CallsApart, QuietCall
    <2>2. CASE q \in beside' \/ ppc'[q] = "idle"
      BY <2>1, <2>2 DEF AloneCountsDisk, Scanning
    <2>3. CASE q \notin beside' /\ ppc'[q] # "idle"
      BY <1>1, <1>3, <2>1, <2>3, AloneBefore, AloneOthers, QuietAlone
    <2>4. QED
      BY <2>2, <2>3
  <1>4. CASE SameDisk /\ SameCall(q)
    <2>1. FaithfulScan(q)' /\ ScanTotal(q)'
      BY <1>1, <1>4, QuietCall
    <2>2. CASE q \in beside' \/ ppc'[q] = "idle"
      BY <2>1, <2>2 DEF AloneCountsDisk, Scanning
    <2>3. CASE q \notin beside' /\ ppc'[q] # "idle"
      BY <1>1, <1>4, <2>1, <2>3, AloneBefore, QuietAlone
    <2>4. QED
      BY <2>2, <2>3
  <1>5. CASE DaemonCrash
    BY <1>5, CrashedCall DEF FaithfulScan, ScanTotal, AloneCountsDisk, Scanning
  <1>6. QED
    BY <1>1, <1>2, <1>3, <1>4, <1>5, EvictSteps

LEMMA AuditTypeStep ==
    ASSUME AuditTypeOK, OwnFiles, AuditNext
    PROVE  AuditTypeOK'
  <1>1. CasTypeOK /\ EvictTypeOK /\ EvictNext
    BY DEF AuditTypeOK, EvictionTypeOK, AuditNext
  <1>2. CasTypeOK' /\ EvictTypeOK'
    BY <1>1, EvictNextType
  <1>3. kept' \in [Pruner -> SUBSET Digest]
    <2>1. ASSUME NEW q \in Pruner
          PROVE  Kept(q) \subseteq Digest
      <3>1. {s.digest : s \in snap[q] \ snap'[q]} \subseteq Digest
        BY <1>1 DEF EvictTypeOK, Candidate
      <3>2. kept[q] \subseteq Digest
        BY DEF AuditTypeOK
      <3>3. QED
        BY <3>1, <3>2 DEF Kept
    <2>2. QED
      BY <2>1 DEF AuditNext
  <1>4. beside' \subseteq {q \in Pruner : ppc'[q] # "idle"}
    BY DEF AuditNext, Beside
  <1>5. freed' \in Nat
    <2>1. freed' = freed + (StoredBytes - StoredBytes') /\ freed \in Nat
      BY DEF AuditNext, AuditTypeOK
    <2>2. QED
      BY <1>1, <2>1, StoredShrinks
  <1>6. claimed' \in Nat
    BY <1>2, ClaimedBy
  <1>7. QED
    BY <1>2, <1>3, <1>4, <1>5, <1>6 DEF AuditTypeOK, EvictionTypeOK

LEMMA AuditInvStep ==
    ASSUME AuditInv, [AuditNext]_auditVars
    PROVE  AuditInv'
  <1>1. CASE AuditNext
    <2>1. AuditTypeOK' /\ OwnFiles'
      BY <1>1, AuditTypeStep, OwnFilesStep DEF AuditInv, AuditTypeOK, EvictionTypeOK, AuditNext
    <2>2. OverlapSeen'
      BY <1>1 DEF OverlapSeen, AuditNext, Beside
    <2>3. \A q \in Pruner : CallInv(q)'
      BY <1>1, CallInvStep
    <2>4. QED
      BY <2>1, <2>2, <2>3 DEF AuditInv
  <1>2. CASE UNCHANGED auditVars
    <2>1. /\ UNCHANGED <<kept, beside, freed, claimed>>
          /\ SameDisk /\ UNCHANGED <<link, data, mtime, clock>>
          /\ UNCHANGED <<pinned, ppc, budget, listing, snap, total, reclaimed, victim, hit, upc>>
      BY <1>2 DEF auditVars, evictionVars, casVars, evictVars, SameDisk
    <2>2. Stored' = Stored /\ StoredBytes' = StoredBytes
      BY <2>1, SameStored
    <2>3. AuditTypeOK'
      BY <2>1 DEF AuditInv, AuditTypeOK, EvictionTypeOK, CasTypeOK, EvictTypeOK
    <2>4. OwnFiles' /\ OverlapSeen'
      BY <2>1 DEF AuditInv, OwnFiles, OverlapSeen
    <2>5. \A q \in Pruner : CallInv(q)'
      BY <2>1, <2>2 DEF AuditInv, CallInv, FaithfulScan, Faithful, ScanTotal, AloneCountsDisk,
         Scanning, Seen, Unbooked
    <2>6. QED
      BY <2>3, <2>4, <2>5 DEF AuditInv
  <1>3. QED
    BY <1>1, <1>2

LEMMA AuditInvInit == AuditInit => AuditInv
  <1> SUFFICES ASSUME AuditInit PROVE AuditInv
    OBVIOUS
  <1>1. CasTypeOK /\ EvictTypeOK
    BY CasInitType, EvictInitType DEF AuditInit, EvictionInit
  <1>2. AuditTypeOK
    BY <1>1 DEF AuditTypeOK, EvictionTypeOK, AuditInit
  <1>3. OwnFiles
    BY DEF AuditInit, EvictionInit, CasInit, OwnFiles, File, Inode
  <1>4. \A p \in Pruner : ppc[p] = "idle" /\ snap[p] = {} /\ total[p] = 0
    BY DEF AuditInit, EvictionInit, EvictInit
  <1>5. OverlapSeen /\ \A p \in Pruner : CallInv(p)
    BY <1>4 DEF OverlapSeen, CallInv, FaithfulScan, ScanTotal, AloneCountsDisk, Scanning
  <1>6. QED
    BY <1>2, <1>3, <1>5 DEF AuditInv

(* Whatever is stored, the size and age a scan has noted of a file stay     *)
(* true, its total is their sum, and a call that overlaps no other counts   *)
(* nothing that is not on disk (prune in eviction.rs).                      *)
THEOREM AuditInvariant == AuditSpec => []AuditInv
  BY AuditInvInit, AuditInvStep, PTL DEF AuditSpec

(* The auditor's books are numbers: the files a Prune call removes never   *)
(* make the disk fuller, and what it adds to reclaimed_bytes is counted.   *)
THEOREM AuditTypeCorrect == AuditSpec => []AuditTypeOK
  <1>1. AuditInv => AuditTypeOK
    BY DEF AuditInv
  <1>2. QED
    BY <1>1, AuditInvariant, PTL

(* A Prune call that no other overlaps removes a file only while more than *)
(* max_bytes are on disk, however the digests are stored, for any number   *)
(* of callers and any sizes.                                               *)
THEOREM NeverEvictsTooMuch == AuditSpec => NoOverEviction
  <1>1. AuditInv /\ [AuditNext]_auditVars =>
          [\A p \in Pruner \ beside :
             (PruneUnlinkStd(p) \/ PruneUnlinkFlat(p)) /\ StoredBytes' < StoredBytes
                => StoredBytes > budget[p]]_auditVars
    <2> SUFFICES ASSUME AuditInv, AuditNext, NEW p \in Pruner, p \notin beside,
                        PruneUnlinkStd(p) \/ PruneUnlinkFlat(p), StoredBytes' < StoredBytes
                 PROVE  StoredBytes > budget[p]
      OBVIOUS
    <2>1. /\ CasTypeOK /\ EvictTypeOK /\ OwnFiles /\ EvictNext
          /\ FaithfulScan(p) /\ AloneCountsDisk(p)
      BY DEF AuditInv, AuditTypeOK, EvictionTypeOK, CallInv, AuditNext
    <2>2. Removing(p)
      BY DEF PruneUnlinkStd, PruneUnlinkFlat
    <2>3. UnlinksStd(p) \/ UnlinksFlat(p)
      BY <2>1, UnlinkEffect
    <2>4. victim[p].digest \in Stored
      BY <2>1, <2>3, UnlinkStored, StoredShrinks
    <2>5. Unbooked(p) = 0
      BY <2>4 DEF Unbooked
    <2>6. total[p] > budget[p] /\ total[p] <= StoredBytes + Unbooked(p)
      BY <2>1, <2>2 DEF FaithfulScan, AloneCountsDisk
    <2>7. total[p] \in Nat /\ budget[p] \in Nat /\ StoredBytes \in Nat
      BY <2>1, StoredShrinks DEF EvictTypeOK
    <2>8. QED
      BY <2>5, <2>6, <2>7
  <1>2. QED
    BY <1>1, AuditInvariant, PTL DEF AuditSpec, NoOverEviction

-----------------------------------------------------------------------------
(* From here on no digest starts with a safetensors path.  A pull gives    *)
(* one to every digest it gets from a safetensors file, and Prune neither  *)
(* scans that path nor removes it.                                         *)
GgufOnly == Shapes \cap {"pulled_st", "flat_st"} = {}

LEMMA GgufPaths ==
    ASSUME NoSafetensors, NEW d \in Digest
    PROVE  d \in Stored <=> HasFile("blobs", d) \/ HasFile("gguf", d)
  BY ResolvableIff DEF NoSafetensors, Stored, Place

LEMMA NoSafetensorsStep ==
    ASSUME CasTypeOK, EvictNext, NoSafetensors
    PROVE  NoSafetensors'
  BY EvictionOnlyRemoves DEF NoSafetensors, Place

(* What another task removes, or nothing, is no miss. *)
LEMMA KeptSame ==
    ASSUME AuditNext, NEW q \in Pruner, ppc'[q] = ppc[q], snap'[q] = snap[q], ppc[q] # "idle"
    PROVE  kept'[q] = kept[q]
  BY DEF AuditNext, Kept

LEMMA NoneMissedQuiet ==
    ASSUME CasTypeOK, EvictNext, AuditNext, NEW q \in Pruner, NoneMissed(q), SameCall(q)
    PROVE  NoneMissed(q)'
  <1>1. \A d \in Digest :
          /\ HasFile("blobs", d)' => HasFile("blobs", d)
          /\ HasFile("gguf", d)' => HasFile("gguf", d)
          /\ Resolvable(d)' => Resolvable(d)
    BY EvictionOnlyRemoves, ResolvableIff, ResolvableIffNext DEF Place
  <1>2. Seen(q)' = Seen(q)
    BY DEF Seen, SameCall
  <1>3. ppc[q] # "idle" => kept'[q] = kept[q]
    BY KeptSame DEF SameCall
  <1>4. QED
    BY <1>1, <1>2, <1>3 DEF NoneMissed, SameCall

LEMMA NoneMissedStep ==
    ASSUME CasTypeOK, EvictTypeOK, OwnFiles, AuditNext, kept \in [Pruner -> SUBSET Digest],
           NEW p \in Pruner, CallStep(p), FaithfulScan(p), ScanTotal(p), NoneMissed(p),
           NoSafetensors
    PROVE  NoneMissed(p)'
  <1> USE DEF NoneMissed
  <1>1. EvictNext
    BY DEF AuditNext
  <1>2. NoSafetensors'
    BY <1>1, NoSafetensorsStep
  <1>3. \A d \in Digest :
          /\ HasFile("blobs", d)' => HasFile("blobs", d)
          /\ HasFile("gguf", d)' => HasFile("gguf", d)
          /\ Resolvable(d)' => Resolvable(d)
    BY <1>1, EvictionOnlyRemoves, ResolvableIff, ResolvableIffNext DEF Place
  <1>4. \A d \in Digest : Resolvable(d)' => HasFile("blobs", d)' \/ HasFile("gguf", d)'
    BY <1>2, ResolvableIffNext DEF NoSafetensors, Place
  <1>5. CASE Starts(p)
    BY <1>3, <1>5 DEF Starts, SameDisk
  <1>6. ASSUME NEW d \in Digest, Stats(p, d)
        PROVE  NoneMissed(p)'
    <2>1. CASE Collects(p, d)
      <3>1. Seen(p)' = Seen(p) \cup {d}
        BY <2>1 DEF Collects, Seen
      <3>2. QED
        BY <1>3, <1>6, <3>1 DEF Stats, Scanning
    <2>2. CASE /\ snap'[p] = snap[p] /\ ppc[p] = "stat_cas"
               /\ ~HasFile("gguf", d) \/ d \in Seen(p)
      <3>1. Seen(p)' = Seen(p)
        BY <2>2 DEF Seen
      <3>2. QED
        BY <1>3, <1>6, <2>2, <3>1 DEF Stats, Scanning
    <2>3. QED
      BY <1>6, <2>1, <2>2 DEF Stats
  <1>7. CASE Lists(p)
    <2>1. Seen(p)' = Seen(p)
      BY <1>7 DEF Lists, Seen
    <2>2. QED
      BY <1>3, <1>7, <2>1 DEF Lists, SameDisk
  <1>8. CASE Sorts(p)
    <2>1. Seen(p)' = Seen(p)
      BY <1>8 DEF Sorts, Seen
    <2>2. QED
      BY <1>3, <1>4, <1>8, <2>1 DEF Sorts
  <1>9. ASSUME NEW s \in snap[p], Skips(p, s)
        PROVE  NoneMissed(p)'
    <2>1. Seen(p) \subseteq Seen(p)' \cup {s.digest}
      BY <1>9 DEF Skips, Seen
    <2>2. kept'[p] = kept[p] \cup {t.digest : t \in snap[p] \ snap'[p]}
      BY <1>9 DEF Skips, AuditNext, Kept
    <2>3. s.digest \in kept'[p] /\ kept[p] \subseteq kept'[p]
      BY <1>9, <2>2 DEF Skips
    <2>4. QED
      BY <1>3, <1>9, <2>1, <2>3 DEF Skips
  <1>10. ASSUME NEW s \in snap[p], Picks(p, s)
         PROVE  NoneMissed(p)'
    <2>1. Seen(p) \subseteq Seen(p)' \cup {s.digest}
      BY <1>10 DEF Picks, Seen
    <2>2. kept'[p] = kept[p]
      BY <1>10 DEF Picks, AuditNext, Kept
    <2>3. QED
      BY <1>3, <1>10, <2>1, <2>2 DEF Picks
  <1>11. CASE UnlinksStd(p)
    <2>1. Seen(p)' = Seen(p)
      BY <1>11 DEF UnlinksStd, Seen
    <2>2. kept'[p] = kept[p]
      BY <1>11 DEF UnlinksStd, AuditNext, Kept
    <2>3. QED
      BY <1>3, <1>11, <2>1, <2>2 DEF UnlinksStd
  <1>12. CASE UnlinksFlat(p)
    <2>1. Seen(p)' = Seen(p)
      BY <1>12 DEF UnlinksFlat, Seen
    <2>2. kept'[p] = kept[p]
      BY <1>12 DEF UnlinksFlat, AuditNext, Kept
    <2>3. ASSUME NEW d \in Digest, Resolvable(d)'
          PROVE  d # victim[p].digest
      <3>1. SUFFICES ASSUME d = victim[p].digest PROVE FALSE
        OBVIOUS
      <3>2. link'["gguf"][d] = None
        BY <1>12, <3>1 DEF UnlinksFlat, Place
      <3>3. link["blobs"][d] = None
        BY <1>12, <3>1 DEF UnlinksFlat, FaithfulScan
      <3>4. QED
        BY <1>3, <1>4, <2>3, <3>2, <3>3
    <2>4. QED
      BY <1>3, <1>12, <2>1, <2>2, <2>3 DEF UnlinksFlat
  <1>13. CASE Returns(p)
    BY <1>13 DEF Returns
  <1>14. QED
    BY <1>5, <1>6, <1>7, <1>8, <1>9, <1>10, <1>11, <1>12, <1>13, CallEffect

(* A flat unlink leaves nothing of its victim. *)
LEMMA FlatRemoves ==
    ASSUME CasTypeOK, EvictTypeOK, OwnFiles, EvictNext, NEW p \in Pruner, UnlinksFlat(p),
           FaithfulScan(p), NoSafetensors
    PROVE  victim[p].digest \notin Stored'
  <1> DEFINE v == victim[p].digest
  <1>1. v \in Digest
    BY UnlinkStored
  <1>2. link["blobs"][v] = None
    BY DEF UnlinksFlat, FaithfulScan
  <1>3. link'["gguf"][v] = None /\ link'["blobs"][v] = None
    BY <1>1, <1>2 DEF UnlinksFlat, Place
  <1>4. link'["safetensors"][v] = None
    BY <1>1, NoSafetensorsStep DEF NoSafetensors
  <1> HIDE DEF v
  <1>5. \A l \in Place : link'[l][v] = None
    BY <1>3, <1>4 DEF Place
  <1>6. v \notin Stored'
    BY <1>5, ResolvableIffNext DEF Stored
  <1>7. QED
    BY <1>6 DEF v

LEMMA TotalCoversQuiet ==
    ASSUME CasTypeOK, EvictTypeOK, OwnFiles, EvictNext, NEW q \in Pruner, TotalCovers(q),
           SameCall(q)
    PROVE  TotalCovers(q)'
  <1>1. /\ Stored' \subseteq Stored /\ StoredBytes' <= StoredBytes
        /\ StoredBytes \in Nat /\ StoredBytes' \in Nat
    BY StoredShrinks
  <1>2. total[q] \in Nat
    BY DEF EvictTypeOK
  <1>3. ASSUME ppc[q] = "unlink_flat", hit[q]
        PROVE  Bytes(Stored' \ {victim[q].digest}) + victim[q].size <= total[q]
    <2> DEFINE D == Stored \ {victim[q].digest}
               E == Stored' \ {victim[q].digest}
    <2>1. D \subseteq Digest /\ E \subseteq D
      BY <1>1 DEF Stored
    <2>2. Bytes(D) + victim[q].size <= total[q]
      BY <1>3 DEF TotalCovers
    <2>3. victim[q].size \in Nat
      BY <1>3 DEF EvictTypeOK, Candidate
    <2> HIDE DEF D, E
    <2>4. Bytes(E) <= Bytes(D) /\ Bytes(E) \in Nat /\ Bytes(D) \in Nat
      BY <2>1, BytesFacts
    <2>5. Bytes(E) + victim[q].size <= total[q]
      BY <1>2, <2>2, <2>3, <2>4
    <2>6. QED
      BY <2>5 DEF E
  <1>4. ppc[q] = "next" \/ Removing(q) => StoredBytes' <= total[q]
    BY <1>1, <1>2 DEF TotalCovers
  <1>5. QED
    BY <1>3, <1>4 DEF TotalCovers, SameCall

LEMMA TotalCoversStep ==
    ASSUME CasTypeOK, EvictTypeOK, OwnFiles, EvictNext, NEW p \in Pruner, CallStep(p),
           FaithfulScan(p), ScanTotal(p), NoneMissed(p), TotalCovers(p), NoSafetensors
    PROVE  TotalCovers(p)'
  <1> USE DEF TotalCovers
  <1>1. /\ Stored' \subseteq Stored /\ StoredBytes' <= StoredBytes
        /\ StoredBytes = Bytes(Stored) /\ StoredBytes' = Bytes(Stored')
        /\ StoredBytes \in Nat /\ StoredBytes' \in Nat
    BY StoredShrinks
  <1>2. Stored \subseteq Digest /\ total[p] \in Nat
    BY DEF Stored, EvictTypeOK
  <1>3. CASE Starts(p) \/ Lists(p) \/ Returns(p)
    BY <1>3 DEF Starts, Lists, Returns
  <1>4. CASE \E d \in Digest : Stats(p, d)
    BY <1>4 DEF Stats, Scanning
  <1>5. CASE Sorts(p)
    <2>1. \A d \in Stored : d \in Seen(p)
      BY <1>2, <1>5, GgufPaths DEF Sorts, NoneMissed
    <2>2. Bytes(Stored) <= Bytes(Seen(p))
      BY <2>1, SeenType, BytesFacts
    <2>3. total[p] = Bytes(Seen(p))
      BY <1>5 DEF Sorts, ScanTotal, Scanning
    <2>4. StoredBytes' = StoredBytes
      BY <1>5, SameStored DEF Sorts
    <2>5. QED
      BY <1>1, <1>5, <2>2, <2>3, <2>4 DEF Sorts
  <1>6. CASE \E s \in snap[p] : Skips(p, s) \/ Picks(p, s)
    BY <1>6, SameStored DEF Skips, Picks
  <1>7. CASE UnlinksStd(p)
    <2> DEFINE v == victim[p].digest
    <2>1. v \in Digest /\ victim[p].size = SizeOf[v] /\ SizeOf[v] \in Nat
      BY <1>7, UnlinkStored, LayoutAssumption DEF UnlinksStd, FaithfulScan, Faithful
    <2>2. StoredBytes <= total[p] /\ StoredBytes' <= total[p]
      BY <1>1, <1>2, <1>7 DEF UnlinksStd
    <2>3. ASSUME hit'[p]
          PROVE  Bytes(Stored' \ {v}) + SizeOf[v] <= total[p]
      <3>1. v \in Stored
        BY <1>7, <2>1, <2>3, GgufPaths DEF UnlinksStd
      <3>2. Bytes(Stored) = SizeOf[v] + Bytes(Stored \ {v})
        BY <1>2, <3>1, BytesFacts
      <3>3. Stored \ {v} \subseteq Digest /\ Stored' \ {v} \subseteq Stored \ {v}
        BY <1>1, <1>2
      <3>4. /\ Bytes(Stored' \ {v}) <= Bytes(Stored \ {v})
            /\ Bytes(Stored \ {v}) \in Nat /\ Bytes(Stored' \ {v}) \in Nat
        BY <3>3, BytesFacts
      <3> HIDE DEF v
      <3>5. QED
        BY <1>1, <1>2, <2>1, <2>2, <3>2, <3>4
    <2>4. QED
      BY <1>7, <2>1, <2>2, <2>3 DEF UnlinksStd
  <1>8. CASE UnlinksFlat(p)
    <2> DEFINE v == victim[p].digest
    <2>1. v \in Digest /\ victim[p].size = SizeOf[v] /\ SizeOf[v] \in Nat
      BY <1>8, UnlinkStored, LayoutAssumption DEF UnlinksFlat, FaithfulScan, Faithful
    <2>2. v \notin Stored'
      BY <1>8, FlatRemoves
    <2>3. StoredBytes <= total[p]
      BY <1>8 DEF UnlinksFlat
    <2>4. ASSUME hit[p] \/ HasFile("gguf", v)
          PROVE  StoredBytes' + SizeOf[v] <= total[p]
      <3>1. CASE hit[p]
        <4>1. Bytes(Stored \ {v}) + SizeOf[v] <= total[p]
          BY <1>8, <2>1, <3>1 DEF UnlinksFlat
        <4>2. Stored' \subseteq Stored \ {v} /\ Stored \ {v} \subseteq Digest
          BY <1>1, <1>2, <2>2
        <4>3. Bytes(Stored') <= Bytes(Stored \ {v}) /\ Bytes(Stored \ {v}) \in Nat
          BY <4>2, BytesFacts
        <4> HIDE DEF v
        <4>4. QED
          BY <1>1, <1>2, <2>1, <4>1, <4>3
      <3>2. CASE HasFile("gguf", v)
        <4>1. v \in Stored
          BY <2>1, <3>2, GgufPaths
        <4>2. StoredBytes = StoredBytes' + SizeOf[v]
          BY <1>8, <2>2, <4>1, UnlinkStored
        <4>3. QED
          BY <2>3, <4>2
      <3>3. QED
        BY <2>4, <3>1, <3>2
    <2>5. StoredBytes' <= total'[p]
      <3>1. CASE hit[p] \/ HasFile("gguf", v)
        <4>1. total'[p] = IF total[p] > SizeOf[v] THEN total[p] - SizeOf[v] ELSE 0
          BY <1>8, <2>1, <3>1 DEF UnlinksFlat
        <4> HIDE DEF v
        <4>2. QED
          BY <1>1, <1>2, <2>1, <2>4, <3>1, <4>1
      <3>2. CASE ~(hit[p] \/ HasFile("gguf", v))
        <4>1. total'[p] = total[p]
          BY <1>8, <3>2 DEF UnlinksFlat
        <4>2. QED
          BY <1>1, <1>2, <2>3, <4>1
      <3>3. QED
        BY <3>1, <3>2
    <2>6. QED
      BY <1>8, <2>5 DEF UnlinksFlat
  <1>9. QED
    BY <1>3, <1>4, <1>5, <1>6, <1>7, <1>8, CallEffect

(* What a smaller disk adds to the bytes freed. *)
LEMMA Difference ==
    ASSUME NEW a \in Nat, NEW b \in Nat, NEW f \in Nat, b <= a
    PROVE  f + (a - b) \in Nat /\ f <= f + (a - b)
  OBVIOUS

(* What is claimed has been freed. *)
LEMMA ClaimsStep ==
    ASSUME AuditInv, GgufInv, AuditNext
    PROVE  ReclaimedIsFreed' /\ ClaimsBacked'
  <1>1. /\ AuditTypeOK /\ CasTypeOK /\ EvictTypeOK /\ OwnFiles /\ EvictNext
        /\ \A q \in Pruner : FaithfulScan(q) /\ AloneCountsDisk(q)
    BY DEF AuditInv, AuditTypeOK, EvictionTypeOK, CallInv, AuditNext
  <1>2. NoSafetensors /\ claimed <= freed /\ ClaimsBacked
    BY DEF GgufInv, ReclaimedIsFreed
  <1>3. /\ StoredBytes \in Nat /\ StoredBytes' \in Nat /\ StoredBytes' <= StoredBytes
        /\ freed' = freed + (StoredBytes - StoredBytes')
        /\ freed \in Nat /\ claimed \in Nat
    BY <1>1, StoredShrinks DEF AuditNext, AuditTypeOK
  <1>4. freed' \in Nat /\ freed <= freed'
    BY <1>3, Difference
  <1> DEFINE f == freed'
             c == claimed'
  <1>5. f \in Nat /\ freed <= f /\ c \in Nat
    BY <1>1, <1>4, AuditTypeStep DEF AuditTypeOK
  <1> HIDE DEF f, c
  <1>6. ASSUME NEW p \in Pruner, UnlinksFlat(p), p \notin beside',
               hit[p] \/ HasFile("gguf", victim[p].digest)
        PROVE  claimed + victim[p].size <= freed'
    <2> DEFINE v == victim[p].digest
    <2>1. v \in Digest /\ victim[p].size = SizeOf[v] /\ SizeOf[v] \in Nat
      BY <1>1, <1>6, UnlinkStored, LayoutAssumption DEF UnlinksFlat, FaithfulScan, Faithful
    <2>2. v \notin Stored'
      BY <1>1, <1>2, <1>6, FlatRemoves
    <2>3. CASE v \in Stored
      <3>1. StoredBytes = StoredBytes' + SizeOf[v]
        BY <1>1, <1>6, <2>2, <2>3, UnlinkStored
      <3>2. QED
        BY <1>2, <1>3, <2>1, <3>1
    <2>4. CASE v \notin Stored
      <3>1. ~HasFile("gguf", v)
        BY <1>2, <2>1, <2>4, GgufPaths
      <3>2. Unbooked(p) = victim[p].size
        BY <1>6, <2>4, <3>1 DEF Unbooked, UnlinksFlat
      <3>3. p \notin beside
        BY <1>6, AloneBefore DEF UnlinksFlat
      <3>4. claimed + Unbooked(p) <= freed
        BY <1>2, <3>3 DEF ClaimsBacked
      <3> HIDE DEF v
      <3>5. QED
        BY <1>3, <2>1, <3>2, <3>4
    <2>5. QED
      BY <2>3, <2>4
  <1>7. claimed' <= freed'
    <2>1. CASE claimed' = claimed
      <3>1. claimed <= f
        BY <1>2, <1>3, <1>5
      <3>2. QED
        BY <2>1, <3>1 DEF f
    <2>2. CASE claimed' # claimed
      BY <1>1, <1>6, <2>2, StepClaims
    <2>3. QED
      BY <2>1, <2>2
  <1>8. ASSUME NEW q \in Pruner, q \notin beside'
        PROVE  claimed' + Unbooked(q)' <= freed'
    <2>1. claimed' \in Nat /\ freed' \in Nat
      BY <1>1, AuditTypeStep DEF AuditTypeOK
    <2>2. CASE Unbooked(q)' = 0
      <3>1. c <= f
        BY <1>7 DEF c, f
      <3>2. c + 0 <= f
        BY <1>5, <3>1
      <3>3. QED
        BY <2>2, <3>2 DEF c, f
    <2>3. CASE Unbooked(q)' # 0
      <3>1. ppc'[q] = "unlink_flat" /\ q \notin beside
        BY <1>8, <2>3, AloneBefore DEF Unbooked
      <3>2. claimed' = claimed
        <4>1. ASSUME NEW p \in Pruner, UnlinksFlat(p), p \notin beside'
              PROVE  FALSE
          <5>1. ppc'[p] = "next"
            BY <4>1 DEF UnlinksFlat
          <5>2. QED
            BY <1>8, <3>1, <5>1, AloneBefore
        <4>2. QED
          BY <1>1, <4>1, StepClaims
      <3>3. CASE SameDisk /\ SameCall(q)
        <4>1. Unbooked(q)' = Unbooked(q)
          BY <1>1, <3>1, <3>3, QuietAlone
        <4>2. Unbooked(q) \in Nat /\ claimed + Unbooked(q) <= freed
          BY <1>1, <1>2, <3>1 DEF ClaimsBacked, Unbooked, EvictTypeOK, Candidate
        <4>3. freed' = freed
          BY <1>3, <3>3, SameStored
        <4>4. QED
          BY <3>2, <4>1, <4>2, <4>3
      <3>4. ASSUME NEW p \in Pruner, p # q, CallStep(p)
            PROVE  SameDisk /\ SameCall(q)
        BY <1>1, <1>8, <3>1, <3>4, AloneOthers
      <3>5. CASE CallStep(q)
        <4>1. UnlinksStd(q)
          BY <1>1, <3>1, <3>5, CallEffect
             DEF Starts, Lists, Sorts, UnlinksFlat, Returns, Stats, Scanning, Skips, Picks
        <4>2. /\ Unbooked(q)' = victim[q].size /\ victim[q].digest \notin Stored'
              /\ hit'[q] /\ victim[q].size = SizeOf[victim[q].digest]
          BY <1>1, <2>3, <4>1 DEF Unbooked, UnlinksStd, FaithfulScan, Faithful
        <4>3. victim[q].digest \in Stored
          BY <1>1, <1>2, <4>1, <4>2, UnlinkStored, GgufPaths DEF UnlinksStd
        <4>4. StoredBytes = StoredBytes' + victim[q].size
          BY <1>1, <4>1, <4>2, <4>3, UnlinkStored
        <4>5. victim[q].size \in Nat
          BY <1>1, <4>1, <4>2, UnlinkStored, LayoutAssumption
        <4>6. QED
          BY <1>2, <1>3, <3>2, <4>2, <4>4, <4>5
      <3>6. CASE DaemonCrash
        BY <3>1, <3>6, CrashedCall
      <3>7. QED
        BY <1>1, <3>3, <3>4, <3>5, <3>6, EvictSteps
    <2>4. QED
      BY <2>2, <2>3
  <1>9. QED
    BY <1>7, <1>8 DEF ReclaimedIsFreed, ClaimsBacked

LEMMA GgufInvStep ==
    ASSUME AuditInv, GgufInv, [AuditNext]_auditVars
    PROVE  GgufInv'
  <1>1. CASE AuditNext
    <2>1. /\ AuditTypeOK /\ CasTypeOK /\ EvictTypeOK /\ OwnFiles /\ EvictNext /\ NoSafetensors
          /\ \A q \in Pruner : /\ FaithfulScan(q) /\ ScanTotal(q)
                               /\ NoneMissed(q) /\ TotalCovers(q)
      BY <1>1 DEF AuditInv, AuditTypeOK, EvictionTypeOK, CallInv, AuditNext, GgufInv
    <2>2. kept \in [Pruner -> SUBSET Digest]
      BY <2>1 DEF AuditTypeOK
    <2>3. NoSafetensors'
      BY <2>1, NoSafetensorsStep
    <2>4. ReclaimedIsFreed' /\ ClaimsBacked'
      BY <1>1, ClaimsStep
    <2>5. ASSUME NEW q \in Pruner
          PROVE  NoneMissed(q)' /\ TotalCovers(q)'
      <3>1. CASE SameCall(q)
        BY <1>1, <2>1, <3>1, NoneMissedQuiet, TotalCoversQuiet
      <3>2. CASE CallStep(q)
        BY <1>1, <2>1, <2>2, <3>2, NoneMissedStep, TotalCoversStep
      <3>3. ASSUME NEW p \in Pruner, p # q, CallStep(p)
            PROVE  SameCall(q)
        BY <2>1, <3>3, CallsApart
      <3>4. CASE DaemonCrash
        BY <3>4, CrashedCall DEF NoneMissed, TotalCovers
      <3>5. QED
        BY <2>1, <3>1, <3>2, <3>3, <3>4, EvictSteps
    <2>6. QED
      BY <2>3, <2>4, <2>5 DEF GgufInv
  <1>2. CASE UNCHANGED auditVars
    <2>1. /\ UNCHANGED <<kept, beside, freed, claimed>>
          /\ SameDisk /\ UNCHANGED <<link, data, mtime, clock>>
          /\ UNCHANGED <<pinned, ppc, budget, listing, snap, total, reclaimed, victim, hit, upc>>
      BY <1>2 DEF auditVars, evictionVars, casVars, evictVars, SameDisk
    <2>2. Stored' = Stored /\ StoredBytes' = StoredBytes
      BY <2>1, SameStored
    <2>3. NoSafetensors' /\ ReclaimedIsFreed' /\ ClaimsBacked'
      BY <2>1, <2>2 DEF GgufInv, NoSafetensors, ReclaimedIsFreed, ClaimsBacked, Unbooked
    <2>4. \A d \in Digest : Resolvable(d)' <=> Resolvable(d)
      BY <2>1, ResolvableOwnEntries
    <2>5. \A q \in Pruner : NoneMissed(q)' /\ TotalCovers(q)'
      BY <2>1, <2>2, <2>4 DEF GgufInv, NoneMissed, TotalCovers, Seen
    <2>6. QED
      BY <2>3, <2>5 DEF GgufInv
  <1>3. QED
    BY <1>1, <1>2

LEMMA GgufInvInit ==
    ASSUME GgufOnly
    PROVE  AuditInit => GgufInv
  <1> SUFFICES ASSUME AuditInit PROVE GgufInv
    OBVIOUS
  <1>1. NoSafetensors
    <2>1. PICK shape \in [Digest -> Shapes] :
            link = [l \in Place |-> [d \in Digest |->
                      IF l \in PlacesOf(shape[d]) THEN <<d, "staged">> ELSE None]]
      BY DEF AuditInit, EvictionInit, CasInit
    <2>2. ASSUME NEW d \in Digest
          PROVE  "safetensors" \notin PlacesOf(shape[d])
      <3>1. shape[d] \in {"absent", "imported", "pulled_gguf", "flat_gguf"}
        BY LayoutAssumption DEF GgufOnly
      <3>2. QED
        BY <3>1 DEF PlacesOf
    <2>3. QED
      BY <2>1, <2>2 DEF NoSafetensors, Place
  <1>2. \A p \in Pruner : ppc[p] = "idle"
    BY DEF AuditInit, EvictionInit, EvictInit
  <1>3. ReclaimedIsFreed /\ ClaimsBacked
    BY <1>2 DEF AuditInit, ReclaimedIsFreed, ClaimsBacked, Unbooked
  <1>4. \A p \in Pruner : NoneMissed(p) /\ TotalCovers(p)
    BY <1>2 DEF NoneMissed, TotalCovers
  <1>5. QED
    BY <1>1, <1>3, <1>4 DEF GgufInv

(* Where no safetensors names exist, what the calls have claimed and not    *)
(* yet booked is backed by files they have removed, no unpinned blob that   *)
(* can be found is missed by a scan that is over, and the total covers the  *)
(* disk (prune in eviction.rs).                                             *)
THEOREM GgufInvariant ==
    ASSUME GgufOnly
    PROVE  AuditSpec => []GgufInv
  <1>1. AuditInit => GgufInv
    BY GgufInvInit
  <1>2. AuditInv /\ GgufInv /\ [AuditNext]_auditVars => GgufInv'
    BY GgufInvStep
  <1>3. QED
    BY <1>1, <1>2, AuditInvariant, PTL DEF AuditSpec

(* The reclaimed_bytes of calls that no other overlaps never exceed the    *)
(* bytes that have left the disk.                                          *)
THEOREM ClaimsAreFreed ==
    ASSUME GgufOnly
    PROVE  AuditSpec => []ReclaimedIsFreed
  <1>1. GgufInv => ReclaimedIsFreed
    BY DEF GgufInv
  <1>2. QED
    BY <1>1, GgufInvariant, PTL

(* A Prune call that returns a byte count leaves a store that fits its     *)
(* max_bytes, or has seen every digest that is left pinned.                *)
THEOREM PruneKeepsItsBudget ==
    ASSUME GgufOnly
    PROVE  AuditSpec => PruneMeetsBudget
  <1>1. AuditInv /\ GgufInv /\ [AuditNext]_auditVars =>
          [\A p \in Pruner : PruneDone(p) \/ PruneUnderBudget(p) =>
             \/ StoredBytes <= budget[p]
             \/ \A d \in Digest : Resolvable(d) => d \in kept[p]]_auditVars
    <2> SUFFICES ASSUME AuditInv, GgufInv, NEW p \in Pruner,
                        PruneDone(p) \/ PruneUnderBudget(p)
                 PROVE  \/ StoredBytes <= budget[p]
                        \/ \A d \in Digest : Resolvable(d) => d \in kept[p]
      OBVIOUS
    <2>1. /\ CasTypeOK /\ EvictTypeOK /\ OwnFiles /\ NoSafetensors
          /\ ScanTotal(p) /\ NoneMissed(p) /\ TotalCovers(p)
      BY DEF AuditInv, AuditTypeOK, EvictionTypeOK, CallInv, GgufInv
    <2>2. StoredBytes = Bytes(Stored) /\ Stored \subseteq Digest
      BY <2>1, StoredBytesAre DEF Stored
    <2>3. total[p] \in Nat /\ budget[p] \in Nat /\ Bytes(Stored) \in Nat
      BY <2>1, <2>2, BytesFacts DEF EvictTypeOK
    <2>4. CASE PruneUnderBudget(p)
      <3>1. \A d \in Stored : d \in Seen(p)
        BY <2>1, <2>2, <2>4, GgufPaths DEF PruneUnderBudget, NoneMissed
      <3>2. Bytes(Stored) <= Bytes(Seen(p))
        BY <2>1, <3>1, SeenType, BytesFacts
      <3>3. total[p] = Bytes(Seen(p)) /\ total[p] <= budget[p]
        BY <2>1, <2>4 DEF PruneUnderBudget, ScanTotal, Scanning
      <3>4. QED
        BY <2>2, <2>3, <3>2, <3>3
    <2>5. CASE PruneDone(p)
      <3>1. CASE total[p] <= budget[p]
        <4>1. StoredBytes <= total[p]
          BY <2>1, <2>5 DEF PruneDone, TotalCovers
        <4>2. QED
          BY <2>2, <2>3, <3>1, <4>1
      <3>2. CASE snap[p] = {}
        <4>1. Seen(p) = {}
          BY <3>2 DEF Seen
        <4>2. QED
          BY <2>1, <2>5, <4>1 DEF PruneDone, NoneMissed
      <3>3. QED
        BY <2>5, <3>1, <3>2 DEF PruneDone
    <2>6. QED
      BY <2>4, <2>5
  <1>2. QED
    BY <1>1, AuditInvariant, GgufInvariant, PTL DEF AuditSpec, PruneMeetsBudget

(* The removal that makes a blob unreachable leaves none behind that was   *)
(* written before it, but for those that the call has seen pinned.  (Last  *)
(* written, not last used: see OldestFirst.)                               *)
THEOREM OldestGoFirst ==
    ASSUME GgufOnly
    PROVE  AuditSpec => OldestFirst
  <1>1. AuditInv /\ GgufInv /\ [AuditNext]_auditVars =>
          [\A p \in Pruner, d \in Digest :
             (PruneUnlinkStd(p) \/ PruneUnlinkFlat(p)) /\ Resolvable(d) /\ ~Resolvable(d)'
                => \A e \in Digest \ kept[p] :
                      Resolvable(e) =>
                         mtime[link[BlobPlace(d)][d]] <= mtime[link[BlobPlace(e)][e]]]_auditVars
    <2> SUFFICES ASSUME AuditInv, GgufInv, AuditNext, NEW p \in Pruner, NEW d \in Digest,
                        PruneUnlinkStd(p) \/ PruneUnlinkFlat(p),
                        Resolvable(d), ~Resolvable(d)',
                        NEW e \in Digest \ kept[p], Resolvable(e)
                 PROVE  mtime[link[BlobPlace(d)][d]] <= mtime[link[BlobPlace(e)][e]]
      OBVIOUS
    <2>1. /\ CasTypeOK /\ EvictTypeOK /\ OwnFiles /\ EvictNext
          /\ FaithfulScan(p) /\ NoneMissed(p)
      BY DEF AuditInv, AuditTypeOK, EvictionTypeOK, CallInv, GgufInv, AuditNext
    <2>2. UnlinksStd(p) \/ UnlinksFlat(p)
      BY <2>1, UnlinkEffect
    <2>3. d = victim[p].digest
      <3>1. d \in Stored /\ d \notin Stored'
        BY DEF Stored
      <3>2. QED
        BY <2>1, <2>2, <3>1, UnlinkStored
    <2>4. \A c \in Digest : Resolvable(c) => link[BlobPlace(c)][c] = File(c)
      <3>1. \A c : BlobPlace(c) \in Place
        BY DEF BlobPlace, Place
      <3>2. QED
        BY <2>1, <3>1 DEF Resolvable, OwnFiles
    <2>5. Removing(p) /\ victim[p].mtime = mtime[File(d)] /\ mtime[File(d)] \in Nat
      BY <2>1, <2>2, <2>3 DEF UnlinksStd, UnlinksFlat, FaithfulScan, Faithful, CasTypeOK, File, Inode
    <2>6. e = d \/ e \in Seen(p)
      BY <2>1, <2>3, <2>5 DEF NoneMissed
    <2>7. mtime[File(d)] <= mtime[File(e)]
      <3>1. CASE e = d
        BY <2>5, <3>1
      <3>2. CASE e \in Seen(p)
        <4>1. PICK s \in snap[p] : s.digest = e
          BY <3>2 DEF Seen
        <4>2. victim[p].mtime <= s.mtime /\ s.mtime = mtime[File(e)]
          BY <2>1, <2>5, <4>1 DEF FaithfulScan, Faithful
        <4>3. QED
          BY <2>5, <4>2
      <3>3. QED
        BY <2>6, <3>1, <3>2
    <2>8. QED
      BY <2>4, <2>7
  <1>2. QED
    BY <1>1, AuditInvariant, GgufInvariant, PTL DEF AuditSpec, OldestFirst
=============================================================================
