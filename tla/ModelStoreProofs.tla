--------------------------- MODULE ModelStoreProofs ---------------------------
(***************************************************************************)
(* Proofs about CasWriters, in lemmas about one step of one writer, so     *)
(* that they serve every specification with writers in it.  Then about     *)
(* ModelStore, from the step lemmas of its two halves: the invariants of   *)
(* CasWriters survive the removals of Eviction, and the pins of Eviction   *)
(* survive every step of a writer but one.  Then about FdHandoff, whose    *)
(* handlers read this store: what a handler sends is a whole blob, for any *)
(* number of handlers, writers and Prune calls.                            *)
(***************************************************************************)
EXTENDS FdHandoff, EvictionProofs

USE DEF HasFile, WGoto, BeforeRename, Relink, Tagging, Ended

(* What a step of any one writer is, beside others that remove files. *)
WriterAction(w) ==
    \/ ImportRejected(w)
    \/ \E d \in Digest, t \in Tag \cup {None} : ImportBegin(w, d, t)
    \/ \E t \in Tag, l \in Formats : PullSkip(w, t, l)
    \/ \E d \in Digest, t \in Tag, l \in Formats : PullBegin(w, d, t, l)
    \/ WriterStep(w)
    \/ PullCopyNoSource(w)
    \/ Kill(w)

(* The steps that touch neither the blob files nor the tags and only move  *)
(* w on (staging and the bookkeeping of a copy aside).                     *)
Idle(w) ==
    \/ ImportRejected(w)
    \/ \E t \in Tag, l \in Formats : PullSkip(w, t, l)
    \/ StreamFails(w) \/ RenameFails(w) \/ PullLinkFails(w)
    \/ PullCopyNoSource(w) \/ PullCopyFails(w) \/ WriterTagFails(w) \/ Kill(w)

LEMMA FormatsArePlaces == Formats \subseteq Place /\ "blobs" \notin Formats
  BY WriterAssumption DEF Place

(* A file name that a writer links is an inode. *)
LEMMA WriterInodes ==
    ASSUME NEW w \in Writer
    PROVE  Staged(w) \in Inode /\ Copied(w) \in Inode
  BY DEF Staged, Copied, Inode

LEMMA CopyTargetType ==
    ASSUME CasTypeOK, NEW w \in Writer, wdigest[w] \in Digest
    PROVE  CopyTarget(w) \in Inode
  BY WriterInodes DEF CopyTarget, CasTypeOK, Place

LEMMA BlobPlaceType == ASSUME NEW d PROVE BlobPlace(d) \in Place
  BY DEF BlobPlace, Place

LEMMA IdleType ==
    ASSUME WritingTypeOK, NEW w \in Writer, Idle(w)
    PROVE  WritingTypeOK'
  <1> USE DEF WritingTypeOK, CasTypeOK, TagTypeOK, WriterTypeOK, casVars, jobVars
  <1>1. UNCHANGED <<casVars, tag, jobVars>>
    BY DEF Idle, ImportRejected, PullSkip, StreamFails, RenameFails, PullLinkFails,
           PullCopyNoSource, PullCopyFails, WriterTagFails, Kill
  <1>2. CASE ImportRejected(w)
    BY <1>1, <1>2 DEF ImportRejected
  <1>3. CASE \E t \in Tag, l \in Formats : PullSkip(w, t, l)
    BY <1>1, <1>3 DEF PullSkip
  <1>4. CASE StreamFails(w)
    BY <1>1, <1>4 DEF StreamFails
  <1>5. CASE RenameFails(w)
    BY <1>1, <1>5 DEF RenameFails
  <1>6. CASE PullLinkFails(w)
    BY <1>1, <1>6 DEF PullLinkFails
  <1>7. CASE PullCopyNoSource(w)
    BY <1>1, <1>7 DEF PullCopyNoSource
  <1>8. CASE PullCopyFails(w)
    BY <1>1, <1>8 DEF PullCopyFails
  <1>9. CASE WriterTagFails(w)
    BY <1>1, <1>9 DEF WriterTagFails
  <1>10. CASE Kill(w)
    BY <1>1, <1>10 DEF Kill
  <1>11. QED
    BY <1>2, <1>3, <1>4, <1>5, <1>6, <1>7, <1>8, <1>9, <1>10 DEF Idle

LEMMA BeginType ==
    ASSUME WritingTypeOK, NEW w \in Writer, NEW d \in Digest, NEW t \in Tag \cup {None},
           NEW l \in Place, Begin(w, d, t, l),
           w \in Puller => t \in Tag /\ l \in Formats
    PROVE  WritingTypeOK'
  <1> USE DEF WritingTypeOK, CasTypeOK, TagTypeOK, WriterTypeOK, casVars, Begin
  <1>1. wdigest' \in [Writer -> Digest \cup {None}] /\ wplace' \in [Writer -> Place]
          /\ wtag' \in [Writer -> Tag \cup {None}] /\ staging' \subseteq Writer
    OBVIOUS
  <1>2. CasTypeOK' /\ TagTypeOK'
    OBVIOUS
  <1>3. QED
    BY <1>1, <1>2

LEMMA WriterActionType ==
    ASSUME WritingTypeOK, NEW w \in Writer, WriterAction(w)
    PROVE  WritingTypeOK'
  <1> USE DEF WritingTypeOK, CasTypeOK, TagTypeOK, WriterTypeOK, jobVars, LinkTo, Unlink
  <1>1. CASE Idle(w)
    BY <1>1, IdleType
  <1>2. CASE \E d \in Digest, t \in Tag \cup {None} : ImportBegin(w, d, t)
    BY <1>2, BeginType, WriterAssumption DEF ImportBegin, Place
  <1>3. CASE \E d \in Digest, t \in Tag, l \in Formats : PullBegin(w, d, t, l)
    BY <1>3, BeginType, FormatsArePlaces DEF PullBegin
  <1>4. CASE StreamDone(w)
    <2>1. /\ UNCHANGED <<link, tag, jobVars, copying, staging>> /\ clock' \in Nat
          /\ wdigest[w] \in Digest
          /\ w \in Puller => wplace[w] \in Formats /\ wtag[w] \in Tag
      BY <1>4 DEF StreamDone
    <2>2. data' \in [Inode -> Digest \cup {Torn}] /\ mtime' \in [Inode -> Nat]
      BY <1>4, <2>1, WriterInodes DEF StreamDone
    <2>3. CASE w \in Puller /\ wpc' = [wpc EXCEPT ![w] = "rename"]
      BY <2>1, <2>2, <2>3
    <2>4. CASE w \in Importer /\ wpc' = [wpc EXCEPT ![w] = "target"]
      BY <2>1, <2>2, <2>4
    <2>5. QED
      BY <1>4, <2>3, <2>4 DEF StreamDone
  <1>5. CASE ImportTarget(w)
    <2>1. w \notin Puller
      BY <1>5, WriterAssumption DEF ImportTarget
    <2>2. wplace' \in [Writer -> Place]
      BY <1>5, BlobPlaceType DEF ImportTarget
    <2>3. QED
      BY <1>5, <2>1, <2>2 DEF ImportTarget, casVars
  <1>6. CASE Rename(w)
    <2>1. link' \in [Place -> [Digest -> Inode \cup {None}]]
      BY <1>6, WriterInodes DEF Rename
    <2>2. /\ UNCHANGED <<data, mtime, clock, tag, jobVars, copying>>
          /\ staging' \subseteq Writer
          /\ wdigest[w] \in Digest
          /\ w \in Puller => wplace[w] \in Formats /\ wtag[w] \in Tag
      BY <1>6 DEF Rename
    <2>3. CASE w \in Puller /\ wpc' = [wpc EXCEPT ![w] = "unlink_std"]
      BY <2>1, <2>2, <2>3
    <2>4. CASE w \in Importer /\ wtag[w] # None /\ wpc' = [wpc EXCEPT ![w] = "tag_create"]
      BY <2>1, <2>2, <2>4
    <2>5. CASE w \in Importer /\ wtag[w] = None /\ wpc' = [wpc EXCEPT ![w] = "done"]
      BY <2>1, <2>2, <2>5
    <2>6. QED
      BY <1>6, <2>3, <2>4, <2>5 DEF Rename
  <1>7. CASE PullUnlinkStd(w)
    <2>1. link' \in [Place -> [Digest -> Inode \cup {None}]]
      BY <1>7 DEF PullUnlinkStd
    <2>2. QED
      BY <1>7, <2>1 DEF PullUnlinkStd
  <1>8. CASE PullLink(w)
    <2>1. link[wplace[w]][wdigest[w]] \in Inode
      BY <1>8 DEF PullLink, CanLink
    <2>2. link' \in [Place -> [Digest -> Inode \cup {None}]]
      BY <1>8, <2>1 DEF PullLink
    <2>3. wtag[w] \in Tag
      BY <1>8 DEF PullLink
    <2>4. QED
      BY <1>8, <2>2, <2>3 DEF PullLink
  <1>9. CASE PullCopyOpen(w)
    <2>1. CopyTarget(w) \in Inode
      BY <1>9, CopyTargetType DEF PullCopyOpen
    <2>2. link[wplace[w]][wdigest[w]] \in Inode
      BY <1>9 DEF PullCopyOpen
    <2>3. link' \in [Place -> [Digest -> Inode \cup {None}]]
      BY <1>9, <2>1 DEF PullCopyOpen
    <2>4. /\ copying' \in [Writer -> (Inode \X Inode) \cup {None}]
          /\ copying'[w] # None
          /\ \A v \in Writer \ {w} : copying'[v] = copying[v]
      BY <1>9, <2>1, <2>2, WriterAssumption DEF PullCopyOpen
    <2>5. data' \in [Inode -> Digest \cup {Torn}] /\ mtime' \in [Inode -> Nat]
      BY <1>9, <2>1 DEF PullCopyOpen
    <2>6. QED
      BY <1>9, <2>3, <2>4, <2>5 DEF PullCopyOpen
  <1>10. CASE PullCopyDone(w)
    BY <1>10 DEF PullCopyDone
  <1>11. CASE WriterTagCreate(w)
    BY <1>11 DEF WriterTagCreate, TagCreate, casVars
  <1>12. CASE WriterTagWrite(w)
    BY <1>12 DEF WriterTagWrite, TagWrite, casVars
  <1>13. QED
    BY <1>1, <1>2, <1>3, <1>4, <1>5, <1>6, <1>7, <1>8, <1>9, <1>10, <1>11, <1>12
       DEF WriterAction, WriterStep, Idle

LEMMA WritersNextType ==
    ASSUME WritingTypeOK, [WritersNext]_writingVars
    PROVE  WritingTypeOK'
  <1>1. CASE WritersNext
    BY <1>1, WriterActionType DEF WritersNext, WriterAction
  <1>2. CASE UNCHANGED writingVars
    BY <1>2 DEF writingVars, writerVars, casVars, WritingTypeOK, CasTypeOK, TagTypeOK,
                WriterTypeOK
  <1>3. QED
    BY <1>1, <1>2

LEMMA WritingInitType == WritingInit => WritingTypeOK
  <1>1. WritingInit => CasTypeOK /\ TagTypeOK
    BY CasInitType DEF WritingInit, TagInit, TagTypeOK
  <1>2. WritingInit => WriterTypeOK
    BY WriterAssumption DEF WritingInit, WriterInit, WriterTypeOK, Place
  <1>3. QED
    BY <1>1, <1>2 DEF WritingTypeOK

(* Type correctness of the blob files, the tags and the writers, for any   *)
(* number of imports and pulls.                                            *)
THEOREM WritingTypeCorrect == WritingSpec => []WritingTypeOK
  BY WritingInitType, WritersNextType, PTL DEF WritingSpec
-----------------------------------------------------------------------------
(* Availability: FlatPublished keeps a pull's digest reachable while its   *)
(* standard path is replaced.                                              *)

(* What a step of a writer does to the directory entries: it adds one for  *)
(* its own digest, or removes the standard path of its own digest.         *)
LEMMA WriterEntries ==
    ASSUME WritingTypeOK, NEW w \in Writer, WriterAction(w)
    PROVE  \/ link' = link
           \/ PullUnlinkStd(w) /\ wdigest[w] \in Digest
                /\ link' = [link EXCEPT !["blobs"][wdigest[w]] = None]
           \/ /\ Rename(w) \/ PullLink(w) \/ PullCopyOpen(w)
              /\ wdigest[w] \in Digest
              /\ \E l \in Place, i \in Inode :
                    link' = [link EXCEPT ![l][wdigest[w]] = i]
  <1> USE DEF WritingTypeOK, CasTypeOK, WriterTypeOK
  <1>1. CASE Rename(w)
    BY <1>1, WriterInodes DEF Rename, LinkTo
  <1>2. CASE PullUnlinkStd(w)
    BY <1>2 DEF PullUnlinkStd, Unlink
  <1>3. CASE PullLink(w)
    <2>1. link[wplace[w]][wdigest[w]] \in Inode /\ wdigest[w] \in Digest
      BY <1>3 DEF PullLink, CanLink
    <2>2. link' = [link EXCEPT !["blobs"][wdigest[w]] = link[wplace[w]][wdigest[w]]]
      BY <1>3 DEF PullLink, LinkTo
    <2>3. QED
      BY <1>3, <2>1, <2>2 DEF Place
  <1>4. CASE PullCopyOpen(w)
    <2>1. wdigest[w] \in Digest
      BY <1>4 DEF PullCopyOpen
    <2>2. CopyTarget(w) \in Inode
      BY <2>1, CopyTargetType
    <2>3. link' = [link EXCEPT !["blobs"][wdigest[w]] = CopyTarget(w)]
      BY <1>4 DEF PullCopyOpen, LinkTo
    <2>4. QED
      BY <1>4, <2>1, <2>2, <2>3 DEF Place
  <1>5. CASE ~(Rename(w) \/ PullUnlinkStd(w) \/ PullLink(w) \/ PullCopyOpen(w))
    BY <1>5 DEF WriterAction, WriterStep, ImportRejected, ImportBegin, PullSkip,
         PullBegin, Begin, StreamFails, StreamDone, ImportTarget, RenameFails,
         PullLinkFails, PullCopyNoSource, PullCopyDone, PullCopyFails,
         WriterTagCreate, WriterTagWrite, WriterTagFails, Kill, casVars
  <1>6. QED
    BY <1>1, <1>2, <1>3, <1>4, <1>5

(* A directory entry goes only when its own pull removes it. *)
LEMMA EntriesKept ==
    ASSUME WritingTypeOK, NEW w \in Writer, WriterAction(w),
           NEW l \in Place, NEW d \in Digest, HasFile(l, d), ~HasFile(l, d)'
    PROVE  PullUnlinkStd(w) /\ l = "blobs" /\ d = wdigest[w]
  <1> USE DEF WritingTypeOK, CasTypeOK
  <1>1. CASE PullUnlinkStd(w) /\ link' = [link EXCEPT !["blobs"][wdigest[w]] = None]
    BY <1>1
  <1>2. CASE wdigest[w] \in Digest /\ \E m \in Place, i \in Inode :
                link' = [link EXCEPT ![m][wdigest[w]] = i]
    BY <1>2, LayoutAssumption
  <1>3. QED
    BY <1>1, <1>2, WriterEntries

LEMMA WriterKeepsResolvable ==
    ASSUME WritingTypeOK, FlatPublished, NEW w \in Writer, WriterAction(w),
           NEW d \in Digest, Resolvable(d)
    PROVE  Resolvable(d)'
  <1>1. PICK l \in Place : HasFile(l, d)
    BY ResolvableIff
  <1>2. CASE HasFile(l, d)'
    BY <1>2, ResolvableIffNext
  <1>3. CASE ~HasFile(l, d)'
    <2>1. PullUnlinkStd(w) /\ d = wdigest[w]
      BY <1>1, <1>3, EntriesKept
    <2>2. w \in Puller /\ wpc[w] = "unlink_std"
      BY <2>1 DEF PullUnlinkStd, WritingTypeOK, WriterTypeOK
    <2>3. HasFile(wplace[w], d)
      BY <2>1, <2>2 DEF FlatPublished
    <2>4. wplace[w] \in Place /\ wplace[w] # "blobs"
      BY <2>2, FormatsArePlaces DEF WritingTypeOK, WriterTypeOK
    <2>5. PICK m \in Place : HasFile(m, d) /\ m # "blobs"
      BY <2>3, <2>4
    <2>6. link'[m][d] # None
      BY <2>5, EntriesKept
    <2>7. QED
      BY <2>6, ResolvableIffNext
  <1>4. QED
    BY <1>2, <1>3

(* A step of one writer leaves the bookkeeping of the others alone. *)
LEMMA WriterLocal ==
    ASSUME WritingTypeOK, NEW v \in Writer, WriterAction(v),
           NEW w \in Writer \ {v}
    PROVE  /\ wpc'[w] = wpc[w]
           /\ wdigest'[w] = wdigest[w]
           /\ wplace'[w] = wplace[w]
           /\ wtag'[w] = wtag[w]
           /\ copying'[w] = copying[w]
  <1> USE DEF WritingTypeOK, WriterTypeOK, jobVars
  <1>1. CASE \E d \in Digest, t \in Tag \cup {None}, l \in Place : Begin(v, d, t, l)
    BY <1>1 DEF Begin
  <1>2. CASE ImportTarget(v)
    BY <1>2 DEF ImportTarget
  <1>3. CASE (WriterStep(v) \/ PullCopyNoSource(v)) /\ ~ImportTarget(v)
    BY <1>3 DEF WriterStep, StreamFails, StreamDone, Rename, RenameFails, PullUnlinkStd,
         PullLink, PullLinkFails, PullCopyOpen, PullCopyNoSource, PullCopyDone,
         PullCopyFails, WriterTagCreate, WriterTagWrite, WriterTagFails
  <1>4. CASE \/ ImportRejected(v) \/ Kill(v)
             \/ \E t \in Tag, l \in Formats : PullSkip(v, t, l)
    BY <1>4 DEF ImportRejected, Kill, PullSkip
  <1>5. (\E d \in Digest, t \in Tag \cup {None} : ImportBegin(v, d, t))
           \/ (\E d \in Digest, t \in Tag, l \in Formats : PullBegin(v, d, t, l))
           => \E d \in Digest, t \in Tag \cup {None}, l \in Place : Begin(v, d, t, l)
    BY FormatsArePlaces DEF ImportBegin, PullBegin, Place
  <1>6. QED
    BY <1>1, <1>2, <1>3, <1>4, <1>5 DEF WriterAction

(* A writer keeps its job from the moment it has one. *)
LEMMA JobKept ==
    ASSUME WritingTypeOK, NEW w \in Writer, WriterAction(w), wpc[w] # "new"
    PROVE  /\ wdigest' = wdigest
           /\ wtag' = wtag
           /\ w \in Puller => wplace' = wplace
           /\ wpc'[w] # "new"
  <1> USE DEF WritingTypeOK, WriterTypeOK, jobVars
  <1>1. CASE WriterStep(w) \/ PullCopyNoSource(w)
    BY <1>1, WriterAssumption DEF WriterStep, StreamFails, StreamDone, Rename,
         RenameFails, PullUnlinkStd, ImportTarget,
         PullLink, PullLinkFails, PullCopyOpen, PullCopyNoSource, PullCopyDone,
         PullCopyFails, WriterTagCreate, WriterTagWrite, WriterTagFails
  <1>2. CASE Kill(w)
    BY <1>2 DEF Kill
  <1>3. QED
    BY <1>1, <1>2 DEF WriterAction, ImportRejected, ImportBegin, PullBegin, Begin,
                      PullSkip

LEMMA FlatPublishedStep ==
    ASSUME WritingTypeOK, FlatPublished, NEW v \in Writer, WriterAction(v)
    PROVE  FlatPublished'
  <1> USE DEF WritingTypeOK, WriterTypeOK
  <1> SUFFICES ASSUME NEW w \in Puller, wpc'[w] \in Relink
               PROVE  link'[wplace'[w]][wdigest'[w]] # None
    BY DEF FlatPublished
  <1>0. w \in Writer
    BY WriterAssumption
  <1>1. CASE v = w /\ Rename(w)
    <2>1. link' = [link EXCEPT ![wplace[w]][wdigest[w]] = Staged(w)]
             /\ wplace' = wplace /\ wdigest' = wdigest
             /\ wplace[w] \in Place /\ wdigest[w] \in Digest
      BY <1>0, <1>1 DEF Rename, LinkTo, jobVars
    <2>2. link'[wplace[w]][wdigest[w]] = Staged(w)
      BY <2>1 DEF CasTypeOK
    <2>3. QED
      BY <2>1, <2>2, <1>0, WriterInodes, LayoutAssumption
  <1>2. CASE wpc[w] \in Relink /\ wplace'[w] = wplace[w] /\ wdigest'[w] = wdigest[w]
    <2>1. PICK m \in Place, d \in Digest : m = wplace[w] /\ d = wdigest[w] /\ m # "blobs"
      BY <1>0, <1>2, FormatsArePlaces
    <2>2. HasFile(m, d)
      BY <1>2, <2>1 DEF FlatPublished
    <2>3. link'[m][d] # None
      BY <2>1, <2>2, EntriesKept
    <2>4. QED
      BY <1>2, <2>1, <2>3
  <1>3. CASE v # w
    BY <1>0, <1>2, <1>3, WriterLocal
  <1>4. CASE v = w /\ ~Rename(w)
    <2>1. wpc[w] \in Relink
      BY <1>0, <1>4 DEF WriterAction, WriterStep, ImportRejected, ImportBegin, PullSkip,
         PullBegin, Begin, StreamFails, StreamDone, ImportTarget, RenameFails,
         PullUnlinkStd, PullLink, PullCopyOpen,
         PullLinkFails, PullCopyNoSource, PullCopyDone, PullCopyFails,
         WriterTagCreate, WriterTagWrite, WriterTagFails, Kill
    <2>2. QED
      BY <1>0, <1>2, <1>4, <2>1, JobKept
  <1>5. QED
    BY <1>1, <1>3, <1>4

LEMMA TaggedResolvableStep ==
    ASSUME WritingTypeOK, FlatPublished, TaggedResolvable,
           NEW v \in Writer, WriterAction(v)
    PROVE  TaggedResolvable'
  <1> USE DEF WritingTypeOK, WriterTypeOK
  <1> SUFFICES ASSUME NEW w \in Writer, wpc'[w] \in Tagging
               PROVE  Resolvable(wdigest[w])'
    BY DEF TaggedResolvable
  <1>1. CASE wdigest'[w] = wdigest[w] /\ wdigest[w] \in Digest /\ Resolvable(wdigest[w])
    <2>1. PICK d \in Digest : d = wdigest[w]
      BY <1>1
    <2>2. Resolvable(d)'
      BY <1>1, <2>1, WriterKeepsResolvable
    <2>3. QED
      BY <1>1, <2>1, <2>2
  <1>2. CASE v # w
    <2>1. wpc[w] \in Tagging /\ wdigest'[w] = wdigest[w]
      BY <1>2, WriterLocal
    <2>2. QED
      BY <1>1, <2>1 DEF TaggedResolvable
  <1>3. CASE v = w /\ wpc[w] \in Tagging
    <2>1. wdigest' = wdigest
      BY <1>3, JobKept
    <2>2. QED
      BY <1>1, <1>3, <2>1 DEF TaggedResolvable
  <1>4. CASE v = w /\ wpc[w] \in Relink
    <2>1. wdigest' = wdigest
      BY <1>4, JobKept
    <2>2. w \in Puller /\ HasFile(wplace[w], wdigest[w]) /\ wplace[w] \in Place
      BY <1>4 DEF FlatPublished
    <2>3. Resolvable(wdigest[w])
      BY <2>2, ResolvableIff
    <2>4. QED
      BY <1>1, <1>4, <2>1, <2>3
  <1>5. CASE v = w /\ Rename(w)
    <2>1. link' = [link EXCEPT ![wplace[w]][wdigest[w]] = Staged(w)]
             /\ wplace' = wplace /\ wdigest' = wdigest
             /\ wplace[w] \in Place /\ wdigest[w] \in Digest
      BY <1>5 DEF Rename, LinkTo, jobVars
    <2>2. link'[wplace[w]][wdigest[w]] # None
      BY <2>1, WriterInodes, LayoutAssumption DEF CasTypeOK
    <2>3. QED
      BY <2>1, <2>2, ResolvableIffNext
  <1>6. v = w /\ wpc[w] \notin Tagging \cup Relink => Rename(w)
    BY DEF WriterAction, WriterStep, ImportRejected, ImportBegin, PullSkip,
         PullBegin, Begin, StreamFails, StreamDone, ImportTarget, RenameFails,
         PullUnlinkStd, PullLink, PullCopyOpen,
         PullLinkFails, PullCopyNoSource, PullCopyDone, PullCopyFails,
         WriterTagCreate, WriterTagWrite, WriterTagFails, Kill
  <1>7. QED
    BY <1>2, <1>3, <1>4, <1>5, <1>6

(* The three parts of AvailabilityInv carry each other over a step. *)
LEMMA TagsResolveStep ==
    ASSUME WritingTypeOK, AvailabilityInv, NEW v \in Writer, WriterAction(v)
    PROVE  TagsResolve'
  <1> USE DEF AvailabilityInv
  <1> SUFFICES ASSUME NEW t \in Tag, tag'[t] \in Digest
               PROVE  Resolvable(tag[t])'
    BY DEF TagsResolve
  <1>1. CASE tag'[t] = tag[t]
    <2>1. PICK d \in Digest : d = tag[t]
      BY <1>1
    <2>2. Resolvable(d)'
      BY <1>1, <2>1, WriterKeepsResolvable DEF TagsResolve
    <2>3. QED
      BY <1>1, <2>1, <2>2
  <1>2. CASE WriterTagWrite(v) /\ tag'[t] # tag[t]
    <2>1. tag'[t] = wdigest[v] /\ wpc[v] \in Tagging /\ link' = link
      BY <1>2 DEF WriterTagWrite, TagWrite, WritingTypeOK, TagTypeOK, casVars
    <2>2. Resolvable(wdigest[v]) /\ wdigest[v] \in Digest
      BY <2>1 DEF TaggedResolvable, WritingTypeOK, WriterTypeOK
    <2>3. PICK d \in Digest : d = wdigest[v]
      BY <2>2
    <2>4. Resolvable(d)'
      BY <2>2, <2>3, WriterKeepsResolvable
    <2>5. QED
      BY <2>1, <2>3, <2>4
  <1>3. CASE WriterTagCreate(v) /\ tag'[t] # tag[t]
    BY <1>3, TagAssumption DEF WriterTagCreate, TagCreate, WritingTypeOK, TagTypeOK
  <1>4. WriterTagWrite(v) \/ WriterTagCreate(v) \/ tag' = tag
    BY DEF WriterAction, WriterStep, ImportRejected, ImportBegin, PullSkip,
         PullBegin, Begin, StreamFails, StreamDone, ImportTarget, Rename, RenameFails,
         PullUnlinkStd, PullLink, PullCopyOpen,
         PullLinkFails, PullCopyNoSource, PullCopyDone, PullCopyFails,
         WriterTagFails, Kill
  <1>5. QED
    BY <1>1, <1>2, <1>3, <1>4

LEMMA AvailabilityStep ==
    ASSUME WritingTypeOK, AvailabilityInv, [WritersNext]_writingVars
    PROVE  AvailabilityInv'
  <1>1. CASE WritersNext
    <2>1. PICK v \in Writer : WriterAction(v)
      BY <1>1 DEF WritersNext, WriterAction
    <2>2. QED
      BY <2>1, FlatPublishedStep, TaggedResolvableStep, TagsResolveStep
         DEF AvailabilityInv
  <1>2. CASE UNCHANGED writingVars
    <2>1. UNCHANGED <<link, tag, wpc, wdigest, wplace>>
      BY <1>2 DEF writingVars, casVars, writerVars
    <2>2. FlatPublished'
      BY <2>1 DEF AvailabilityInv, FlatPublished
    <2>3. \A d : Resolvable(d)' <=> Resolvable(d)
      BY <2>1, ResolvableIff, ResolvableIffNext
    <2>4. TaggedResolvable' /\ TagsResolve'
      BY <2>1 DEF AvailabilityInv, TaggedResolvable, TagsResolve, Resolvable, BlobPlace
    <2>5. QED
      BY <2>2, <2>4 DEF AvailabilityInv
  <1>3. QED
    BY <1>1, <1>2

LEMMA AvailabilityInit == WritingInit => AvailabilityInv
  <1>1. WritingInit => FlatPublished /\ TaggedResolvable
    BY WriterAssumption DEF WritingInit, WriterInit, FlatPublished, TaggedResolvable
  <1>2. WritingInit => TagsResolve
    BY LayoutAssumption DEF WritingInit, TagInit, TagsResolve
  <1>3. QED
    BY <1>1, <1>2 DEF AvailabilityInv

LEMMA AvailabilityInvariant == WritingSpec => []AvailabilityInv
  BY AvailabilityInit, AvailabilityStep, WritingTypeCorrect, PTL DEF WritingSpec

(* While nothing is pruned, a tag that can be read names a blob that can   *)
(* be found, for any number of imports and pulls, failing or killed.       *)
THEOREM TagsAlwaysResolve == WritingSpec => []TagsResolve
  <1>1. AvailabilityInv => TagsResolve
    BY DEF AvailabilityInv
  <1>2. QED
    BY <1>1, AvailabilityInvariant, PTL

(* Replacing the files of a stored digest leaves no moment at which it     *)
(* cannot be found.                                                        *)
THEOREM BlobsStayAvailable == WritingSpec => StaysAvailable
  <1>1. WritingTypeOK /\ AvailabilityInv /\ [WritersNext]_writingVars =>
           [\A d \in Digest : Resolvable(d) => Resolvable(d)']_writingVars
    <2> SUFFICES ASSUME WritingTypeOK, AvailabilityInv, WritersNext,
                        NEW d \in Digest, Resolvable(d)
                 PROVE  Resolvable(d)'
      OBVIOUS
    <2>1. PICK v \in Writer : WriterAction(v)
      BY DEF WritersNext, WriterAction
    <2>2. QED
      BY <2>1, WriterKeepsResolvable DEF AvailabilityInv
  <1>2. QED
    BY <1>1, WritingTypeCorrect, AvailabilityInvariant, PTL
       DEF WritingSpec, StaysAvailable
-----------------------------------------------------------------------------
(* Integrity: every inode belongs to one digest (Of), so only writers of a *)
(* digest touch its files, and a pull that is alone on its digest never    *)
(* opens a published file for writing (LonePullLinks).                     *)

(* The actions that write into an inode, and those that bring a writer     *)
(* past its rename. *)
LEMMA DataChange ==
    ASSUME NEW v \in Writer, WriterAction(v)
    PROVE  data' = data \/ StreamDone(v) \/ PullCopyOpen(v) \/ PullCopyDone(v)
  BY DEF WriterAction, WriterStep, ImportRejected, ImportBegin, PullSkip,
         PullBegin, Begin, StreamFails, ImportTarget, Rename, RenameFails,
         PullUnlinkStd, PullLink, PullLinkFails, PullCopyNoSource, PullCopyFails,
         WriterTagCreate, WriterTagWrite, WriterTagFails, Kill, casVars

(* Staged, once left, is left for good. *)
LEMMA RenamedStays ==
    ASSUME WritingTypeOK, NEW v \in Writer, WriterAction(v), NEW w \in Writer,
           wpc[w] \notin BeforeRename
    PROVE  wpc'[w] \notin BeforeRename
  <1>1. CASE v # w
    BY <1>1, WriterLocal
  <1>2. CASE v = w
    BY <1>2 DEF WriterAction, WriterStep, ImportRejected, ImportBegin, PullSkip,
         PullBegin, Begin, StreamFails, StreamDone, ImportTarget, Rename, RenameFails,
         PullUnlinkStd, PullLink, PullLinkFails, PullCopyOpen, PullCopyNoSource,
         PullCopyDone, PullCopyFails, WriterTagCreate, WriterTagWrite,
         WriterTagFails, Kill, WritingTypeOK, WriterTypeOK
  <1>3. QED
    BY <1>1, <1>2

(* A writer that has a digest keeps it. *)
LEMMA DigestKept ==
    ASSUME WritingTypeOK, NEW v \in Writer, WriterAction(v), NEW w \in Writer,
           wdigest[w] \in Digest
    PROVE  wdigest'[w] = wdigest[w]
  <1>1. CASE v # w
    BY <1>1, WriterLocal
  <1>2. CASE v = w
    <2>1. wpc[w] # "new"
      BY LayoutAssumption DEF WritingTypeOK, WriterTypeOK
    <2>2. QED
      BY <1>2, <2>1, JobKept
  <1>3. QED
    BY <1>1, <1>2

LEMMA RacingStays ==
    ASSUME WritingTypeOK, NEW v \in Writer, WriterAction(v), NEW d \in Digest, Racing(d)
    PROVE  Racing(d)'
  BY DigestKept, WriterAssumption DEF Racing

LEMMA OfStays ==
    ASSUME WritingTypeOK, NEW v \in Writer, WriterAction(v), NEW d \in Digest,
           NEW i, Of(i, d)
    PROVE  Of(i, d)'
  BY DigestKept DEF Of

LEMMA NotStagedStays ==
    ASSUME WritingTypeOK, NEW v \in Writer, WriterAction(v), NEW i, NotStaged(i)
    PROVE  NotStaged(i)'
  BY RenamedStays DEF NotStaged

(* No inode belongs to two digests. *)
LEMMA OfIsUnique ==
    ASSUME NEW i, NEW d \in Digest, NEW e \in Digest, Of(i, d), Of(i, e)
    PROVE  d = e
  BY LayoutAssumption DEF Of

(* The file a fs::copy opens for writing belongs to the pull's digest. *)
LEMMA CopyTargetOwned ==
    ASSUME PublishedOwned, NEW v \in Writer, wdigest[v] \in Digest
    PROVE  Of(CopyTarget(v), wdigest[v]) /\ NotStaged(CopyTarget(v))
  <1>1. CASE HasFile("blobs", wdigest[v])
    BY <1>1 DEF CopyTarget, PublishedOwned, Place
  <1>2. CASE ~HasFile("blobs", wdigest[v])
    BY <1>2 DEF CopyTarget, Copied, Staged, Of, NotStaged
  <1>3. QED
    BY <1>1, <1>2

LEMMA PublishedOwnedStep ==
    ASSUME WritingTypeOK, PublishedOwned, NEW v \in Writer, WriterAction(v)
    PROVE  PublishedOwned'
  <1> SUFFICES ASSUME NEW l \in Place, NEW d \in Digest, link'[l][d] # None
               PROVE  Of(link[l][d], d)' /\ NotStaged(link[l][d])'
    BY DEF PublishedOwned
  <1> DEFINE i == link'[l][d]
  <1>1. (Of(i, d) /\ NotStaged(i)) => Of(link[l][d], d)' /\ NotStaged(link[l][d])'
    BY OfStays, NotStagedStays DEF Of, NotStaged
  <1>2. CASE link'[l][d] = link[l][d]
    BY <1>1, <1>2 DEF PublishedOwned
  <1>3. CASE Rename(v) /\ link'[l][d] # link[l][d]
    <2>1. i = Staged(v) /\ d = wdigest[v] /\ wdigest' = wdigest
      BY <1>3 DEF Rename, LinkTo, jobVars, WritingTypeOK, CasTypeOK
    <2>2. wpc'[v] \notin BeforeRename
      BY <1>3 DEF Rename, WritingTypeOK, WriterTypeOK
    <2>3. \A w \in Writer : Staged(v) = Staged(w) => v = w
      BY DEF Staged
    <2>4. QED
      BY <2>1, <2>2, <2>3 DEF Of, NotStaged, Staged
  <1>4. CASE PullLink(v) /\ link'[l][d] # link[l][d]
    <2>1. d = wdigest[v] /\ i = link[wplace[v]][d] /\ wplace[v] \in Place
             /\ HasFile(wplace[v], d)
      BY <1>4 DEF PullLink, CanLink, LinkTo, WritingTypeOK, CasTypeOK, WriterTypeOK
    <2>2. QED
      BY <1>1, <2>1 DEF PublishedOwned
  <1>5. CASE PullCopyOpen(v) /\ link'[l][d] # link[l][d]
    <2>1. d = wdigest[v] /\ i = CopyTarget(v)
      BY <1>5 DEF PullCopyOpen, LinkTo, WritingTypeOK, CasTypeOK
    <2>2. QED
      BY <1>1, <2>1, CopyTargetOwned
  <1>6. CASE PullUnlinkStd(v) /\ link'[l][d] # link[l][d]
    BY <1>6 DEF PullUnlinkStd, Unlink, WritingTypeOK, CasTypeOK
  <1>7. QED
    BY <1>2, <1>3, <1>4, <1>5, <1>6, WriterEntries

LEMMA CopyOwnedStep ==
    ASSUME WritingTypeOK, PublishedOwned, CopyOwned, NEW v \in Writer, WriterAction(v)
    PROVE  CopyOwned'
  <1> SUFFICES ASSUME NEW w \in Writer, wpc'[w] = "copying"
               PROVE  Of(copying[w][2], wdigest[w])' /\ NotStaged(copying[w][2])'
    BY DEF CopyOwned
  <1>1. ASSUME wdigest[w] \in Digest, wdigest'[w] = wdigest[w],
               Of(copying'[w][2], wdigest[w]), NotStaged(copying'[w][2])
        PROVE  Of(copying[w][2], wdigest[w])' /\ NotStaged(copying[w][2])'
    BY <1>1, OfStays, NotStagedStays DEF Of, NotStaged
  <1>2. CASE v # w
    <2>1. wpc[w] = "copying" /\ copying'[w] = copying[w] /\ wdigest'[w] = wdigest[w]
      BY <1>2, WriterLocal
    <2>2. wdigest[w] \in Digest
      BY <2>1 DEF WritingTypeOK, WriterTypeOK
    <2>3. QED
      BY <1>1, <2>1, <2>2 DEF CopyOwned
  <1>3. CASE v = w
    <2>1. PullCopyOpen(w)
      BY <1>3 DEF WriterAction, WriterStep, ImportRejected, ImportBegin, PullSkip,
         PullBegin, Begin, StreamFails, StreamDone, ImportTarget, Rename, RenameFails,
         PullUnlinkStd, PullLink, PullLinkFails, PullCopyNoSource,
         PullCopyDone, PullCopyFails, WriterTagCreate, WriterTagWrite,
         WriterTagFails, Kill, WritingTypeOK, WriterTypeOK
    <2>2. copying'[w][2] = CopyTarget(w) /\ wdigest' = wdigest /\ wdigest[w] \in Digest
      BY <2>1 DEF PullCopyOpen, jobVars, WritingTypeOK, WriterTypeOK
    <2>3. QED
      BY <1>1, <2>2, CopyTargetOwned
  <1>4. QED
    BY <1>2, <1>3

(* What a step of v writes into, it owns and no other writer has staged. *)
LEMMA WriteOwned ==
    ASSUME WritingTypeOK, PublishedOwned, CopyOwned,
           NEW v \in Writer, WriterAction(v), NEW i \in Inode, data'[i] # data[i]
    PROVE  /\ wdigest[v] \in Digest
           /\ Of(i, wdigest[v])
           /\ \/ i = Staged(v) /\ StreamDone(v)
              \/ NotStaged(i) /\ (PullCopyOpen(v) \/ PullCopyDone(v))
  <1> USE DEF WritingTypeOK, CasTypeOK, WriterTypeOK
  <1>1. CASE StreamDone(v)
    <2>1. i = Staged(v) /\ wdigest[v] \in Digest
      BY <1>1 DEF StreamDone
    <2>2. QED
      BY <1>1, <2>1 DEF Of, Staged
  <1>2. CASE PullCopyOpen(v)
    <2>1. i = CopyTarget(v) /\ wdigest[v] \in Digest
      BY <1>2 DEF PullCopyOpen
    <2>2. QED
      BY <1>2, <2>1, CopyTargetOwned
  <1>3. CASE PullCopyDone(v)
    <2>1. i = copying[v][2] /\ wpc[v] = "copying" /\ wdigest[v] \in Digest
      BY <1>3 DEF PullCopyDone
    <2>2. QED
      BY <1>3, <2>1 DEF CopyOwned
  <1>4. QED
    BY <1>1, <1>2, <1>3, DataChange

LEMMA StagedWholeStep ==
    ASSUME WritingTypeOK, PublishedOwned, CopyOwned, StagedWhole,
           NEW v \in Writer, WriterAction(v)
    PROVE  StagedWhole'
  <1> SUFFICES ASSUME NEW w \in Writer, wpc'[w] \in {"target", "rename"}
               PROVE  data'[Staged(w)] = wdigest'[w]
    BY DEF StagedWhole, Staged
  <1>1. CASE StreamDone(v) /\ v = w
    BY <1>1, WriterInodes DEF StreamDone, jobVars, WritingTypeOK, CasTypeOK
  <1>2. CASE ~(StreamDone(v) /\ v = w)
    <2>1. wpc[w] \in {"target", "rename"} /\ wdigest'[w] = wdigest[w]
      <3>1. CASE v # w
        BY <3>1, WriterLocal
      <3>2. CASE v = w
        <4>1. wpc[w] \in {"target", "rename"}
          BY <1>2, <3>2 DEF WriterAction, WriterStep, ImportRejected, ImportBegin,
             PullSkip, PullBegin, Begin, StreamFails, ImportTarget, Rename,
             RenameFails, PullUnlinkStd, PullLink, PullLinkFails, PullCopyOpen,
             PullCopyNoSource, PullCopyDone, PullCopyFails, WriterTagCreate,
             WriterTagWrite, WriterTagFails, Kill, WritingTypeOK, WriterTypeOK
        <4>2. QED
          BY <3>2, <4>1, JobKept
      <3>3. QED
        BY <3>1, <3>2
    <2>2. data'[Staged(w)] = data[Staged(w)]
      <3> SUFFICES ASSUME data'[Staged(w)] # data[Staged(w)]
                   PROVE  FALSE
        OBVIOUS
      <3>1. \/ Staged(w) = Staged(v) /\ StreamDone(v)
            \/ NotStaged(Staged(w))
        BY WriteOwned, WriterInodes
      <3>2. ~NotStaged(Staged(w))
        BY <2>1 DEF NotStaged
      <3>3. Staged(w) = Staged(v) => w = v
        BY DEF Staged
      <3>4. QED
        BY <1>2, <3>1, <3>2, <3>3
    <2>3. QED
      BY <2>1, <2>2 DEF StagedWhole
  <1>3. QED
    BY <1>1, <1>2

(* Two writers of one digest, one of them a pull, are racing. *)
LEMMA LoneWriter ==
    ASSUME NEW w \in Puller, NEW v \in Writer, wdigest[v] = wdigest[w],
           ~Racing(wdigest[w])
    PROVE  v = w
  BY DEF Racing

LEMMA LonePullLinksStep ==
    ASSUME WritingTypeOK, LonePullLinks, NEW v \in Writer, WriterAction(v)
    PROVE  LonePullLinks'
  <1> USE DEF WritingTypeOK, WriterTypeOK
  <1> SUFFICES ASSUME NEW w \in Puller, HardLinks, ~Racing(wdigest[w])',
                      wpc'[w] \in {"link", "copy", "copying"}
               PROVE  /\ wpc'[w] = "link" => link'["blobs"][wdigest'[w]] = None
                      /\ wpc'[w] = "copy" => link'[wplace'[w]][wdigest'[w]] = None
                      /\ wpc'[w] # "copying"
    BY DEF LonePullLinks
  <1>0. w \in Writer
    BY WriterAssumption
  <1>1. CASE v # w
    <2>1. /\ wpc'[w] = wpc[w] /\ wdigest'[w] = wdigest[w] /\ wplace'[w] = wplace[w]
          /\ wdigest[w] \in Digest /\ wplace[w] \in Place
      BY <1>0, <1>1, WriterLocal
    <2>2. ~Racing(wdigest[w])
      <3>1. PICK d \in Digest : d = wdigest[w]
        BY <2>1
      <3>2. ~Racing(d)'
        BY <2>1, <3>1 DEF Racing
      <3>3. QED
        BY <3>1, <3>2, RacingStays
    <2>3. wdigest[v] # wdigest[w]
      BY <1>1, <2>2, LoneWriter
    <2>4. \A l \in Place : link'[l][wdigest[w]] = link[l][wdigest[w]]
      <3>1. CASE wdigest[v] \in Digest /\ \E l \in Place, i \in Inode :
                    link' = [link EXCEPT ![l][wdigest[v]] = i]
        BY <2>1, <2>3, <3>1 DEF CasTypeOK
      <3>2. CASE link' = [link EXCEPT !["blobs"][wdigest[v]] = None]
        BY <2>1, <2>3, <3>2 DEF CasTypeOK
      <3>3. QED
        BY <3>1, <3>2, WriterEntries
    <2>5. QED
      BY <1>0, <2>1, <2>2, <2>4 DEF LonePullLinks, Place
  <1>2. CASE v = w /\ PullUnlinkStd(w)
    BY <1>0, <1>2 DEF PullUnlinkStd, Unlink, CasTypeOK, Place, jobVars
  <1>3. CASE v = w /\ PullLinkFails(w)
    <2>1. ~Racing(wdigest[w]) /\ wpc[w] = "link"
      BY <1>3 DEF PullLinkFails, Racing, jobVars
    <2>2. QED
      BY <1>0, <1>3, <2>1 DEF PullLinkFails, CanLink, LonePullLinks, jobVars, casVars
  <1>4. CASE v = w /\ PullCopyOpen(w)
    <2>1. ~Racing(wdigest[w]) /\ wpc[w] = "copy" /\ HasFile(wplace[w], wdigest[w])
      BY <1>4 DEF PullCopyOpen, Racing, jobVars
    <2>2. QED
      BY <2>1 DEF LonePullLinks
  <1>5. CASE v = w /\ ~(PullUnlinkStd(w) \/ PullLinkFails(w) \/ PullCopyOpen(w))
    BY <1>0, <1>5 DEF WriterAction, WriterStep, ImportRejected, ImportBegin,
             PullSkip, PullBegin, Begin, StreamFails, StreamDone, ImportTarget, Rename,
             RenameFails, PullLink,
             PullCopyNoSource, PullCopyDone, PullCopyFails, WriterTagCreate,
             WriterTagWrite, WriterTagFails, Kill
  <1>6. QED
    BY <1>1, <1>2, <1>3, <1>4, <1>5

LEMMA TornNeedsRaceStep ==
    ASSUME WritingTypeOK, IntegrityInv, NEW v \in Writer, WriterAction(v)
    PROVE  TornNeedsRace'
  <1> USE DEF IntegrityInv
  <1> SUFFICES ASSUME NEW l \in Place, NEW d \in Digest, HardLinks,
                      link'[l][d] # None, ~Racing(d)'
               PROVE  data'[link'[l][d]] = d
    BY DEF TornNeedsRace
  <1>1. ~Racing(d)
    BY RacingStays
  <1>2. ~((PullCopyOpen(v) \/ PullCopyDone(v)) /\ wdigest[v] = d)
    BY <1>1 DEF PullCopyOpen, PullCopyDone, LonePullLinks, WritingTypeOK, WriterTypeOK
  <1>3. ASSUME NEW i \in Inode, Of(i, d), data[i] = d,
               NotStaged(i) \/ ~StreamDone(v)
        PROVE  data'[i] = d
    <2> SUFFICES ASSUME data'[i] # data[i]
                 PROVE  FALSE
      BY <1>3
    <2>1. wdigest[v] = d
      BY <1>3, WriteOwned, OfIsUnique
    <2>2. i = Staged(v) /\ StreamDone(v)
      BY <1>2, <2>1, WriteOwned
    <2>3. ~NotStaged(i)
      BY <2>2 DEF NotStaged, StreamDone
    <2>4. QED
      BY <1>3, <2>2, <2>3
  <1>4. CASE link'[l][d] = link[l][d]
    BY <1>1, <1>3, <1>4 DEF TornNeedsRace, PublishedOwned, WritingTypeOK, CasTypeOK
  <1>5. CASE Rename(v) /\ link'[l][d] # link[l][d]
    <2>1. link'[l][d] = Staged(v) /\ d = wdigest[v] /\ data' = data
             /\ wpc[v] = "rename"
      BY <1>5 DEF Rename, LinkTo, WritingTypeOK, CasTypeOK
    <2>2. QED
      BY <2>1 DEF StagedWhole
  <1>6. CASE PullLink(v) /\ link'[l][d] # link[l][d]
    <2>1. d = wdigest[v] /\ link'[l][d] = link[wplace[v]][d] /\ wplace[v] \in Place
             /\ HasFile(wplace[v], d) /\ data' = data
      BY <1>6 DEF PullLink, CanLink, LinkTo, WritingTypeOK, CasTypeOK, WriterTypeOK
    <2>2. QED
      BY <1>1, <2>1 DEF TornNeedsRace
  <1>7. CASE PullCopyOpen(v) /\ link'[l][d] # link[l][d]
    BY <1>2, <1>7 DEF PullCopyOpen, LinkTo, WritingTypeOK, CasTypeOK
  <1>8. CASE PullUnlinkStd(v) /\ link'[l][d] # link[l][d]
    BY <1>8 DEF PullUnlinkStd, Unlink, WritingTypeOK, CasTypeOK
  <1>9. QED
    BY <1>4, <1>5, <1>6, <1>7, <1>8, WriterEntries

(* One writer's step keeps the whole integrity invariant. *)
LEMMA WriterKeepsIntegrity ==
    ASSUME WritingTypeOK, IntegrityInv, NEW v \in Writer, WriterAction(v)
    PROVE  IntegrityInv'
  BY PublishedOwnedStep, CopyOwnedStep, StagedWholeStep, LonePullLinksStep,
     TornNeedsRaceStep DEF IntegrityInv

LEMMA IntegrityStep ==
    ASSUME WritingTypeOK, IntegrityInv, [WritersNext]_writingVars
    PROVE  IntegrityInv'
  <1>1. CASE WritersNext
    BY <1>1, WriterKeepsIntegrity DEF WritersNext, WriterAction
  <1>2. CASE UNCHANGED writingVars
    BY <1>2 DEF writingVars, casVars, writerVars, IntegrityInv, PublishedOwned,
       CopyOwned, StagedWhole, LonePullLinks, TornNeedsRace, Of, NotStaged, Racing
  <1>3. QED
    BY <1>1, <1>2

LEMMA IntegrityInit == WritingInit => IntegrityInv
  <1> SUFFICES ASSUME WritingInit
               PROVE  IntegrityInv
    OBVIOUS
  <1>1. CopyOwned /\ StagedWhole /\ LonePullLinks
    BY WriterAssumption DEF WritingInit, WriterInit, CopyOwned, StagedWhole, LonePullLinks
  <1>2. \A l \in Place, d \in Digest :
           HasFile(l, d) => link[l][d] = <<d, "staged">> /\ data[<<d, "staged">>] = d
    BY DEF WritingInit, CasInit, Inode
  <1>3. ASSUME NEW d \in Digest
        PROVE  Of(<<d, "staged">>, d) /\ NotStaged(<<d, "staged">>)
    <2>1. \A w \in Writer : <<d, "staged">> # Staged(w)
      BY LayoutAssumption DEF Staged
    <2>2. QED
      BY <2>1 DEF Of, NotStaged
  <1>4. PublishedOwned
    BY <1>2, <1>3 DEF PublishedOwned
  <1>5. TornNeedsRace
    BY <1>2 DEF TornNeedsRace
  <1>6. QED
    BY <1>1, <1>4, <1>5 DEF IntegrityInv

(* For any number of imports and pulls, failing or killed: where hard      *)
(* links work, a path names something else than its whole blob only for a  *)
(* digest that a pull and another writer commit both.                      *)
THEOREM OnlyRacesTear == WritingSpec => []TornNeedsRace
  <1>1. IntegrityInv => TornNeedsRace
    BY DEF IntegrityInv
  <1>2. QED
    BY <1>1, IntegrityInit, IntegrityStep, WritingTypeCorrect, PTL DEF WritingSpec
-----------------------------------------------------------------------------
(* Blank tags.                                                             *)

(* Who changes a tag file, and to what. *)
LEMMA TagChange ==
    ASSUME WritingTypeOK, NEW v \in Writer, WriterAction(v), NEW t \in Tag, tag'[t] # tag[t]
    PROVE  /\ wtag[v] = t /\ wpc[v] \in Tagging /\ wtag' = wtag
           /\ \/ tag'[t] = Blank /\ wpc'[v] = "tag_write"
              \/ tag'[t] \in Digest
  <1> USE DEF WritingTypeOK, TagTypeOK, WriterTypeOK
  <1>1. WriterTagCreate(v) \/ WriterTagWrite(v)
    BY DEF WriterAction, WriterStep, ImportRejected, ImportBegin, PullSkip,
           PullBegin, Begin, StreamFails, StreamDone, ImportTarget, Rename, RenameFails,
           PullUnlinkStd, PullLink, PullLinkFails, PullCopyOpen, PullCopyNoSource,
           PullCopyDone, PullCopyFails, WriterTagFails, Kill
  <1>2. CASE WriterTagCreate(v)
    BY <1>2 DEF WriterTagCreate, TagCreate, jobVars
  <1>3. CASE WriterTagWrite(v)
    BY <1>3 DEF WriterTagWrite, TagWrite, jobVars
  <1>4. QED
    BY <1>1, <1>2, <1>3

(* A writer that truncated a tag file leaves the file blank only by         *)
(* stopping.                                                                *)
LEMMA TagWriterStep ==
    ASSUME WritingTypeOK, NEW v \in Writer, WriterAction(v), NEW w \in Writer,
           wtag[w] \in Tag, wpc[w] \in {"tag_write", "failed", "killed"},
           tag'[wtag[w]] = Blank
    PROVE  wtag'[w] = wtag[w] /\ wpc'[w] \in {"tag_write", "failed", "killed"}
  <1> USE DEF WritingTypeOK, TagTypeOK, WriterTypeOK
  <1>1. CASE v # w
    BY <1>1, WriterLocal
  <1>2. CASE v = w
    <2>1. wtag' = wtag
      BY <1>2, JobKept
    <2>2. ~WriterTagWrite(w)
      BY TagAssumption DEF WriterTagWrite, TagWrite
    <2>3. wpc'[w] \in {"tag_write", "failed", "killed"}
      BY <1>2, <2>2 DEF WriterAction, WriterStep, ImportRejected, ImportBegin, PullSkip,
           PullBegin, Begin, StreamFails, StreamDone, ImportTarget, Rename, RenameFails,
           PullUnlinkStd, PullLink, PullLinkFails, PullCopyOpen, PullCopyNoSource,
           PullCopyDone, PullCopyFails, WriterTagCreate, WriterTagFails, Kill
    <2>4. QED
      BY <2>1, <2>3
  <1>3. QED
    BY <1>1, <1>2

(* One writer's step keeps the property, also beside others that remove     *)
(* files.                                                                   *)
LEMMA BlankTagStep ==
    ASSUME WritingTypeOK, BlankTagHasWriter, NEW v \in Writer, WriterAction(v)
    PROVE  BlankTagHasWriter'
  <1> SUFFICES ASSUME NEW t \in Tag, tag'[t] = Blank
               PROVE  \E w \in Writer : wtag'[w] = t /\ wpc'[w] \in {"tag_write", "failed", "killed"}
    BY DEF BlankTagHasWriter
  <1>1. CASE tag'[t] = tag[t]
    <2>1. PICK w \in Writer : wtag[w] = t /\ wpc[w] \in {"tag_write", "failed", "killed"}
      BY <1>1 DEF BlankTagHasWriter
    <2>2. QED
      BY <2>1, TagWriterStep
  <1>2. CASE tag'[t] # tag[t]
    BY <1>2, TagChange, TagAssumption
  <1>3. QED
    BY <1>1, <1>2
-----------------------------------------------------------------------------

USE DEF Removing

(* A step of the store is one of the daemon or one of a single writer. *)
LEMMA StoreSteps ==
    ASSUME StoreNext
    PROVE  \/ EvictNext /\ UNCHANGED <<tag, writerVars>>
           \/ \E w \in Writer : WriterAction(w) /\ UNCHANGED evictVars
  BY DEF StoreNext, WritersNext, WriterAction

LEMMA StoreStepType ==
    ASSUME StoreTypeOK, [StoreNext]_storeVars
    PROVE  StoreTypeOK'
  <1> USE DEF StoreTypeOK
  <1>1. CASE EvictNext /\ UNCHANGED <<tag, writerVars>>
    <2>1. CasTypeOK' /\ EvictTypeOK'
      BY <1>1, EvictNextType DEF EvictionTypeOK
    <2>2. TagTypeOK' /\ WriterTypeOK'
      BY <1>1 DEF TagTypeOK, WriterTypeOK, writerVars
    <2>3. QED
      BY <2>1, <2>2
  <1>2. CASE \E w \in Writer : WriterAction(w) /\ UNCHANGED evictVars
    <2>1. WritingTypeOK'
      BY <1>2, WriterActionType DEF WritingTypeOK
    <2>2. EvictTypeOK'
      BY <1>2 DEF EvictTypeOK, evictVars
    <2>3. QED
      BY <2>1, <2>2 DEF WritingTypeOK
  <1>3. CASE UNCHANGED storeVars
    <2>1. UNCHANGED <<casVars, tag, writerVars>> /\ UNCHANGED evictVars
      BY <1>3 DEF storeVars
    <2>2. WritingTypeOK'
      BY <2>1, WritersNextType DEF WritingTypeOK, writingVars
    <2>3. EvictTypeOK'
      BY <2>1 DEF EvictTypeOK, evictVars
    <2>4. QED
      BY <2>2, <2>3 DEF WritingTypeOK
  <1>4. QED
    BY <1>1, <1>2, <1>3, StoreSteps

LEMMA StoreInitType == StoreInit => StoreTypeOK
  <1>1. StoreInit => WritingTypeOK
    BY WritingInitType DEF StoreInit
  <1>2. StoreInit => EvictTypeOK
    BY EvictInitType DEF StoreInit
  <1>3. QED
    BY <1>1, <1>2 DEF StoreTypeOK, WritingTypeOK

(* Type correctness of the whole storage root. *)
THEOREM StoreTypeCorrect == StoreSpec => []StoreTypeOK
  BY StoreInitType, StoreStepType, PTL DEF StoreSpec
-----------------------------------------------------------------------------
LEMMA EvictionKeepsIntegrity ==
    ASSUME StoreTypeOK, IntegrityInv, EvictNext, UNCHANGED <<tag, writerVars>>
    PROVE  IntegrityInv'
  <1> USE DEF IntegrityInv, writerVars
  <1>1. data' = data
    BY EvictionOnlyRemoves DEF StoreTypeOK
  <1>2. \A l \in Place, d \in Digest : HasFile(l, d)' =>
           HasFile(l, d) /\ link'[l][d] = link[l][d]
    BY EvictionOnlyRemoves DEF StoreTypeOK
  <1>3. PublishedOwned'
    BY <1>2 DEF PublishedOwned, Of, NotStaged
  <1>4. CopyOwned'
    BY DEF CopyOwned, Of, NotStaged
  <1>5. StagedWhole'
    BY <1>1 DEF StagedWhole
  <1>6. LonePullLinks'
    <2> SUFFICES ASSUME NEW w \in Puller, HardLinks, ~Racing(wdigest[w])',
                        wpc[w] \in {"link", "copy", "copying"}
                 PROVE  /\ wpc[w] = "link" => link'["blobs"][wdigest[w]] = None
                        /\ wpc[w] = "copy" => link'[wplace[w]][wdigest[w]] = None
                        /\ wpc[w] # "copying"
      BY DEF LonePullLinks
    <2>1. ~Racing(wdigest[w])
      BY DEF Racing
    <2>2. wdigest[w] \in Digest /\ wplace[w] \in Place
      BY WriterAssumption DEF StoreTypeOK, WriterTypeOK
    <2>3. QED
      BY <1>2, <2>1, <2>2 DEF LonePullLinks, Place
  <1>7. TornNeedsRace'
    BY <1>1, <1>2 DEF TornNeedsRace, Racing
  <1>8. QED
    BY <1>3, <1>4, <1>5, <1>6, <1>7

(* Every step of the store keeps the files whole. *)
LEMMA StoreKeepsIntegrity ==
    ASSUME StoreTypeOK, IntegrityInv, [StoreNext]_storeVars
    PROVE  IntegrityInv'
  <1>1. CASE EvictNext /\ UNCHANGED <<tag, writerVars>>
    BY <1>1, EvictionKeepsIntegrity
  <1>2. CASE \E w \in Writer : WriterAction(w)
    BY <1>2, WriterKeepsIntegrity DEF StoreTypeOK, WritingTypeOK
  <1>3. CASE UNCHANGED storeVars
    BY <1>3, IntegrityStep DEF StoreTypeOK, WritingTypeOK, storeVars, writingVars
  <1>4. QED
    BY <1>1, <1>2, <1>3, StoreSteps

LEMMA StoreInitIntegrity == StoreInit => IntegrityInv
  BY IntegrityInit DEF StoreInit

(* Removing blobs under the writers' feet does not tear any: TornNeedsRace *)
(* holds of the whole store, with Prune running beside the writers.        *)
THEOREM StoreOnlyRacesTear == StoreSpec => []TornNeedsRace
  <1>1. IntegrityInv => TornNeedsRace
    BY DEF IntegrityInv
  <1>2. QED
    BY <1>1, StoreInitIntegrity, StoreKeepsIntegrity, StoreTypeCorrect, PTL DEF StoreSpec
-----------------------------------------------------------------------------
(* The pin promise with writers around: a digest that is pinned while no   *)
(* Prune is past its check is picked by none, and becomes unreachable only *)
(* through a pull of the same digest that removes the standard path.       *)
THEOREM OnlyPullsLosePins == StoreSpec => PinLossNeedsPull
  <1>1. StoreTypeOK /\ [StoreNext]_storeVars =>
          [\A d \in SafePins \cap pinned' :
              /\ d \in SafePins'
              /\ Resolvable(d) /\ ~Resolvable(d)' => Relinking(d)]_storeVars
    <2> SUFFICES ASSUME StoreTypeOK, StoreNext, NEW d \in SafePins, d \in pinned'
                 PROVE  /\ d \in SafePins'
                        /\ Resolvable(d) /\ ~Resolvable(d)' => Relinking(d)
      OBVIOUS
    <2>0. d \in Digest
      BY DEF SafePins, StoreTypeOK, EvictTypeOK
    <2>1. CASE EvictNext
      BY <2>1, EvictNextKeepsPins DEF PinKept, StoreTypeOK
    <2>2. ASSUME NEW v \in Writer, WriterAction(v), UNCHANGED evictVars
          PROVE  /\ d \in SafePins'
                 /\ Resolvable(d) /\ ~Resolvable(d)' => Relinking(d)
      <3>1. d \in SafePins'
        BY <2>2 DEF SafePins, PastCheck, evictVars
      <3>2. ASSUME Resolvable(d), ~Resolvable(d)' PROVE Relinking(d)
        <4>1. PICK l \in Place : HasFile(l, d)
          BY <3>2, ResolvableIff
        <4>2. ~HasFile(l, d)'
          BY <3>2, ResolvableIffNext
        <4>3. PullUnlinkStd(v) /\ d = wdigest[v]
          BY <2>0, <2>2, <4>1, <4>2, EntriesKept DEF StoreTypeOK, WritingTypeOK
        <4>4. v \in Puller
          BY <4>3 DEF PullUnlinkStd, StoreTypeOK, WriterTypeOK
        <4>5. QED
          BY <4>3, <4>4 DEF Relinking, PullUnlinkStd
      <3>3. QED
        BY <3>1, <3>2
    <2>3. QED
      BY <2>1, <2>2, StoreSteps
  <1>2. QED
    BY <1>1, StoreTypeCorrect, PTL DEF StoreSpec, PinLossNeedsPull
-----------------------------------------------------------------------------
USE DEF HGoto, Over, IsFile, After, HasFile, BeforeRename, Relink

(* A handler changes no file and no other state than its own. *)
LEMMA HandoffSteps ==
    ASSUME [HandoffNext]_allVars
    PROVE  \/ [StoreNext]_storeVars /\ UNCHANGED handoffVars
           \/ /\ UNCHANGED storeVars
              /\ \E h \in Handler :
                    HandoffStep(h) \/ \E id \in Tag \cup Digest : Request(h, id)
  BY DEF HandoffNext, allVars

LEMMA StoreBesideHandlers ==
    ASSUME [HandoffNext]_allVars
    PROVE  [StoreNext]_storeVars
  BY HandoffSteps

(* The digest an identifier stands for. *)
LEMMA ResolvedType ==
    ASSUME StoreTypeOK, NEW id \in Tag \cup Digest, Resolved(id) # None
    PROVE  Resolved(id) \in Digest \cup {Blank}
  BY DEF StoreTypeOK, TagTypeOK, Resolved

(* A handler keeps the type of its state. *)
LEMMA HandlerType ==
    ASSUME StoreTypeOK, HandoffTypeOK, NEW h \in Handler,
           HandoffStep(h) \/ \E id \in Tag \cup Digest : Request(h, id)
    PROVE  HandoffTypeOK'
  <1> USE DEF HandoffTypeOK
  <1>1. CASE \E id \in Tag \cup Digest : Request(h, id)
    BY <1>1 DEF Request, Place
  <1>2. CASE Resolve(h)
    BY <1>2 DEF Resolve, Resolved, StoreTypeOK, TagTypeOK
  <1>3. CASE ProbeHit(h) \/ ResolveNothing(h) \/ StatFails(h) \/ OpenFails(h) \/ Cut(h)
    BY <1>3 DEF ProbeHit, ResolveNothing, StatFails, OpenFails, Cut
  <1>4. CASE ProbeMiss(h) \/ ProbeNone(h)
    BY <1>4 DEF ProbeMiss, ProbeNone, Place
  <1>5. CASE Stat(h)
    <2>1. ASSUME IsFile(h)
          PROVE  FileSize(link[hplace[h]][hdigest[h]]) \in Nat
      BY <2>1, LayoutAssumption DEF FileSize, StoreTypeOK, CasTypeOK
    <2>2. hsize' \in [Handler -> Nat]
      BY <1>5, <2>1 DEF Stat
    <2>3. QED
      BY <1>5, <2>2 DEF Stat, Place
  <1>6. CASE OpenBlob(h)
    <2>1. link[hplace[h]][hdigest[h]] \in Inode /\ hdigest[h] \in Digest
      BY <1>6 DEF OpenBlob, StoreTypeOK, CasTypeOK
    <2>2. QED
      BY <1>6, <2>1 DEF OpenBlob
  <1>7. CASE ReadChunk(h) \/ ReadRest(h)
    <2>1. data[hfile[h]] \in Digest \cup {Torn}
      BY <1>7 DEF ReadChunk, ReadRest, StoreTypeOK, CasTypeOK
    <2>2. hcontent' \in [Handler -> Digest \cup {Torn}]
      BY <1>7, <2>1 DEF ReadChunk, ReadRest
    <2>3. QED
      BY <1>7, <2>2 DEF ReadChunk, ReadRest
  <1>8. CASE Send(h)
    BY <1>8 DEF Send
  <1>9. QED
    BY <1>1, <1>2, <1>3, <1>4, <1>5, <1>6, <1>7, <1>8 DEF HandoffStep

(* Type correctness of the handlers and of the store below them. *)
THEOREM HandoffTypeCorrect == HandoffSpec => [](StoreTypeOK /\ HandoffTypeOK)
  <1>1. StoreInit /\ HandoffInit => StoreTypeOK /\ HandoffTypeOK
    <2>1. HandoffInit => HandoffTypeOK
      BY DEF HandoffInit, HandoffTypeOK, Place
    <2>2. QED
      BY <2>1, StoreInitType
  <1>2. StoreTypeOK /\ HandoffTypeOK /\ [HandoffNext]_allVars =>
           StoreTypeOK' /\ HandoffTypeOK'
    <2> SUFFICES ASSUME StoreTypeOK, HandoffTypeOK, [HandoffNext]_allVars
                 PROVE  StoreTypeOK' /\ HandoffTypeOK'
      OBVIOUS
    <2>1. StoreTypeOK'
      BY StoreBesideHandlers, StoreStepType
    <2>2. CASE UNCHANGED handoffVars
      BY <2>1, <2>2 DEF handoffVars, HandoffTypeOK
    <2>3. QED
      BY <2>1, <2>2, HandoffSteps, HandlerType
  <1>3. QED
    BY <1>1, <1>2, PTL DEF HandoffSpec
-----------------------------------------------------------------------------
(* A file that belongs to a digest and is not staged is not written to, as *)
(* long as no pull races with another writer of the digest: a stream goes  *)
(* into a staged file, and a lone pull has nothing to copy.                *)
LEMMA UnracedFileStays ==
    ASSUME StoreTypeOK, IntegrityInv, NEW v \in Writer, WriterAction(v),
           NEW d \in Digest, HardLinks, ~Racing(d),
           NEW i \in Inode, Of(i, d), NotStaged(i)
    PROVE  data'[i] = data[i]
  <1> SUFFICES ASSUME data'[i] # data[i] PROVE FALSE
    OBVIOUS
  <1>1. WritingTypeOK
    BY DEF StoreTypeOK, WritingTypeOK
  <1>2. /\ wdigest[v] \in Digest
        /\ Of(i, wdigest[v])
        /\ \/ i = Staged(v) /\ StreamDone(v)
           \/ NotStaged(i) /\ (PullCopyOpen(v) \/ PullCopyDone(v))
    BY <1>1, WriteOwned DEF IntegrityInv
  <1>3. wdigest[v] = d
    BY <1>2, OfIsUnique
  <1>4. ~(i = Staged(v) /\ StreamDone(v))
    BY DEF NotStaged, StreamDone
  <1>5. PullCopyOpen(v) \/ PullCopyDone(v)
    BY <1>2, <1>4
  <1>6. v \in Puller
    BY <1>1, <1>5 DEF PullCopyOpen, PullCopyDone, WritingTypeOK, WriterTypeOK
  <1>7. QED
    BY <1>3, <1>5, <1>6 DEF IntegrityInv, LonePullLinks, PullCopyOpen, PullCopyDone

(* The store under a handler: nothing it does touches an opened file whose *)
(* digest is not raced for.                                                *)
LEMMA StoreKeepsHandoff ==
    ASSUME StoreTypeOK, HandoffTypeOK, IntegrityInv, HandoffInv,
           [StoreNext]_storeVars, UNCHANGED handoffVars
    PROVE  HandoffInv'
  <1> USE DEF handoffVars
  <1>1. CASE data' = data /\ UNCHANGED writerVars
    BY <1>1 DEF HandoffInv, OpenedOwned, OpenedWhole, Of, NotStaged, Racing, writerVars
  <1>2. CASE \E v \in Writer : WriterAction(v)
    <2> PICK v \in Writer : WriterAction(v)
      BY <1>2
    <2>1. WritingTypeOK
      BY DEF StoreTypeOK, WritingTypeOK
    <2>2. ASSUME NEW h \in Handler, hpc[h] \in {"read", "rest", "send", "sent"}
          PROVE  Of(hfile[h], hdigest[h])' /\ NotStaged(hfile[h])'
      <3>1. hdigest[h] \in Digest /\ Of(hfile[h], hdigest[h]) /\ NotStaged(hfile[h])
        BY <2>2 DEF HandoffInv, OpenedOwned, HandoffTypeOK
      <3>2. PICK d \in Digest, i \in Inode \cup {None} : d = hdigest[h] /\ i = hfile[h]
        BY <3>1 DEF HandoffTypeOK
      <3>3. Of(i, d)' /\ NotStaged(i)'
        BY <2>1, <3>1, <3>2, OfStays, NotStagedStays
      <3>4. QED
        BY <3>2, <3>3 DEF Of, NotStaged
    <2>3. ASSUME NEW h \in Handler, HardLinks, ~Racing(hdigest[h])'
          PROVE  /\ hpc[h] \in {"read", "rest"} => data'[hfile[h]] = hdigest[h]
                 /\ hpc[h] \in {"rest", "send", "sent"} => hcontent[h] = hdigest[h]
                 /\ hdigest[h] \in Digest
                    /\ hpc[h] \in {"find", "open", "read", "rest", "send", "sent"} =>
                          hsize[h] = SizeOf[hdigest[h]]
      <3>1. CASE hdigest[h] \in Digest
        <4>1. PICK d \in Digest : d = hdigest[h]
          BY <3>1
        <4>2. ~Racing(d)
          BY <2>1, <2>3, <4>1, RacingStays DEF Racing
        <4>3. ASSUME hpc[h] \in {"read", "rest"} PROVE data'[hfile[h]] = data[hfile[h]]
          <5>1. hfile[h] \in Inode /\ Of(hfile[h], d) /\ NotStaged(hfile[h])
            BY <4>1, <4>3 DEF HandoffInv, OpenedOwned, HandoffTypeOK
          <5>2. QED
            BY <2>3, <4>2, <5>1, UnracedFileStays
        <4>4. QED
          BY <2>3, <4>1, <4>2, <4>3 DEF HandoffInv, OpenedWhole
      <3>2. CASE hdigest[h] \notin Digest
        BY <3>2 DEF HandoffTypeOK
      <3>3. QED
        BY <3>1, <3>2
    <2>4. OpenedOwned'
      BY <2>2 DEF OpenedOwned
    <2>5. OpenedWhole'
      BY <2>3 DEF OpenedWhole
    <2>6. QED
      BY <2>4, <2>5 DEF HandoffInv
  <1>3. CASE EvictNext /\ UNCHANGED <<tag, writerVars>>
    BY <1>1, <1>3, EvictionOnlyRemoves DEF StoreTypeOK
  <1>4. CASE UNCHANGED storeVars
    BY <1>1, <1>4 DEF storeVars, casVars
  <1>5. QED
    BY <1>2, <1>3, <1>4, StoreSteps

(* A published file is whole and owned, unless its digest is raced for. *)
LEMMA PublishedIsWhole ==
    ASSUME StoreTypeOK, IntegrityInv, NEW h \in Handler, HandoffTypeOK, IsFile(h)
    PROVE  /\ Of(link[hplace[h]][hdigest[h]], hdigest[h])
           /\ NotStaged(link[hplace[h]][hdigest[h]])
           /\ HardLinks /\ ~Racing(hdigest[h]) =>
                 /\ data[link[hplace[h]][hdigest[h]]] = hdigest[h]
                 /\ FileSize(link[hplace[h]][hdigest[h]]) = SizeOf[hdigest[h]]
  <1>1. hplace[h] \in Place /\ hdigest[h] \in Digest
    BY DEF HandoffTypeOK
  <1>2. QED
    BY <1>1 DEF IntegrityInv, PublishedOwned, TornNeedsRace, FileSize

(* A handler's own steps: it opens and measures published files only. *)
LEMMA HandlerKeepsHandoff ==
    ASSUME StoreTypeOK, HandoffTypeOK, IntegrityInv, HandoffInv,
           UNCHANGED storeVars, NEW h \in Handler,
           HandoffStep(h) \/ \E id \in Tag \cup Digest : Request(h, id)
    PROVE  HandoffInv'
  <1>0. /\ link' = link /\ data' = data /\ wdigest' = wdigest /\ wpc' = wpc
    BY DEF storeVars, casVars, writerVars
  <1>1. SUFFICES
          /\ hpc'[h] \in {"read", "rest", "send", "sent"} =>
                Of(hfile'[h], hdigest'[h]) /\ NotStaged(hfile'[h])
          /\ HardLinks /\ ~Racing(hdigest'[h]) =>
                /\ hpc'[h] \in {"read", "rest"} => data[hfile'[h]] = hdigest'[h]
                /\ hpc'[h] \in {"rest", "send", "sent"} => hcontent'[h] = hdigest'[h]
                /\ hdigest'[h] \in Digest
                   /\ hpc'[h] \in {"find", "open", "read", "rest", "send", "sent"} =>
                         hsize'[h] = SizeOf[hdigest'[h]]
    <2>1. \A g \in Handler \ {h} :
             /\ hpc'[g] = hpc[g] /\ hdigest'[g] = hdigest[g] /\ hfile'[g] = hfile[g]
             /\ hsize'[g] = hsize[g] /\ hcontent'[g] = hcontent[g]
      BY DEF HandoffTypeOK, HandoffStep, Request, Resolve, ResolveNothing, ProbeHit,
             ProbeMiss, ProbeNone, Stat, StatFails, OpenBlob, OpenFails, ReadChunk,
             ReadRest, Send, Cut
    <2>2. OpenedOwned'
      BY <1>0, <1>1, <2>1 DEF HandoffInv, OpenedOwned, Of, NotStaged
    <2>3. OpenedWhole'
      BY <1>0, <1>1, <2>1 DEF HandoffInv, OpenedWhole, Racing
    <2>4. QED
      BY <2>2, <2>3 DEF HandoffInv
  <1> USE DEF HandoffTypeOK
  <1>2. CASE \/ \E id \in Tag \cup Digest : Request(h, id)
             \/ Resolve(h) \/ ResolveNothing(h) \/ StatFails(h) \/ OpenFails(h) \/ Cut(h)
    BY <1>2 DEF Request, Resolve, ResolveNothing, StatFails, OpenFails, Cut
  <1>3. CASE ProbeHit(h) \/ ProbeMiss(h) \/ ProbeNone(h)
    BY <1>3 DEF ProbeHit, ProbeMiss, ProbeNone, HandoffInv, OpenedWhole
  <1>4. CASE Stat(h)
    <2>1. hpc'[h] = "find" /\ hdigest' = hdigest
      BY <1>4 DEF Stat
    <2>2. hdigest[h] \in Digest => IsFile(h) /\ hsize'[h] = FileSize(link[hplace[h]][hdigest[h]])
      BY <1>4, TagAssumption DEF Stat
    <2>3. QED
      BY <2>1, <2>2, PublishedIsWhole
  <1>5. CASE OpenBlob(h)
    <2>1. /\ hpc[h] = "open" /\ hpc'[h] = "read" /\ hdigest' = hdigest /\ hsize' = hsize
          /\ IsFile(h) /\ hfile'[h] = link[hplace[h]][hdigest[h]]
      BY <1>5 DEF OpenBlob
    <2>2. QED
      BY <2>1, PublishedIsWhole DEF HandoffInv, OpenedWhole
  <1>6. CASE ReadChunk(h)
    BY <1>6 DEF ReadChunk, HandoffInv, OpenedOwned, OpenedWhole
  <1>7. CASE ReadRest(h)
    BY <1>7 DEF ReadRest, HandoffInv, OpenedOwned, OpenedWhole
  <1>8. CASE Send(h)
    BY <1>8 DEF Send, HandoffInv, OpenedOwned, OpenedWhole
  <1>9. QED
    BY <1>2, <1>3, <1>4, <1>5, <1>6, <1>7, <1>8 DEF HandoffStep

(* What is sent is the whole blob of the digest it is sent as, with its    *)
(* size, although handlers look twice while the store changes.             *)
THEOREM HandoffIsWhole == HandoffSpec => []HandoffWhole
  <1>1. StoreInit /\ HandoffInit => IntegrityInv /\ HandoffInv
    BY StoreInitIntegrity DEF HandoffInit, HandoffInv, OpenedOwned, OpenedWhole
  <1>2. StoreTypeOK /\ HandoffTypeOK /\ IntegrityInv /\ HandoffInv /\ [HandoffNext]_allVars
           => IntegrityInv' /\ HandoffInv'
    <2> SUFFICES ASSUME StoreTypeOK, HandoffTypeOK, IntegrityInv, HandoffInv,
                        [HandoffNext]_allVars
                 PROVE  IntegrityInv' /\ HandoffInv'
      OBVIOUS
    <2>1. IntegrityInv'
      BY StoreBesideHandlers, StoreKeepsIntegrity
    <2>2. HandoffInv'
      BY HandoffSteps, StoreKeepsHandoff, HandlerKeepsHandoff
    <2>3. QED
      BY <2>1, <2>2
  <1>3. HandoffTypeOK /\ HandoffInv => HandoffWhole
    BY DEF HandoffInv, OpenedWhole, HandoffWhole, HandoffTypeOK
  <1>4. QED
    BY <1>1, <1>2, <1>3, HandoffTypeCorrect, PTL DEF HandoffSpec
-----------------------------------------------------------------------------
(* Tags, with everybody on the storage root.                               *)

LEMMA StoreKeepsBlankTags ==
    ASSUME StoreTypeOK, BlankTagHasWriter, [StoreNext]_storeVars
    PROVE  BlankTagHasWriter'
  <1>1. CASE UNCHANGED <<tag, writerVars>>
    BY <1>1 DEF writerVars, BlankTagHasWriter
  <1>2. CASE \E v \in Writer : WriterAction(v)
    BY <1>2, BlankTagStep DEF StoreTypeOK, WritingTypeOK
  <1>3. QED
    BY <1>1, <1>2, StoreSteps DEF storeVars

(* A tag that reads as the empty string has a writer that is about to write *)
(* it or one that failed or was killed there: neither Prune nor a handler   *)
(* leaves one, whatever runs beside them (tags.rs, commit_artifact.rs).     *)
THEOREM BlankTagsExplained == HandoffSpec => []BlankTagHasWriter
  <1>1. StoreInit => BlankTagHasWriter
    BY TagAssumption DEF StoreInit, WritingInit, TagInit, BlankTagHasWriter
  <1>2. StoreTypeOK /\ BlankTagHasWriter /\ [HandoffNext]_allVars => BlankTagHasWriter'
    BY StoreBesideHandlers, StoreKeepsBlankTags
  <1>3. QED
    BY <1>1, <1>2, HandoffTypeCorrect, PTL DEF HandoffSpec

(* Without Prune calls the daemon leaves the blob files alone. *)
LEMMA NoPrunerNoChange ==
    ASSUME Pruner = {}, EvictNext
    PROVE  UNCHANGED casVars
  BY DEF EvictNext, Pin, UnpinFound, UnpinRemove, DaemonCrash

LEMMA StoreKeepsAvailability ==
    ASSUME Pruner = {}, StoreTypeOK, AvailabilityInv, [StoreNext]_storeVars
    PROVE  AvailabilityInv'
  <1>1. WritingTypeOK
    BY DEF StoreTypeOK, WritingTypeOK
  <1>2. CASE UNCHANGED writingVars
    BY <1>1, <1>2, AvailabilityStep
  <1>3. CASE \E v \in Writer : WriterAction(v)
    BY <1>1, <1>3, FlatPublishedStep, TaggedResolvableStep, TagsResolveStep DEF AvailabilityInv
  <1>4. QED
    BY <1>2, <1>3, StoreSteps, NoPrunerNoChange DEF storeVars, writingVars

(* What a pull has begun with a digest stays begun. *)
LEMMA NamesStood ==
    ASSUME StoreTypeOK, [StoreNext]_storeVars, NEW d \in Digest, NamesStand(d)'
    PROVE  NamesStand(d)
  <1>1. CASE UNCHANGED writerVars
    BY <1>1 DEF NamesStand, writerVars
  <1>2. ASSUME NEW v \in Writer, WriterAction(v)
        PROVE  NamesStand(d)
    <2>1. SUFFICES ASSUME NEW w \in Puller, wdigest[w] = d,
                          wpc[w] \notin BeforeRename \cup {"unlink_std"}
                   PROVE  FALSE
      BY DEF NamesStand
    <2>2. w \in Writer /\ WritingTypeOK
      BY WriterAssumption DEF StoreTypeOK, WritingTypeOK
    <2>3. wdigest'[w] = d
      BY <1>2, <2>1, <2>2, DigestKept
    <2>4. wpc'[w] \notin BeforeRename \cup {"unlink_std"}
      <3>1. CASE v # w
        BY <1>2, <2>1, <2>2, <3>1, WriterLocal
      <3>2. CASE v = w
        BY <1>2, <2>1, <2>2, <3>2 DEF WriterAction, WriterStep, ImportRejected, ImportBegin,
           PullSkip, PullBegin, Begin, StreamFails, StreamDone, ImportTarget, Rename,
           RenameFails, PullUnlinkStd, PullLink, PullLinkFails, PullCopyOpen,
           PullCopyNoSource, PullCopyDone, PullCopyFails, WriterTagCreate, WriterTagWrite,
           WriterTagFails, Kill, WGoto, WritingTypeOK, WriterTypeOK
      <3>3. QED
        BY <3>1, <3>2
    <2>5. QED
      BY <2>1, <2>3, <2>4 DEF NamesStand
  <1>3. QED
    BY <1>1, <1>2, StoreSteps DEF storeVars

(* Until then no name of it goes. *)
LEMMA NamesStay ==
    ASSUME Pruner = {}, StoreTypeOK, [StoreNext]_storeVars, NEW d \in Digest, NamesStand(d)',
           NEW l \in Place, HasFile(l, d)
    PROVE  HasFile(l, d)'
  <1>1. CASE UNCHANGED casVars
    BY <1>1 DEF casVars
  <1>2. ASSUME NEW v \in Writer, WriterAction(v), ~HasFile(l, d)'
        PROVE  FALSE
    <2>1. WritingTypeOK
      BY DEF StoreTypeOK, WritingTypeOK
    <2>2. PullUnlinkStd(v) /\ d = wdigest[v]
      BY <1>2, <2>1, EntriesKept
    <2>3. v \in Puller /\ wpc'[v] = "link" /\ wdigest' = wdigest
      BY <2>1, <2>2 DEF PullUnlinkStd, WGoto, jobVars, WritingTypeOK, WriterTypeOK
    <2>4. QED
      BY <2>2, <2>3 DEF NamesStand
  <1>3. QED
    BY <1>1, <1>2, StoreSteps, NoPrunerNoChange DEF storeVars

LEMMA StoreKeepsProbes ==
    ASSUME Pruner = {}, StoreTypeOK, HandoffTypeOK, ProbesFind,
           [StoreNext]_storeVars, UNCHANGED handoffVars
    PROVE  ProbesFind'
  <1> USE DEF handoffVars
  <1>1. SUFFICES ASSUME NEW h \in Handler, NEW d \in Digest, d = hdigest[h],
                        hid[h] \in Tag, NamesStand(d)'
                 PROVE  /\ Resolvable(d)'
                        /\ hpc[h] \in {"size", "find"} /\ hplace[h] = "gguf" =>
                              HasFile("gguf", d)' \/ HasFile("safetensors", d)'
                        /\ hpc[h] \in {"size", "find"} /\ hplace[h] = "safetensors" =>
                              HasFile("safetensors", d)'
                        /\ hpc[h] \in {"stat", "open"} => HasFile(hplace[h], d)'
                        /\ hpc[h] # "missed"
    BY DEF ProbesFind, Resolvable, BlobPlace, NamesStand
  <1>2. NamesStand(d)
    BY <1>1, NamesStood
  <1>3. \A l \in Place : HasFile(l, d) => HasFile(l, d)'
    BY <1>1, NamesStay
  <1>4. Resolvable(d)'
    BY <1>1, <1>2, <1>3, ResolvableIff, ResolvableIffNext DEF ProbesFind
  <1>5. QED
    BY <1>1, <1>2, <1>3, <1>4 DEF ProbesFind, Place, HandoffTypeOK

LEMMA HandlerKeepsProbes ==
    ASSUME StoreTypeOK, HandoffTypeOK, AvailabilityInv, ProbesFind,
           UNCHANGED storeVars, NEW h \in Handler,
           HandoffStep(h) \/ \E id \in Tag \cup Digest : Request(h, id)
    PROVE  ProbesFind'
  <1>1. UNCHANGED <<link, tag, wdigest, wpc>>
    BY DEF storeVars, casVars, writerVars
  <1>2. \A d : (Resolvable(d)' <=> Resolvable(d)) /\ (NamesStand(d)' <=> NamesStand(d))
    BY <1>1 DEF Resolvable, BlobPlace, NamesStand
  <1>3. \A g \in Handler \ {h} :
           hpc'[g] = hpc[g] /\ hid'[g] = hid[g] /\ hdigest'[g] = hdigest[g] /\ hplace'[g] = hplace[g]
    BY DEF HandoffTypeOK, HandoffStep, Request, Resolve, ResolveNothing, ProbeHit,
           ProbeMiss, ProbeNone, Stat, StatFails, OpenBlob, OpenFails, ReadChunk,
           ReadRest, Send, Cut
  <1>4. SUFFICES ASSUME NEW d \in Digest, d = hdigest'[h], hid'[h] \in Tag, NamesStand(d)
                 PROVE  /\ Resolvable(d)
                        /\ hpc'[h] \in {"size", "find"} /\ hplace'[h] = "gguf" =>
                              HasFile("gguf", d) \/ HasFile("safetensors", d)
                        /\ hpc'[h] \in {"size", "find"} /\ hplace'[h] = "safetensors" =>
                              HasFile("safetensors", d)
                        /\ hpc'[h] \in {"stat", "open"} => HasFile(hplace'[h], d)
                        /\ hpc'[h] # "missed"
    <2>1. hpc'[h] = "resolve" => hplace'[h] = "blobs"
      BY DEF HandoffTypeOK, ProbesFind, HandoffStep, Request, Resolve, ResolveNothing,
             ProbeHit, ProbeMiss, ProbeNone, Stat, StatFails, OpenBlob, OpenFails,
             ReadChunk, ReadRest, Send, Cut
    <2>2. QED
      BY <1>1, <1>2, <1>3, <1>4, <2>1 DEF ProbesFind
  <1> USE DEF HandoffTypeOK
  <1>5. CASE \E id \in Tag \cup Digest : Request(h, id)
    BY <1>4, <1>5, LayoutAssumption DEF Request
  <1>6. CASE Resolve(h)
    <2>1. hpc'[h] = "size" /\ hid' = hid /\ d = tag[hid[h]] /\ hplace'[h] = "blobs"
      BY <1>4, <1>6 DEF Resolve, Resolved, ProbesFind
    <2>2. Resolvable(d)
      BY <1>4, <2>1 DEF AvailabilityInv, TagsResolve
    <2>3. QED
      BY <2>1, <2>2
  <1>7. ASSUME hdigest' = hdigest, hid' = hid
        PROVE  /\ Resolvable(d)
               /\ hpc[h] \in {"size", "find"} /\ hplace[h] = "gguf" =>
                     HasFile("gguf", d) \/ HasFile("safetensors", d)
               /\ hpc[h] \in {"size", "find"} /\ hplace[h] = "safetensors" =>
                     HasFile("safetensors", d)
               /\ hpc[h] \in {"stat", "open"} => HasFile(hplace[h], d)
               /\ hpc[h] # "missed"
    BY <1>4, <1>7 DEF ProbesFind
  <1>8. \E l \in Place : Resolvable(d) => HasFile(l, d)
    BY ResolvableIff DEF Place
  <1>9. CASE ProbeHit(h)
    BY <1>4, <1>7, <1>9 DEF ProbeHit
  <1>10. CASE ProbeMiss(h)
    <2>1. d = hdigest[h] /\ ~HasFile(hplace[h], d) /\ hplace[h] \in {"blobs", "gguf"}
      BY <1>4, <1>10 DEF ProbeMiss, Place
    <2>2. Resolvable(d) /\ \A l \in {"gguf"} : hplace[h] = l => HasFile("gguf", d) \/ HasFile("safetensors", d)
      BY <1>7, <1>10 DEF ProbeMiss
    <2>3. HasFile("blobs", d) \/ HasFile("gguf", d) \/ HasFile("safetensors", d)
      BY <2>2, ResolvableIff DEF Place
    <2>4. QED
      BY <1>10, <2>1, <2>2, <2>3 DEF ProbeMiss
  <1>11. ~ProbeNone(h)
    BY <1>4, <1>7 DEF ProbeNone
  <1>12. CASE Stat(h)
    BY <1>4, <1>7, <1>12 DEF Stat
  <1>13. ~StatFails(h) /\ ~OpenFails(h)
    BY <1>4, <1>7 DEF StatFails, OpenFails
  <1>14. CASE ResolveNothing(h) \/ OpenBlob(h) \/ ReadChunk(h) \/ ReadRest(h) \/ Send(h) \/ Cut(h)
    BY <1>4, <1>7, <1>14 DEF ResolveNothing, OpenBlob, ReadChunk, ReadRest, Send, Cut
  <1>15. QED
    BY <1>5, <1>6, <1>9, <1>10, <1>11, <1>12, <1>13, <1>14 DEF HandoffStep

(* While nothing is pruned, a request for a tagged model fails only beside  *)
(* a pull of the same digest that has taken its standard path away, for any *)
(* number of handlers and writers (fd_server.rs, store.rs).                 *)
THEOREM OnlyPullsMakeMisses == HandoffSpec => []MissNeedsPull
  <1> DEFINE Inv == Pruner = {} => AvailabilityInv /\ ProbesFind
  <1>1. StoreInit /\ HandoffInit => Inv
    <2>1. StoreInit => AvailabilityInv
      BY AvailabilityInit DEF StoreInit
    <2>2. HandoffInit => ProbesFind
      BY LayoutAssumption DEF HandoffInit, ProbesFind
    <2>3. QED
      BY <2>1, <2>2
  <1>2. ASSUME StoreTypeOK, HandoffTypeOK, [HandoffNext]_allVars, Inv
        PROVE  Inv'
    <2>1. SUFFICES ASSUME Pruner = {}
                   PROVE  AvailabilityInv' /\ ProbesFind'
      OBVIOUS
    <2>2. AvailabilityInv'
      BY <1>2, <2>1, StoreBesideHandlers, StoreKeepsAvailability
    <2>3. ProbesFind'
      BY <1>2, <2>1, HandoffSteps, StoreKeepsProbes, HandlerKeepsProbes
    <2>4. QED
      BY <2>2, <2>3
  <1>3. Inv => MissNeedsPull
    BY DEF ProbesFind, NamesStand, MissNeedsPull
  <1> HIDE DEF Inv
  <1>4. QED
    BY <1>1, <1>2, <1>3, HandoffTypeCorrect, PTL DEF HandoffSpec
=============================================================================
