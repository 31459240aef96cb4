------------------------------ MODULE CasWriters ------------------------------
(***************************************************************************)
(* The processes that put blobs into the store: `modelctl import`          *)
(* (CasStore::store_blob and TagRegistry::set_tag) and `modelctl pull`     *)
(* (run_pull and commit_artifact).  Each is a one-shot process that works  *)
(* on the storage root directly, without the daemon and without a lock;    *)
(* several run side by side (bootstrap pulls in parallel) and each may be  *)
(* killed between any two system calls.                                    *)
(***************************************************************************)
EXTENDS TagRegistry

CONSTANTS Importer,   \* processes running modelctl import
          Puller,     \* processes running modelctl pull
          Formats,    \* flat paths a pull may commit to, by model format
          HardLinks   \* whether hard_link(2) works on the storage root

ASSUME WriterAssumption ==
    /\ Writer = Importer \cup Puller
    /\ Importer \cap Puller = {}
    /\ Formats \subseteq {"gguf", "safetensors"}
    /\ HardLinks \in BOOLEAN
    /\ None \notin Tag \cup (Inode \X Inode)

VARIABLES
    wpc,       \* wpc[w]: where writer w stands
    wdigest,   \* wdigest[w]: the digest of what w stores, None before
    wplace,    \* wplace[w]: the path w commits to
    wtag,      \* wtag[w]: the tag w sets, None for an untagged import
    copying,   \* copying[w]: <<source, destination>> of w's fs::copy, or None
    staging    \* writers with a file under cas/incoming/

writerVars == <<wpc, wdigest, wplace, wtag, copying, staging>>
jobVars == <<wdigest, wplace, wtag>>

Staged(w) == <<w, "staged">>
Copied(w) == <<w, "copied">>

BeforeRename == {"new", "stream", "target", "rename"}
Relink       == {"unlink_std", "link", "copy", "copying"}   \* pulls only
Tagging      == {"tag_create", "tag_write"}
Ended        == {"done", "failed", "killed"}

WriterTypeOK ==
    /\ wpc \in [Writer -> BeforeRename \cup Relink \cup Tagging \cup Ended]
    /\ wdigest \in [Writer -> Digest \cup {None}]
    /\ wplace \in [Writer -> Place]
    /\ wtag \in [Writer -> Tag \cup {None}]
    /\ copying \in [Writer -> (Inode \X Inode) \cup {None}]
    /\ staging \subseteq Writer
    /\ \A w \in Writer :
          /\ wpc[w] = "new" => wdigest[w] = None
          /\ wpc[w] \notin {"new"} \cup Ended => wdigest[w] \in Digest
          /\ wpc[w] = "target" => w \in Importer
          /\ wpc[w] \in Relink => w \in Puller
          /\ wpc[w] \in Tagging => wtag[w] \in Tag
          /\ wpc[w] = "copying" => copying[w] # None
    /\ \A w \in Puller :
          wpc[w] \notin {"new"} \cup Ended => wplace[w] \in Formats /\ wtag[w] \in Tag

WriterInit ==
    /\ wpc = [w \in Writer |-> "new"]
    /\ wdigest = [w \in Writer |-> None]
    /\ wplace = [w \in Writer |-> "blobs"]
    /\ wtag = [w \in Writer |-> None]
    /\ copying = [w \in Writer |-> None]
    /\ staging = {}

WGoto(w, pc) == wpc' = [wpc EXCEPT ![w] = pc]
-----------------------------------------------------------------------------
(* Staging, common to both: create cas/incoming/..., stream and hash.      *)

Begin(w, d, t, l) ==
    /\ wpc[w] = "new"
    /\ WGoto(w, "stream")
    /\ wdigest' = [wdigest EXCEPT ![w] = d]
    /\ wtag' = [wtag EXCEPT ![w] = t]
    /\ wplace' = [wplace EXCEPT ![w] = l]
    /\ staging' = staging \cup {w}
    /\ UNCHANGED <<casVars, tag, copying>>

ImportBegin(w, d, t) == w \in Importer /\ Begin(w, d, t, "blobs")

(* validate_file_safety or detect_safe_format refuses the source file *)
ImportRejected(w) ==
    /\ w \in Importer
    /\ wpc[w] = "new"
    /\ WGoto(w, "failed")
    /\ UNCHANGED <<casVars, tag, jobVars, copying, staging>>

(* what the server sends for a tag is not known before it has been hashed;  *)
(* without --force this is reached only when PullSkip does not apply, with   *)
(* it always                                                                 *)
PullBegin(w, d, t, l) == w \in Puller /\ t \in Tag /\ Begin(w, d, t, l)

(* the tag names a blob that is there in the wanted format: nothing to do *)
PullSkip(w, t, l) ==
    /\ w \in Puller
    /\ wpc[w] = "new"
    /\ tag[t] \in Digest
    /\ HasFile(l, tag[t]) \/ HasFile("blobs", tag[t])
    /\ WGoto(w, "done")
    /\ UNCHANGED <<casVars, tag, jobVars, copying, staging>>

(* A read, write or network error.  The pull's StagingGuard removes the    *)
(* staged file, store_blob returns through `?` and leaves it.              *)
StreamFails(w) ==
    /\ wpc[w] = "stream"
    /\ WGoto(w, "failed")
    /\ staging' = IF w \in Puller THEN staging \ {w} ELSE staging
    /\ UNCHANGED <<casVars, tag, jobVars, copying>>

(* Variant: a pull removes the standard path before it publishes the flat one. *)
StreamDone_UnlinkFirst(w) ==
    /\ wpc[w] = "stream"
    /\ \/ w \in Puller /\ WGoto(w, "unlink_std")
       \/ w \in Importer /\ WGoto(w, "target")
    /\ data' = [data EXCEPT ![Staged(w)] = wdigest[w]]
    /\ mtime' = [mtime EXCEPT ![Staged(w)] = clock + 1]
    /\ clock' = clock + 1
    /\ UNCHANGED <<link, tag, jobVars, copying, staging>>

StreamDone(w) ==
    /\ wpc[w] = "stream"
    /\ \/ w \in Puller /\ WGoto(w, "rename")
       \/ w \in Importer /\ WGoto(w, "target")
    /\ data' = [data EXCEPT ![Staged(w)] = wdigest[w]]
    /\ mtime' = [mtime EXCEPT ![Staged(w)] = clock + 1]
    /\ clock' = clock + 1
    /\ UNCHANGED <<link, tag, jobVars, copying, staging>>

(* store_blob: let target_path = self.blob_path(&computed_digest).  The    *)
(* three is_file() calls are one step here.  When another process makes or *)
(* removes names between them, the code may also answer with a flat name   *)
(* though the standard one has just appeared, or the other way round: the  *)
(* rename then puts the same whole file under another name of the digest.  *)
ImportTarget(w) ==
    /\ wpc[w] = "target"
    /\ wplace' = [wplace EXCEPT ![w] = BlobPlace(wdigest[w])]
    /\ WGoto(w, "rename")
    /\ UNCHANGED <<casVars, tag, wdigest, wtag, copying, staging>>

(* Variant: the file is published while it is still being written. *)
Rename_Early(w) ==
    /\ wpc[w] \in {"stream", "rename"}
    /\ LinkTo(wplace[w], wdigest[w], Staged(w))
    /\ staging' = staging \ {w}
    /\ \/ w \in Puller /\ WGoto(w, "unlink_std")
       \/ w \in Importer /\ wtag[w] # None /\ WGoto(w, "tag_create")
       \/ w \in Importer /\ wtag[w] = None /\ WGoto(w, "done")
    /\ UNCHANGED <<data, mtime, clock, tag, jobVars, copying>>

(* fs::rename of the staged file onto the target, replacing what is there *)
Rename(w) ==
    /\ wpc[w] = "rename"
    /\ LinkTo(wplace[w], wdigest[w], Staged(w))
    /\ staging' = staging \ {w}
    /\ \/ w \in Puller /\ WGoto(w, "unlink_std")
       \/ w \in Importer /\ wtag[w] # None /\ WGoto(w, "tag_create")
       \/ w \in Importer /\ wtag[w] = None /\ WGoto(w, "done")
    /\ UNCHANGED <<data, mtime, clock, tag, jobVars, copying>>

(* Variant: the error of the rename is dropped. *)
RenameFails_Ignored(w) ==
    /\ wpc[w] = "rename"
    /\ wtag[w] # None
    /\ WGoto(w, "tag_create")
    /\ UNCHANGED <<casVars, tag, jobVars, copying, staging>>

(* ... which may fail; by then the pull has disarmed its guard, too *)
RenameFails(w) ==
    /\ wpc[w] = "rename"
    /\ WGoto(w, "failed")
    /\ UNCHANGED <<casVars, tag, jobVars, copying, staging>>
-----------------------------------------------------------------------------
(* commit_artifact, step 2: make the standard path another name of the     *)
(* flat file.                                                              *)

PullUnlinkStd(w) ==
    /\ wpc[w] = "unlink_std"
    /\ Unlink("blobs", wdigest[w])
    /\ WGoto(w, "link")
    /\ UNCHANGED <<data, mtime, clock, tag, jobVars, copying, staging>>

CanLink(w) ==
    /\ HardLinks
    /\ HasFile(wplace[w], wdigest[w])
    /\ ~HasFile("blobs", wdigest[w])

PullLink(w) ==
    /\ wpc[w] = "link"
    /\ CanLink(w)
    /\ LinkTo("blobs", wdigest[w], link[wplace[w]][wdigest[w]])
    /\ WGoto(w, "tag_create")
    /\ UNCHANGED <<data, mtime, clock, tag, jobVars, copying, staging>>

(* EEXIST, ENOENT or not supported: every error takes the fallback *)
PullLinkFails(w) ==
    /\ wpc[w] = "link"
    /\ ~CanLink(w)
    /\ WGoto(w, "copy")
    /\ UNCHANGED <<casVars, tag, jobVars, copying, staging>>

(* fs::copy opens the source and creates or truncates the destination,     *)
(* whichever file that path names by now                                   *)
CopyTarget(w) ==
    IF HasFile("blobs", wdigest[w]) THEN link["blobs"][wdigest[w]] ELSE Copied(w)

PullCopyOpen(w) ==
    /\ wpc[w] = "copy"
    /\ HasFile(wplace[w], wdigest[w])
    /\ copying' = [copying EXCEPT ![w] =
                     <<link[wplace[w]][wdigest[w]], CopyTarget(w)>>]
    /\ LinkTo("blobs", wdigest[w], CopyTarget(w))
    /\ data' = [data EXCEPT ![CopyTarget(w)] = Torn]
    /\ mtime' = [mtime EXCEPT ![CopyTarget(w)] = clock + 1]
    /\ clock' = clock + 1
    /\ WGoto(w, "copying")
    /\ UNCHANGED <<tag, jobVars, staging>>

PullCopyNoSource(w) ==
    /\ wpc[w] = "copy"
    /\ ~HasFile(wplace[w], wdigest[w])
    /\ WGoto(w, "tag_create")
    /\ UNCHANGED <<casVars, tag, jobVars, copying, staging>>

(* all bytes the source has now: none, when it is the destination *)
PullCopyDone(w) ==
    /\ wpc[w] = "copying"
    /\ data' = [data EXCEPT ![copying[w][2]] =
                  IF copying[w][1] = copying[w][2] THEN Torn
                                                   ELSE data[copying[w][1]]]
    /\ copying' = [copying EXCEPT ![w] = None]
    /\ WGoto(w, "tag_create")
    /\ UNCHANGED <<link, mtime, clock, tag, jobVars, staging>>

(* a full disk ends the copy early; the error is discarded *)
PullCopyFails(w) ==
    /\ wpc[w] = "copying"
    /\ copying' = [copying EXCEPT ![w] = None]
    /\ WGoto(w, "tag_create")
    /\ UNCHANGED <<casVars, tag, jobVars, staging>>
-----------------------------------------------------------------------------
(* The tag, as import (set_tag) and pull (fs::write) both write it.        *)

WriterTagCreate(w) ==
    /\ wpc[w] = "tag_create"
    /\ TagCreate(wtag[w])
    /\ WGoto(w, "tag_write")
    /\ UNCHANGED <<casVars, jobVars, copying, staging>>

(* Variant: the write after the truncation is lost. *)
WriterTagWrite_Lost(w) ==
    /\ wpc[w] = "tag_write"
    /\ WGoto(w, "done")
    /\ UNCHANGED <<casVars, tag, jobVars, copying, staging>>

WriterTagWrite(w) ==
    /\ wpc[w] = "tag_write"
    /\ TagWrite(wtag[w], wdigest[w])
    /\ WGoto(w, "done")
    /\ UNCHANGED <<casVars, jobVars, copying, staging>>

(* an I/O error in either step is reported and ends the process *)
WriterTagFails(w) ==
    /\ wpc[w] \in Tagging
    /\ WGoto(w, "failed")
    /\ UNCHANGED <<casVars, tag, jobVars, copying, staging>>

Kill(w) ==
    /\ wpc[w] \notin {"new"} \cup Ended
    /\ WGoto(w, "killed")
    /\ copying' = [copying EXCEPT ![w] = None]
    /\ UNCHANGED <<casVars, tag, jobVars, staging>>

(* PullCopyNoSource is not among them: it needs somebody to remove the flat *)
(* file, which no writer does (FlatPublished below).                        *)
WriterStep(w) ==
    \/ StreamFails(w)
    \/ StreamDone(w)
    \/ ImportTarget(w)
    \/ Rename(w)
    \/ RenameFails(w)
    \/ PullUnlinkStd(w)
    \/ PullLink(w)
    \/ PullLinkFails(w)
    \/ PullCopyOpen(w)
    \/ PullCopyDone(w)
    \/ PullCopyFails(w)
    \/ WriterTagCreate(w)
    \/ WriterTagWrite(w)
    \/ WriterTagFails(w)

WritersNext ==
    \E w \in Writer :
        \/ ImportRejected(w)
        \/ \E d \in Digest, t \in Tag \cup {None} : ImportBegin(w, d, t)
        \/ \E t \in Tag, l \in Formats : PullSkip(w, t, l)
        \/ \E d \in Digest, t \in Tag, l \in Formats : PullBegin(w, d, t, l)
        \/ WriterStep(w)
        \/ Kill(w)

writingVars == <<casVars, tag, writerVars>>

(* The store with writers only: nothing is ever pruned. *)
WritingInit == CasInit /\ TagInit /\ WriterInit
WritingSpec == WritingInit /\ [][WritersNext]_writingVars
-----------------------------------------------------------------------------
(* Type invariant of the blob files, the tags and the writers. *)
WritingTypeOK == CasTypeOK /\ TagTypeOK /\ WriterTypeOK

(* "Stores immutable model blobs keyed by SHA-256 with atomic tempfile     *)
(* commit": what a digest's path names is a whole blob with that digest.   *)
CasIntegrity ==
    \A l \in Place, d \in Digest : HasFile(l, d) => data[link[l][d]] = d

(* Two writers of d, at least one of which pulls. *)
Racing(d) ==
    \E w \in Puller : \E v \in Writer \ {w} : wdigest[w] = d /\ wdigest[v] = d

(* Where hard links work, a path names something else than its whole blob  *)
(* only for a digest that a pull and another writer commit both: rename    *)
(* and hard_link publish whole files, and commit_artifact's fs::copy, the  *)
(* only write to a published file, needs somebody to have put the standard *)
(* path back between its remove_file and its hard_link.                    *)
TornNeedsRace ==
    \A l \in Place, d \in Digest :
        HardLinks /\ HasFile(l, d) /\ ~Racing(d) => data[link[l][d]] = d

(* Once everybody has finished and nobody was killed, every path names a   *)
(* whole blob again.                                                       *)
SettledIntegrity ==
    (\A w \in Writer : wpc[w] \in {"new", "done", "failed"}) => CasIntegrity

(* Re-pulling a stored digest replaces its files one at a time, yet there  *)
(* is no moment at which the digest cannot be found: the flat file is in   *)
(* place before the standard one is removed, also when the process is      *)
(* killed in between.                                                      *)
StaysAvailable ==
    [][\A d \in Digest : Resolvable(d) => Resolvable(d)']_writingVars

(* A tag is written after its blob, so as long as nothing is pruned a tag  *)
(* that can be read names a blob that can be found.                        *)
TagsResolve == \A t \in Tag : tag[t] \in Digest => Resolvable(tag[t])

(* A tag reads as the empty string only while a writer is between its      *)
(* truncation and its write, or because one stopped there.                 *)
BlankTagHasWriter ==
    \A t \in Tag : tag[t] = Blank =>
        \E w \in Writer : wtag[w] = t /\ wpc[w] \in {"tag_write", "failed", "killed"}
-----------------------------------------------------------------------------
(* Why TornNeedsRace and TagsResolve hold, as inductive invariants.        *)

(* An inode is of digest d: it is the file d was first stored in, or was   *)
(* created by a writer of d. *)
Of(i, d) == i[1] = d \/ (i[1] \in Writer /\ wdigest[i[1]] = d)

NotStaged(i) == \A w \in Writer : i = Staged(w) => wpc[w] \notin BeforeRename

(* Published files belong to their digest and are no longer staged. *)
PublishedOwned ==
    \A l \in Place, d \in Digest :
        HasFile(l, d) => Of(link[l][d], d) /\ NotStaged(link[l][d])

(* So does the destination of a fs::copy. *)
CopyOwned ==
    \A w \in Writer : wpc[w] = "copying" =>
        Of(copying[w][2], wdigest[w]) /\ NotStaged(copying[w][2])

(* A staged file is whole by the time it is renamed. *)
StagedWhole ==
    \A w \in Writer :
        wpc[w] \in {"target", "rename"} => data[Staged(w)] = wdigest[w]

(* A pull that is alone on its digest finds the standard path free; when   *)
(* it falls back to fs::copy, there is nothing to copy.                    *)
LonePullLinks ==
    \A w \in Puller : HardLinks /\ ~Racing(wdigest[w]) =>
        /\ wpc[w] = "link" => ~HasFile("blobs", wdigest[w])
        /\ wpc[w] = "copy" => ~HasFile(wplace[w], wdigest[w])
        /\ wpc[w] # "copying"

IntegrityInv ==
    PublishedOwned /\ CopyOwned /\ StagedWhole /\ LonePullLinks /\ TornNeedsRace

(* With nothing pruned, the flat file of a pull stays from its rename on,  *)
(* and a blob can be found before its tag is written.                      *)
FlatPublished ==
    \A w \in Puller : wpc[w] \in Relink => HasFile(wplace[w], wdigest[w])

TaggedResolvable ==
    \A w \in Writer : wpc[w] \in Tagging => Resolvable(wdigest[w])

AvailabilityInv == FlatPublished /\ TaggedResolvable /\ TagsResolve
=============================================================================
