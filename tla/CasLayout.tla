------------------------------ MODULE CasLayout ------------------------------
(***************************************************************************)
(* The part of the storage root every process shares: the blob files.      *)
(*                                                                         *)
(* A digest d may be stored under three paths (blob_path in store.rs):     *)
(*     "blobs"        cas/blobs/sha256/<d>                                 *)
(*     "gguf"         cas/sha256-<d>.gguf                                  *)
(*     "safetensors"  cas/sha256-<d>.safetensors                           *)
(* The paths may be hard links to one file, so a path is modelled as a     *)
(* directory entry that names an inode, and content, size and modification *)
(* time belong to the inode.  There is no lock: the daemon's Varlink tasks *)
(* and the one-shot modelctl processes interleave between system calls.    *)
(***************************************************************************)
EXTENDS FiniteSets, Functions

CONSTANTS Digest,   \* SHA-256 digests, each standing for one blob's content
          Writer,   \* modelctl processes that write blobs (import, pull)
          SizeOf,   \* bytes of the blob with a digest
          None,     \* "no file", "no digest"
          Torn,     \* content that is not (yet, or any more) a whole blob
          Shapes,   \* how a digest may be stored when a behaviour starts
          MaxAge    \* the initial modification times are 0..MaxAge

Place == {"blobs", "gguf", "safetensors"}

(* An inode is named by who created it: the history before Init (a digest) *)
(* or a writer, and whether as a staged file or as a fs::copy destination. *)
Inode == (Digest \cup Writer) \X {"staged", "copied"}

(* The states import, pull and prune leave behind: an import writes        *)
(* "blobs" only; a pull hard-links its flat file to "blobs"; a pull whose  *)
(* link and copy failed, and a prune of a safetensors blob, leave only the *)
(* flat file.                                                              *)
PlacesOf(shape) ==
    CASE shape = "absent"           -> {}
      [] shape = "imported"         -> {"blobs"}
      [] shape = "pulled_gguf"      -> {"blobs", "gguf"}
      [] shape = "pulled_st"        -> {"blobs", "safetensors"}
      [] shape = "flat_gguf"        -> {"gguf"}
      [] shape = "flat_st"          -> {"safetensors"}

ASSUME LayoutAssumption ==
    /\ IsFiniteSet(Digest) /\ IsFiniteSet(Writer)
    /\ SizeOf \in [Digest -> Nat \ {0}]
    /\ None \notin Inode \cup Digest
    /\ Torn \notin Digest
    /\ Digest \cap Writer = {}
    /\ Shapes \subseteq {"absent", "imported", "pulled_gguf", "pulled_st",
                         "flat_gguf", "flat_st"}
    /\ MaxAge \in Nat

VARIABLES
    link,    \* link[l][d]: the inode at d's path l, or None
    data,    \* data[i]: the digest of inode i's content, or Torn
    mtime,   \* mtime[i]: modification time of inode i
    clock    \* the latest modification time handed out

casVars == <<link, data, mtime, clock>>

CasTypeOK ==
    /\ link \in [Place -> [Digest -> Inode \cup {None}]]
    /\ data \in [Inode -> Digest \cup {Torn}]
    /\ mtime \in [Inode -> Nat]
    /\ clock \in Nat

CasInit ==
    \E shape \in [Digest -> Shapes], age \in [Digest -> 0 .. MaxAge] :
        /\ link = [l \in Place |-> [d \in Digest |->
                     IF l \in PlacesOf(shape[d]) THEN <<d, "staged">> ELSE None]]
        /\ data = [i \in Inode |->
                     IF i[2] = "staged" /\ i[1] \in Digest THEN i[1] ELSE Torn]
        /\ mtime = [i \in Inode |-> IF i[1] \in Digest THEN age[i[1]] ELSE 0]
        /\ clock = MaxAge
-----------------------------------------------------------------------------
HasFile(l, d) == link[l][d] # None

(* CasStore::blob_path: the first path that is a file, else the standard one. *)
BlobPlace(d) ==
    CASE HasFile("blobs", d)                               -> "blobs"
      [] ~HasFile("blobs", d) /\ HasFile("gguf", d)        -> "gguf"
      [] ~HasFile("blobs", d) /\ ~HasFile("gguf", d)
           /\ HasFile("safetensors", d)                    -> "safetensors"
      [] OTHER                                             -> "blobs"

(* CasStore::has_blob *)
Resolvable(d) == HasFile(BlobPlace(d), d)

FileSize(i) == IF data[i] \in Digest THEN SizeOf[data[i]] ELSE 0

(* GetStorageStats: every distinct inode under one of the paths, once. *)
StoredInodes == {i \in Inode : \E l \in Place, d \in Digest : link[l][d] = i}

StoredBytes == SumFunctionOnSet([i \in Inode |-> FileSize(i)], StoredInodes)

(* unlink(2) and rename(2)/link(2) on one path *)
Unlink(l, d)    == link' = [link EXCEPT ![l][d] = None]
LinkTo(l, d, i) == link' = [link EXCEPT ![l][d] = i]
=============================================================================
