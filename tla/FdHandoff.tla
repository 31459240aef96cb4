------------------------------ MODULE FdHandoff ------------------------------
(***************************************************************************)
(* The descriptor handoff (handle_fd_request in fd_server.rs): a handler   *)
(* resolves an identifier, asks for the size of the blob, opens it, copies *)
(* it into a memfd, seals that and sends it.  It reads the storage root    *)
(* while the daemon's other tasks and the modelctl processes change it.    *)
(***************************************************************************)
EXTENDS ModelStore

CONSTANT Handler   \* concurrent handlers, each serving one request at a time

VARIABLES
    hpc,       \* hpc[h]: where handler h stands
    hid,       \* hid[h]: the tag or digest it was asked for
    hdigest,   \* hdigest[h]: the digest that names, Blank for an empty tag file
    hplace,    \* hplace[h]: the path blob_path looks at, or has returned
    hsize,     \* hsize[h]: size_bytes of the reply
    hfile,     \* hfile[h]: the inode it has opened
    hcontent   \* hcontent[h]: the content of the memfd, Torn for a mixture

handoffVars == <<hpc, hid, hdigest, hplace, hsize, hfile, hcontent>>
allVars == <<storeVars, handoffVars>>

(* How a request ends: descriptor sent, "Model not found" sent, connection *)
(* closed because the blob was not found, or any other error or a kill.    *)
Over == {"sent", "unknown", "missed", "cut"}

HandoffTypeOK ==
    /\ hpc \in [Handler -> {"resolve", "size", "stat", "find", "open", "read",
                            "rest", "send"} \cup Over]
    /\ hid \in [Handler -> Tag \cup Digest \cup {None}]
    /\ hdigest \in [Handler -> Digest \cup {Blank, None}]
    /\ hplace \in [Handler -> Place]
    /\ hsize \in [Handler -> Nat]
    /\ hfile \in [Handler -> Inode \cup {None}]
    /\ hcontent \in [Handler -> Digest \cup {Torn}]
    /\ \A h \in Handler :
          /\ hpc[h] \in {"read", "rest", "send", "sent"} =>
                hdigest[h] \in Digest /\ hfile[h] \in Inode

HandoffInit ==
    /\ hpc = [h \in Handler |-> "cut"]
    /\ hid = [h \in Handler |-> None]
    /\ hdigest = [h \in Handler |-> None]
    /\ hplace = [h \in Handler |-> "blobs"]
    /\ hsize = [h \in Handler |-> 0]
    /\ hfile = [h \in Handler |-> None]
    /\ hcontent = [h \in Handler |-> Torn]

HGoto(h, pc) == hpc' = [hpc EXCEPT ![h] = pc]
-----------------------------------------------------------------------------
(* a framed request of an authorized peer; each comes on its own connection *)
Request(h, id) ==
    /\ hpc[h] \in Over
    /\ HGoto(h, "resolve")
    /\ hid' = [hid EXCEPT ![h] = id]
    /\ hdigest' = [hdigest EXCEPT ![h] = None]
    /\ hplace' = [hplace EXCEPT ![h] = "blobs"]
    /\ hsize' = [hsize EXCEPT ![h] = 0]
    /\ hfile' = [hfile EXCEPT ![h] = None]
    /\ hcontent' = [hcontent EXCEPT ![h] = Torn]

(* TagRegistry::resolve: a digest stands for itself, a tag for what its    *)
(* file holds                                                              *)
Resolved(id) == IF id \in Tag THEN tag[id] ELSE id

Resolve(h) ==
    /\ hpc[h] = "resolve"
    /\ Resolved(hid[h]) # None
    /\ hdigest' = [hdigest EXCEPT ![h] = Resolved(hid[h])]
    /\ HGoto(h, "size")
    /\ UNCHANGED <<hid, hplace, hsize, hfile, hcontent>>

ResolveNothing(h) ==
    /\ hpc[h] = "resolve"
    /\ Resolved(hid[h]) = None
    /\ HGoto(h, "unknown")
    /\ UNCHANGED <<hid, hdigest, hplace, hsize, hfile, hcontent>>

(* whether h's path is a file; an empty digest names the blobs directory   *)
IsFile(h) == hdigest[h] \in Digest /\ HasFile(hplace[h], hdigest[h])

(* blob_path, one is_file() at a time: in "size" for blob_size, in "find"  *)
(* for open_blob                                                           *)
After(pc) == IF pc = "size" THEN "stat" ELSE "open"

ProbeHit(h) ==
    /\ hpc[h] \in {"size", "find"}
    /\ IsFile(h)
    /\ HGoto(h, After(hpc[h]))
    /\ UNCHANGED <<hid, hdigest, hplace, hsize, hfile, hcontent>>

ProbeMiss(h) ==
    /\ hpc[h] \in {"size", "find"}
    /\ ~IsFile(h)
    /\ hplace[h] # "safetensors"
    /\ hplace' = [hplace EXCEPT ![h] = IF @ = "blobs" THEN "gguf" ELSE "safetensors"]
    /\ UNCHANGED <<hpc, hid, hdigest, hsize, hfile, hcontent>>

(* Variant: the safetensors path is not looked at. *)
ProbeNone_TwoNames(h) ==
    /\ hpc[h] \in {"size", "find"}
    /\ ~IsFile(h)
    /\ hplace[h] # "blobs"
    /\ hplace' = [hplace EXCEPT ![h] = "blobs"]
    /\ HGoto(h, After(hpc[h]))
    /\ UNCHANGED <<hid, hdigest, hsize, hfile, hcontent>>

ProbeNone(h) ==
    /\ hpc[h] \in {"size", "find"}
    /\ ~IsFile(h)
    /\ hplace[h] = "safetensors"
    /\ hplace' = [hplace EXCEPT ![h] = "blobs"]
    /\ HGoto(h, After(hpc[h]))
    /\ UNCHANGED <<hid, hdigest, hsize, hfile, hcontent>>

(* blob_size: metadata of the path that was found (for an empty digest, of *)
(* the blobs directory); then open_blob looks again from the first path    *)
Stat(h) ==
    /\ hpc[h] = "stat"
    /\ IsFile(h) \/ hdigest[h] = Blank
    /\ hsize' = [hsize EXCEPT ![h] =
                   IF IsFile(h) THEN FileSize(link[hplace[h]][hdigest[h]]) ELSE 0]
    /\ hplace' = [hplace EXCEPT ![h] = "blobs"]
    /\ HGoto(h, "find")
    /\ UNCHANGED <<hid, hdigest, hfile, hcontent>>

StatFails(h) ==
    /\ hpc[h] = "stat"
    /\ ~IsFile(h)
    /\ hdigest[h] # Blank
    /\ HGoto(h, "missed")
    /\ UNCHANGED <<hid, hdigest, hplace, hsize, hfile, hcontent>>

(* Variant: the tag is resolved once more, by the call that opens. *)
OpenBlob_Reresolves(h) ==
    /\ hpc[h] = "open"
    /\ IsFile(h)
    /\ Resolved(hid[h]) \in Digest
    /\ HasFile(hplace[h], Resolved(hid[h]))
    /\ hfile' = [hfile EXCEPT ![h] = link[hplace[h]][Resolved(hid[h])]]
    /\ HGoto(h, "read")
    /\ UNCHANGED <<hid, hdigest, hplace, hsize, hcontent>>

OpenBlob(h) ==
    /\ hpc[h] = "open"
    /\ IsFile(h)
    /\ hfile' = [hfile EXCEPT ![h] = link[hplace[h]][hdigest[h]]]
    /\ HGoto(h, "read")
    /\ UNCHANGED <<hid, hdigest, hplace, hsize, hcontent>>

OpenFails(h) ==
    /\ hpc[h] = "open"
    /\ ~IsFile(h)
    /\ HGoto(h, "missed")
    /\ UNCHANGED <<hid, hdigest, hplace, hsize, hfile, hcontent>>

(* create_sealed_memfd_from_file reads chunk after chunk: two of them show *)
(* what a change in between does.  The open file stays when its names go.  *)
ReadChunk(h) ==
    /\ hpc[h] = "read"
    /\ hcontent' = [hcontent EXCEPT ![h] = data[hfile[h]]]
    /\ HGoto(h, "rest")
    /\ UNCHANGED <<hid, hdigest, hplace, hsize, hfile>>

ReadRest(h) ==
    /\ hpc[h] = "rest"
    /\ hcontent' = [hcontent EXCEPT ![h] = IF data[hfile[h]] = @ THEN @ ELSE Torn]
    /\ HGoto(h, "send")
    /\ UNCHANGED <<hid, hdigest, hplace, hsize, hfile>>

(* send_fd_scm_rights with the payload {digest, size_bytes} *)
Send(h) ==
    /\ hpc[h] = "send"
    /\ HGoto(h, "sent")
    /\ UNCHANGED <<hid, hdigest, hplace, hsize, hfile, hcontent>>

(* an I/O error, a peer that has gone, or the end of the daemon *)
Cut(h) ==
    /\ hpc[h] \notin Over
    /\ HGoto(h, "cut")
    /\ UNCHANGED <<hid, hdigest, hplace, hsize, hfile, hcontent>>

HandoffStep(h) ==
    \/ Resolve(h)
    \/ ResolveNothing(h)
    \/ ProbeHit(h)
    \/ ProbeMiss(h)
    \/ ProbeNone(h)
    \/ Stat(h)
    \/ StatFails(h)
    \/ OpenBlob(h)
    \/ OpenFails(h)
    \/ ReadChunk(h)
    \/ ReadRest(h)
    \/ Send(h)
    \/ Cut(h)

HandoffNext ==
    \/ StoreNext /\ UNCHANGED handoffVars
    \/ \E h \in Handler : HandoffStep(h) /\ UNCHANGED storeVars
    \/ \E h \in Handler, id \in Tag \cup Digest : Request(h, id) /\ UNCHANGED storeVars

HandoffSpec == StoreInit /\ HandoffInit /\ [][HandoffNext]_allVars
-----------------------------------------------------------------------------
(* "Delivers verified, sealed model file descriptors": the handler does    *)
(* not hash what it copies, yet a descriptor holds the whole blob whose    *)
(* digest the reply names, and size_bytes is its size, although both were  *)
(* looked up separately while files were pruned and replaced; except where *)
(* a blob can be torn (TornNeedsRace).                                     *)
HandoffWhole ==
    \A h \in Handler : hpc[h] = "sent" /\ HardLinks /\ ~Racing(hdigest[h]) =>
        hcontent[h] = hdigest[h] /\ hsize[h] = SizeOf[hdigest[h]]

(* As long as nothing is pruned, a model that has a tag is handed out; only *)
(* a pull of the same digest, which takes the standard path away for a     *)
(* moment, can make a request for it fail.                                 *)
MissNeedsPull ==
    \A h \in Handler :
        Pruner = {} /\ hpc[h] = "missed" /\ hid[h] \in Tag /\ hdigest[h] \in Digest =>
            \E w \in Puller : wdigest[w] = hdigest[h] /\ wpc[w] \notin BeforeRename \cup {"unlink_std"}
-----------------------------------------------------------------------------
(* Why HandoffWhole holds: an open file belongs to its digest and is not   *)
(* staged, so nobody writes to it unless writers race, and the size was    *)
(* read from a whole file.                                                 *)
OpenedOwned ==
    \A h \in Handler : hpc[h] \in {"read", "rest", "send", "sent"} =>
        Of(hfile[h], hdigest[h]) /\ NotStaged(hfile[h])

OpenedWhole ==
    \A h \in Handler : HardLinks /\ ~Racing(hdigest[h]) =>
        /\ hpc[h] \in {"read", "rest"} => data[hfile[h]] = hdigest[h]
        /\ hpc[h] \in {"rest", "send", "sent"} => hcontent[h] = hdigest[h]
        /\ hdigest[h] \in Digest /\ hpc[h] \in {"find", "open", "read", "rest", "send", "sent"} =>
              hsize[h] = SizeOf[hdigest[h]]

HandoffInv == OpenedOwned /\ OpenedWhole

(* Why MissNeedsPull holds: until a pull of d has taken its standard path   *)
(* away, no name of d goes, so the paths that are still to be looked at     *)
(* have a file as long as one that was looked at had none.                  *)
NamesStand(d) ==
    \A w \in Puller : wdigest[w] = d => wpc[w] \in BeforeRename \cup {"unlink_std"}

ProbesFind ==
    \A h \in Handler :
        /\ hpc[h] = "resolve" => hplace[h] = "blobs"
        /\ hid[h] \in Tag /\ hdigest[h] \in Digest /\ NamesStand(hdigest[h]) =>
              /\ Resolvable(hdigest[h])
              /\ hpc[h] \in {"size", "find"} /\ hplace[h] = "gguf" =>
                    HasFile("gguf", hdigest[h]) \/ HasFile("safetensors", hdigest[h])
              /\ hpc[h] \in {"size", "find"} /\ hplace[h] = "safetensors" =>
                    HasFile("safetensors", hdigest[h])
              /\ hpc[h] \in {"stat", "open"} => HasFile(hplace[h], hdigest[h])
              /\ hpc[h] # "missed"
=============================================================================
