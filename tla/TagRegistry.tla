----------------------------- MODULE TagRegistry -----------------------------
(***************************************************************************)
(* The tag files tags/<name>/<variant> (tags.rs).  A tag file holds one     *)
(* digest as text.  set_tag and the pull's fs::write both open with         *)
(* truncation and write afterwards, so between the two the file is blank    *)
(* and a reader sees the empty string.                                      *)
(***************************************************************************)
EXTENDS CasLayout

CONSTANTS Tag,    \* name:variant pairs with two valid segments
          Blank   \* what an empty tag file reads as

ASSUME TagAssumption == Blank \notin Digest \cup {None}

VARIABLE tag   \* tag[t]: the digest in t's file, Blank, or None (no file)

TagTypeOK == tag \in [Tag -> Digest \cup {Blank, None}]

(* Tags that existed before name blobs that are stored. *)
TagInit == tag \in [Tag -> {d \in Digest : Resolvable(d)} \cup {None}]

(* File::create, then write_all *)
TagCreate(t)   == tag' = [tag EXCEPT ![t] = Blank]
TagWrite(t, d) == tag' = [tag EXCEPT ![t] = d]
=============================================================================
