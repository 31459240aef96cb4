--------------------------- MODULE ModelResolution ---------------------------
(***************************************************************************)
(* How `modelctl pull` turns what the user typed into one file to          *)
(* download: built-in aliases (pull/resolve/alias.rs), the Hugging Face    *)
(* tree listing (hf_tree.rs) and the choice of a file (select.rs).         *)
(*                                                                         *)
(* A file path is a sequence of tokens in upper case (every comparison the *)
(* code makes of a stem is on to_ascii_uppercase), cut so that a substring *)
(* of characters is a run of tokens: BF16 is <<"B", "F16">>.  The          *)
(* extension the listing is filtered by is compared with its case, and is  *)
(* a field of its own; the tokens "-OF-" and ".PART" are the lower-case    *)
(* marks of a shard.                                                       *)
(***************************************************************************)
EXTENDS Integers, SequencesExt, FiniteSets

CONSTANTS
  Requests,   \* what may be typed: [spec, format, quant, override]
  Aliases,    \* ALIASES: alias -> [repo, path, name, tag]
  RepoSpecs,  \* the specs that contain a '/'
  RepoName,   \* repository -> its last segment, lower case, '_' as '-'
  Trees,      \* the listings the Hub may answer with
  None        \* an absent Option

Entry == [type : STRING, ext : STRING, path : Seq(STRING)]

ASSUME ResolutionAssumption ==
  /\ None \notin Nat
  /\ \A r \in Requests : r.quant = None \/ (r.quant \in Seq(STRING) /\ r.quant # <<>>)
  /\ Trees \subseteq Seq(Entry)

VARIABLES
  phase,   \* "typed", "asked", "listed", "resolved" or "failed"
  req,     \* the request, fixed
  tree,    \* the entries of the listing, in the order of the answer
  chosen   \* the ResolvedModel, or None

vars == <<phase, req, tree, chosen>>

(* The paths of a listing's answer that the code compares for equality,    *)
(* with their case; a path is made of upper-cased words here, so a listing *)
(* with MODEL.safetensors in it, which the code would not take, stands     *)
(* for none of these (hf_tree.rs 53, select.rs 40).                        *)
ModelSafetensors == <<"MODEL", ".", "SAFETENSORS">>
TokenizerJson == <<"TOKENIZER", ".", "JSON">>

Preferred == << <<"Q4", "_", "K", "_", "M">>, <<"Q4", "_", "0">>,
                <<"Q8", "_", "0">>, <<"F16">> >>
Delims == {"-", "_", "."}

------------------------------------------------------------------------------
(* Matching a file against a quantization.                                  *)

(* The positions of path at which q starts: str::find, repeated.            *)
Occurs(path, q) ==
  {i \in 1 .. Len(path) - Len(q) + 1 : SubSeq(path, i, i + Len(q) - 1) = q}

Holds(path, q) == Occurs(path, q) # {}

matches_quant_strict(path, q) ==
  \E d \in Delims : IsSuffix(<<d>> \o q \o <<".", "GGUF">>, path)

OnlyBF16(path, q) ==
  /\ q = <<"F16">>
  /\ Holds(path, <<"B", "F16">>)
  /\ ~Holds(path, <<"-", "F16">>)

matches_quant_delimited(path, q) ==
  /\ ~OnlyBF16(path, q)
  /\ \E i \in Occurs(path, q) :
       /\ i = 1 \/ path[i - 1] \in Delims
       /\ i + Len(q) = Len(path) + 1 \/ path[i + Len(q)] \in Delims

\* Variant: the last resort is a plain substring test.
matches_quant_fallback_NoGuard(path, q) == Holds(path, q)

matches_quant_fallback(path, q) == ~OnlyBF16(path, q) /\ Holds(path, q)

(* The first hit of the first search that has one, None when none has:      *)
(* iter().find, tried once per set of hits.                                 *)
FirstFound(searches) ==
  LET s == SelectInSeq(searches, LAMBDA hits : hits # {})
  IN IF s = 0 THEN None ELSE Min(searches[s])

(* The searches of select_file, over the positions of files in a listing:   *)
(* for the quantization asked for by three tests of falling strictness;     *)
(* without one, for the preferences, all of them strictly before any of     *)
(* them loosely.  Both loops run over the preferences outside and over the  *)
(* files inside.                                                            *)
Searches(entries, files, format, quant) ==
  LET Strict(q) == {i \in files : matches_quant_strict(entries[i].path, q)}
      Delimited(q) == {i \in files : matches_quant_delimited(entries[i].path, q)}
      Fallback(q) == {i \in files : matches_quant_fallback(entries[i].path, q)}
      OfPreferred(Hits(_)) == [p \in DOMAIN Preferred |-> Hits(Preferred[p])]
  IN IF format = "safetensors"
     THEN <<{i \in files : entries[i].path = ModelSafetensors}, files>>
     ELSE IF quant # None
     THEN <<Strict(quant), Delimited(quant), Fallback(quant)>>
     ELSE OfPreferred(Strict) \o OfPreferred(Delimited) \o <<files>>

(* None stands for the Err.                                                 *)
select_file(entries, files, format, quant) ==
  FirstFound(Searches(entries, files, format, quant))

(* An override "name:tag", "name:", ":tag", "tag" or "": a part that is     *)
(* blank after trimming is None, and the default stands.                    *)
parse_tag_override(default_name, default_tag, override) ==
  [name |-> IF override.name = None THEN default_name ELSE override.name,
   tag  |-> IF override.tag = None THEN default_tag ELSE override.tag]

------------------------------------------------------------------------------
(* The listing.                                                             *)

(* The files of a format, as positions in the listing.                      *)
Files(entries, ext) ==
  {i \in DOMAIN entries : entries[i].type = "file" /\ entries[i].ext = ext}

HasShards(entries, files) ==
  \/ \E i \in files : Holds(entries[i].path, <<"-OF-">>) \/ Holds(entries[i].path, <<".PART">>)
  \/ Cardinality(files) > 1 /\ \A i \in files : entries[i].path # ModelSafetensors

(* The repository the code lists: an alias's own when a quantization was    *)
(* asked for with it, else the spec.                                        *)
IsAlias == req.format = "gguf" /\ req.spec \in DOMAIN Aliases
Repo == IF IsAlias THEN Aliases[req.spec].repo ELSE req.spec

(* A format is one of the three the code tells apart: anything that is not  *)
(* "safetensors" is resolved as a GGUF file.                                *)
Safetensors == req.format = "safetensors"
Matched == Files(tree, IF Safetensors THEN "safetensors" ELSE "gguf")

------------------------------------------------------------------------------
Init ==
  /\ phase = "typed"
  /\ req \in Requests
  /\ tree = <<>>
  /\ chosen = None

Resolved(path, repo, default_name, default_tag, tokenizer) ==
  /\ phase' = "resolved"
  /\ chosen' = [path |-> path, repo |-> repo,
                to |-> parse_tag_override(default_name, default_tag, req.override),
                format |-> IF Safetensors THEN "safetensors" ELSE "gguf",
                tokenizer |-> tokenizer]

Failed == phase' = "failed" /\ UNCHANGED chosen

(* resolve_model_with_format: an alias without a quantization needs no      *)
(* network;                                                                 *)
UseAlias ==
  /\ phase = "typed" /\ IsAlias /\ req.quant = None
  /\ LET a == Aliases[req.spec] IN Resolved(a.path, a.repo, a.name, a.tag, FALSE)
  /\ UNCHANGED <<req, tree>>

(* an alias with one, or anything with a '/', is a repository to list;      *)
AskHub ==
  /\ phase = "typed"
  /\ IF IsAlias THEN req.quant # None ELSE req.spec \in RepoSpecs
  /\ phase' = "asked"
  /\ UNCHANGED <<req, tree, chosen>>

(* everything else is an unknown alias.                                     *)
UnknownSpec ==
  /\ phase = "typed" /\ ~IsAlias /\ req.spec \notin RepoSpecs
  /\ Failed
  /\ UNCHANGED <<req, tree>>

(* The request fails, the status is not a success, or the body does not     *)
(* parse.                                                                   *)
HubFails ==
  /\ phase = "asked"
  /\ Failed
  /\ UNCHANGED <<req, tree>>

HubAnswers ==
  /\ phase = "asked"
  /\ tree' \in Trees
  /\ phase' = "listed"
  /\ UNCHANGED <<req, chosen>>

(* The rest of resolve_hf_repo.  A listing with no file of the format, with *)
(* Safetensors shards, or with nothing of the quantization, is an error.    *)
Selected == select_file(tree, Matched, req.format, req.quant)

Choosable ==
  /\ Matched # {}
  /\ ~(Safetensors /\ HasShards(tree, Matched))
  /\ Selected # None

RejectListing ==
  /\ phase = "listed" /\ ~Choosable
  /\ Failed
  /\ UNCHANGED <<req, tree>>

Choose ==
  /\ phase = "listed" /\ Choosable
  /\ Resolved(tree[Selected].path, Repo, RepoName[Repo],
              IF Safetensors \/ req.quant = None THEN <<"LATEST">> ELSE req.quant,
              /\ Safetensors
              /\ \E i \in DOMAIN tree : tree[i].type = "file" /\ tree[i].path = TokenizerJson)
  /\ UNCHANGED <<req, tree>>

Next ==
  \/ UseAlias \/ AskHub \/ UnknownSpec
  \/ HubFails \/ HubAnswers \/ RejectListing \/ Choose

Spec == Init /\ [][Next]_vars

------------------------------------------------------------------------------
(* What the choice promises.                                                *)

(* How good a file is for a request: the smaller the better, and a          *)
(* reference for the order of the loops of select_file that does not loop.  *)
Rank(path, quant) ==
  LET n == Len(Preferred)
      p == {i \in 1 .. n : matches_quant_strict(path, Preferred[i])}
      d == {i \in 1 .. n : matches_quant_delimited(path, Preferred[i])}
      Least(S) == CHOOSE i \in S : \A j \in S : i <= j
  IN IF quant # None
     THEN IF matches_quant_strict(path, quant) THEN 1
          ELSE IF matches_quant_delimited(path, quant) THEN 2 ELSE 3
     ELSE IF p # {} THEN Least(p)
          ELSE IF d # {} THEN n + Least(d) ELSE 2 * n + 1

Listed == phase = "resolved" /\ tree # <<>>

(* The quantization a user names is never dropped on the way: with an       *)
(* alias, with a repository, after any listing, the file that is downloaded *)
(* holds it in its name, and F16 is never met by a file that only holds     *)
(* BF16.                                                                    *)
QuantHonoured ==
  (phase = "resolved" /\ ~Safetensors /\ req.quant # None) =>
    /\ Holds(chosen.path, req.quant)
    /\ req.quant = <<"F16">> =>
         \E i \in Occurs(chosen.path, <<"F16">>) : i = 1 \/ chosen.path[i - 1] # "B"

(* Of the listing's files none is better than the chosen one, and of those  *)
(* as good the chosen one comes first.                                      *)
BestFile ==
  (Listed /\ ~Safetensors) =>
    \E i \in Matched :
      /\ tree[i].path = chosen.path
      /\ \A j \in Matched :
           (req.quant = None \/ matches_quant_fallback(tree[j].path, req.quant)) =>
             /\ Rank(tree[i].path, req.quant) <= Rank(tree[j].path, req.quant)
             /\ j < i => Rank(tree[j].path, req.quant) # Rank(tree[i].path, req.quant)

(* A listing that does not name its weights model.safetensors, has several  *)
(* of them or names a shard, is never half downloaded: what is pulled is    *)
(* the one file of its format, or model.safetensors itself.                 *)
WholeFile ==
  (Listed /\ Safetensors) =>
    /\ chosen.path = ModelSafetensors \/ Cardinality(Matched) = 1
    /\ \A i \in Matched : ~Holds(tree[i].path, <<"-OF-">>)

(* What resolve_model_with_format returns is the file that was asked for    *)
(* (pull/resolve/mod.rs:42-85, hf_tree.rs:15-121, select.rs:34-136).        *)
SelectionRight == QuantHonoured /\ BestFile /\ WholeFile

(* Why it is: a file is only chosen by an alias that was asked for without  *)
(* a quantization, or out of the listing that was answered.                 *)
ResolutionInv ==
  /\ phase \in {"typed", "asked", "listed", "resolved", "failed"}
  /\ req \in Requests
  /\ tree \in Trees \/ tree = <<>>
  /\ phase \in {"typed", "asked"} => tree = <<>>
  /\ phase = "resolved" =>
       \/ tree = <<>> /\ req.quant = None
       \/ Choosable /\ chosen.path = tree[Selected].path

==============================================================================
