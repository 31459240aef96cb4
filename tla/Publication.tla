----------------------------- MODULE Publication -----------------------------
(***************************************************************************)
(* How a pulled model becomes known by name: the tag file and the symbolic *)
(* links <name>.<ext>, <name>:<tag>.<ext> and <name>-<tag>.<ext> of        *)
(* commit_artifact, the Register call that sets the same tag again inside  *)
(* the daemon, and the daemon's List, which reads all tags while they are  *)
(* written.  Pulls run side by side, and each may be killed between any    *)
(* two system calls; the daemon goes on with a Register whose client died. *)
(*                                                                         *)
(* The blob files are in CasWriters; here a digest has a flat file, to     *)
(* which links lead, or the standard name only, which an import gives it.  *)
(* All pulls are of GGUF models, so of one links directory, and a prune    *)
(* finds their flat files.                                                 *)
(***************************************************************************)
EXTENDS Naturals, Sequences, FiniteSets

CONSTANTS
  Puller,     \* processes running modelctl pull
  Importer,   \* processes running modelctl import with a tag
  Target,     \* the <<name, tag>> pairs in use, each a sequence of words
  Portable,   \* the targets both parts of which pass validate_tag_segment
  Imported,   \* the targets imports are given
  Digest,
  Latest,     \* the tag "latest"
  Blank,      \* what a truncated tag file reads as
  None,
  MaxStarted  \* bound: how many pulls, imports and Lists a behaviour starts

ASSUME PublicationAssumption ==
  /\ Puller \cap Importer = {}
  /\ Imported \subseteq Portable /\ Portable \subseteq Target
  /\ Target \subseteq Seq(STRING) \X Seq(STRING)
  (* A name ends before the first colon of an override, or is an alias or   *)
  (* that of a repository, which have none.  It may hold slashes, "a/b:x";  *)
  (* the daemon refuses those.                                              *)
  /\ \A g \in Target : \A i \in DOMAIN g[1] : g[1][i] # ":"
  /\ \A g \in Portable : \A i \in DOMAIN g[1] : g[1][i] # "/"
  (* Left out: tags with a slash, and a tag file where another target has a *)
  (* directory.                                                             *)
  /\ \A g \in Target : \A i \in DOMAIN g[2] : g[2][i] # "/"
  /\ \A g, h \in Target : \A i \in DOMAIN h[1] :
       SubSeq(h[1], 1, i) # g[1] \o <<"/">> \o g[2]
  /\ None \notin Digest /\ Blank \notin Digest /\ None # Blank
  /\ None \notin [target : Target, digest : Digest]
  /\ MaxStarted \in Nat

VARIABLES
  stored,    \* the digests with a blob file, under the flat name or the standard
  flat,      \* those with the flat file cas/sha256-<digest>.gguf
  tag,       \* tag[g]: the digest in g's file, Blank, or None (no file)
  at,        \* at[path]: the digest the link at path leads to, or None
  ppc,       \* ppc[p]: where pull p stands
  job,       \* job[p]: [target, digest] of p, and of a setter
  setting,   \* setting[h]: where the set_tag call made for h stands
  list,      \* the List call: [pc, met], met the targets it has read
  before,    \* history: the targets with a tag file when the List began
  disturbed, \* history: pulls that overlapped, were pruned under or failed
  settled    \* history: targets whose names were last touched by one whole,
             \* undisturbed pull

vars == <<stored, flat, tag, at, ppc, job, setting, list, before, disturbed, settled>>
files == <<stored, flat, tag, at>>
blobs == <<stored, flat>>
listing == <<list, before>>
history == <<disturbed, settled>>

------------------------------------------------------------------------------
(* Names of links.  A hyphen joins name and tag, and names may hold hyphens:*)
(* the dash link of m:7b is the plain link of m-7b.                         *)
Plain(g) == g[1]
Colon(g) == g[1] \o <<":">> \o g[2]
Dash(g)  == g[1] \o <<"-">> \o g[2]

LinksOf(g) == {Plain(g)} \cup (IF g[2] = Latest THEN {} ELSE {Colon(g), Dash(g)})
Own(g) == IF g[2] = Latest THEN {Plain(g)} ELSE {Colon(g), Dash(g)}
Path == UNION {LinksOf(g) : g \in Target}

(* A name with a slash: its tag file lies deeper than <name>/<tag>, and the *)
(* directory its links would need does not exist.                           *)
Nested(g) == \E i \in DOMAIN g[1] : g[1][i] = "/"

(* A link leads to the flat file, and Path::exists follows it.              *)
Live(path) == at[path] \in flat

TargetOf(h) == job[h].target
Ended == {"done", "skipped", "failed", "killed"}
Active(h) == ppc[h] \notin {"new"} \cup Ended \/ setting[h] # "idle"
Clash(g, h) ==
  IF h \in Importer THEN g = TargetOf(h)
                  ELSE LinksOf(g) \cap LinksOf(TargetOf(h)) # {}

Init ==
  /\ stored = {}
  /\ flat = {}
  /\ tag = [g \in Target |-> None]
  /\ at = [l \in Path |-> None]
  /\ ppc = [h \in Puller \cup Importer |-> "new"]
  /\ job = [h \in Puller \cup Importer |-> None]
  /\ setting = [h \in Puller \cup Importer |-> "idle"]
  /\ list = [pc |-> "idle", met |-> {}]
  /\ before = {}
  /\ disturbed = {}
  /\ settled = {}

MayStart ==
  Cardinality({h \in Puller \cup Importer : ppc[h] # "new"})
    + (IF list.pc = "idle" THEN 0 ELSE 1) < MaxStarted

Goto(p, pc) == ppc' = [ppc EXCEPT ![p] = pc]
Put(path, d) == at' = [at EXCEPT ![path] = d]

(* History: h, which has stored d, starts to write g's tag and, if it is a  *)
(* pull, its links.  A pull is also disturbed when another one brings back  *)
(* the flat file that its plain link leads to.                              *)
Touch(h, g, d) ==
  LET others == {q \in (Puller \cup Importer) \ {h} : Active(q) /\ Clash(g, q)}
      revived == {q \in Puller : /\ h \in Puller /\ d \notin flat
                                 /\ Active(q) /\ at[Plain(TargetOf(q))] = d}
  IN /\ disturbed' = disturbed \cup (others \cap Puller) \cup revived
                       \cup (IF others # {} /\ h \in Puller THEN {h} ELSE {})
     /\ settled' = {s \in settled :
                      s # g /\ (h \in Importer \/ Own(s) \cap LinksOf(g) = {})}

------------------------------------------------------------------------------
(* run_pull.                                                                *)

(* The tag is there and so is its blob, and there is no --force.  Nothing   *)
(* else is looked at, nor repaired: not the links.                          *)
PullSkip(p, g) ==
  /\ ppc[p] = "new" /\ MayStart
  /\ tag[g] \in stored
  /\ Goto(p, "skipped")
  /\ UNCHANGED <<files, job, setting, listing, history>>

(* Downloaded, hashed and renamed to the flat name, and linked or copied to *)
(* the standard one (CasWriters in full).                                   *)
PullStored(p, g, d) ==
  /\ ppc[p] = "new" /\ MayStart
  /\ stored' = stored \cup {d}
  /\ flat' = flat \cup {d}
  /\ job' = [job EXCEPT ![p] = [target |-> g, digest |-> d]]
  /\ Goto(p, "tag_create")
  /\ Touch(p, g, d)
  /\ UNCHANGED <<tag, at, setting, listing>>

\* Variant: the tag is left for Register to write.
PullTagCreate_Later(p) ==
  /\ ppc[p] = "tag_create"
  /\ Goto(p, "plain")
  /\ UNCHANGED <<files, job, setting, listing, history>>

(* fs::write of the tag file truncates, then writes.  No segment is         *)
(* validated on this side.                                                  *)
PullTagCreate(p) ==
  /\ ppc[p] = "tag_create"
  /\ tag' = [tag EXCEPT ![TargetOf(p)] = Blank]
  /\ Goto(p, "tag_write")
  /\ UNCHANGED <<blobs, at, job, setting, listing, history>>

PullTagWrite(p) ==
  /\ ppc[p] = "tag_write"
  /\ tag' = [tag EXCEPT ![TargetOf(p)] = job[p].digest]
  /\ Goto(p, "plain")
  /\ UNCHANGED <<blobs, at, job, setting, listing, history>>

PullTagFails(p) ==
  /\ ppc[p] \in {"tag_create", "tag_write", "plain"}   \* or the links directory
  /\ Goto(p, "failed")
  /\ UNCHANGED <<files, job, setting, listing, history>>

AfterPlain(p) == IF TargetOf(p)[2] = Latest THEN "call" ELSE "colon_rm"

\* Variant: a link that is there is kept, wherever it leads.
PlainTest_NoFollow(p) ==
  /\ ppc[p] = "plain"
  /\ Goto(p, IF TargetOf(p)[2] = Latest \/ at[Plain(TargetOf(p))] = None
             THEN "plain_rm" ELSE AfterPlain(p))
  /\ UNCHANGED <<files, job, setting, listing, history>>

\* Variant: the newest pull takes the plain name.
PlainTest_Always(p) ==
  /\ ppc[p] = "plain"
  /\ Goto(p, "plain_rm")
  /\ UNCHANGED <<files, job, setting, listing, history>>

(* The plain link is for "latest", or for the first that comes.             *)
PlainTest(p) ==
  /\ ppc[p] = "plain"
  /\ Goto(p, IF TargetOf(p)[2] = Latest \/ ~Live(Plain(TargetOf(p)))
             THEN "plain_rm" ELSE AfterPlain(p))
  /\ UNCHANGED <<files, job, setting, listing, history>>

(* remove_file and symlink, in that order for each link; symlink does not   *)
(* replace what is there.  Errors of both are dropped.                      *)
LinkAt(p) ==
  CASE ppc[p] \in {"plain_rm", "plain_ln"} -> Plain(TargetOf(p))
    [] ppc[p] \in {"colon_rm", "colon_ln"} -> Colon(TargetOf(p))
    [] ppc[p] \in {"dash_rm", "dash_ln"} -> Dash(TargetOf(p))

AfterLink(p) ==
  CASE ppc[p] = "plain_rm" -> "plain_ln"
    [] ppc[p] = "plain_ln" -> AfterPlain(p)
    [] ppc[p] = "colon_rm" -> "colon_ln"
    [] ppc[p] = "colon_ln" -> "dash_rm"
    [] ppc[p] = "dash_rm" -> "dash_ln"
    [] ppc[p] = "dash_ln" -> "call"

Removing == {"plain_rm", "colon_rm", "dash_rm"}
Linking == {"plain_ln", "colon_ln", "dash_ln"}

\* Variant: only the plain link is removed before it is made anew.
RemoveLink_PlainOnly(p) ==
  /\ ppc[p] \in Removing
  /\ IF ppc[p] = "plain_rm" THEN Put(LinkAt(p), None) ELSE UNCHANGED at
  /\ Goto(p, AfterLink(p))
  /\ UNCHANGED <<blobs, tag, job, setting, listing, history>>

RemoveLink(p) ==
  /\ ppc[p] \in Removing
  /\ Put(LinkAt(p), None)
  /\ Goto(p, AfterLink(p))
  /\ UNCHANGED <<blobs, tag, job, setting, listing, history>>

MakeLink(p) ==
  /\ ppc[p] \in Linking /\ ~Nested(TargetOf(p))
  /\ IF at[LinkAt(p)] = None THEN Put(LinkAt(p), job[p].digest) ELSE UNCHANGED at
  /\ Goto(p, AfterLink(p))
  /\ UNCHANGED <<blobs, tag, job, setting, listing, history>>

(* For a nested name both always fail: <links>/a is no directory.           *)
LinkStepFails(p) ==
  /\ ppc[p] \in Removing \cup Linking
  /\ Goto(p, AfterLink(p))
  /\ disturbed' = disturbed \cup {p}
  /\ UNCHANGED <<files, job, setting, listing, settled>>

(* register_with_modeld: without a socket or a connection it returns, else  *)
(* the call is handled inside the daemon while the pull waits.  Afterwards  *)
(* comes Router1.Reload, whose outcome nothing here depends on.             *)
PullDone(p) ==
  /\ Goto(p, "done")
  /\ settled' = IF p \in disturbed THEN settled ELSE settled \cup {TargetOf(p)}

NoDaemon(p) ==
  /\ ppc[p] = "call"
  /\ PullDone(p)
  /\ UNCHANGED <<files, job, setting, listing, disturbed>>

(* handle_register refuses an unportable name or tag and changes nothing;   *)
(* else it goes on to set_tag.                                              *)
Register(p) ==
  /\ ppc[p] = "call"
  /\ Goto(p, "wait")
  /\ setting' = [setting EXCEPT ![p] =
                   IF TargetOf(p) \in Portable THEN "create" ELSE "idle"]
  /\ UNCHANGED <<files, job, listing, history>>

Registered(p) ==
  /\ ppc[p] = "wait" /\ setting[p] = "idle"
  /\ PullDone(p)
  /\ UNCHANGED <<files, job, setting, listing, disturbed>>

(* A kill at any point; a Register that is under way is not undone.         *)
Kill(p) ==
  /\ ppc[p] \notin {"new"} \cup Ended
  /\ Goto(p, "killed")
  /\ UNCHANGED <<files, job, setting, listing, history>>

------------------------------------------------------------------------------
(* set_tag, for an import or, inside the daemon, for a pull's Register.     *)

(* store_blob renames onto the name blob_path finds, or onto the standard   *)
(* one: a flat file that was pruned does not come back.                     *)
ImportStored(s, g, d) ==
  /\ s \in Importer /\ ppc[s] = "new" /\ MayStart
  /\ Goto(s, "done")
  /\ stored' = stored \cup {d}
  /\ job' = [job EXCEPT ![s] = [target |-> g, digest |-> d]]
  /\ setting' = [setting EXCEPT ![s] = "create"]
  /\ Touch(s, g, d)
  /\ UNCHANGED <<flat, tag, at, listing>>

SetCreate(h) ==
  /\ setting[h] = "create"
  /\ tag' = [tag EXCEPT ![TargetOf(h)] = Blank]
  /\ setting' = [setting EXCEPT ![h] = "write"]
  /\ UNCHANGED <<blobs, at, ppc, job, listing, history>>

(* Register then looks at the blob's format and may answer                  *)
(* SecurityRejection: the tag is set by then, and the pull only warns.      *)
SetWrite(h) ==
  /\ setting[h] = "write"
  /\ tag' = [tag EXCEPT ![TargetOf(h)] = job[h].digest]
  /\ setting' = [setting EXCEPT ![h] = "idle"]
  /\ UNCHANGED <<blobs, at, ppc, job, listing, history>>

(* The daemon stops, or the importer dies, or set_tag meets an I/O error.   *)
SetStops(h) ==
  /\ setting[h] \in {"create", "write"}
  /\ setting' = [setting EXCEPT ![h] = "idle"]
  /\ disturbed' = disturbed \cup ({h} \cap Puller)
  /\ UNCHANGED <<files, ppc, job, listing, settled>>

(* A prune deletes both names of a digest, the standard one first, which    *)
(* may have come back by the second unlink; it leaves links and tags.       *)
Prune(d) ==
  /\ d \in stored
  /\ flat' = flat \ {d}
  /\ stored' = stored \ {d} \/ (d \in flat /\ stored' = stored)
  /\ disturbed' = disturbed \cup {p \in Puller : Active(p)}
  /\ UNCHANGED <<tag, at, ppc, job, setting, listing, settled>>

------------------------------------------------------------------------------
(* handle_list: list_tags walks tags/<name> and reads file by file; a file  *)
(* that is there all along is met once, one created meanwhile may be, and   *)
(* what is a directory where a tag should be is passed over.                *)
Tagged == {g \in Target : tag[g] # None}
Walked == {g \in Target : ~Nested(g)}

ListBegin ==
  /\ list.pc = "idle" /\ MayStart
  /\ list' = [pc |-> "walk", met |-> {}]
  /\ before' = Tagged
  /\ UNCHANGED <<files, ppc, job, setting, history>>

ListRead(g) ==
  /\ list.pc = "walk" /\ g \in (Tagged \cap Portable) \ list.met
  /\ list' = [list EXCEPT !.met = @ \cup {g}]
  /\ UNCHANGED <<files, ppc, job, setting, before, history>>

\* Variant: the walk ends at the first file it cannot take.
ListRefused_Partial(g) ==
  /\ list.pc = "walk" /\ g \in (Tagged \cap Walked) \ Portable
  /\ list' = [list EXCEPT !.pc = "done"]
  /\ UNCHANGED <<files, ppc, job, setting, before, history>>

(* get_tag refuses a file whose name it would not have written, `?` drops   *)
(* the whole list, and unwrap_or_default answers with none.                 *)
ListRefused(g) ==
  /\ list.pc = "walk" /\ g \in (Tagged \cap Walked) \ Portable
  /\ list' = [pc |-> "done", met |-> {}]
  /\ UNCHANGED <<files, ppc, job, setting, before, history>>

ListEnd ==
  /\ list.pc = "walk" /\ before \cap Walked \subseteq list.met
  /\ list' = [list EXCEPT !.pc = "done"]
  /\ UNCHANGED <<files, ppc, job, setting, before, history>>

------------------------------------------------------------------------------
PullStep(p) ==
  \/ PullTagCreate(p) \/ PullTagWrite(p) \/ PullTagFails(p)
  \/ PlainTest(p) \/ RemoveLink(p) \/ MakeLink(p) \/ LinkStepFails(p)
  \/ NoDaemon(p) \/ Register(p) \/ Registered(p) \/ Kill(p)

Next ==
  \/ \E p \in Puller, g \in Target :
       PullSkip(p, g) \/ \E d \in Digest : PullStored(p, g, d)
  \/ \E p \in Puller : PullStep(p)
  \/ \E s \in Importer, g \in Imported, d \in Digest : ImportStored(s, g, d)
  \/ \E h \in Puller \cup Importer : SetCreate(h) \/ SetWrite(h) \/ SetStops(h)
  \/ \E d \in Digest : Prune(d)
  \/ ListBegin \/ ListEnd \/ \E g \in Target : ListRead(g) \/ ListRefused(g)

Spec == Init /\ [][Next]_vars

------------------------------------------------------------------------------
(* What a name means.                                                       *)

(* After a pull that nothing overlapped, that was not killed and met no     *)
(* error, the tag file and the links of the tag's own lead to one blob, and *)
(* stay so until somebody else writes one of these paths                    *)
(* (commit_artifact.rs:50-113, register.rs:94).                             *)
LinksFollowTag ==
  \A g \in settled : tag[g] \in Digest /\ \A l \in Own(g) : at[l] = tag[g]

(* A plain link that works is never taken over: it changes in a step of a   *)
(* pull of that name's "latest", of a pull whose dash link has the same     *)
(* path, or of a pull of that name that a concurrent one or an error        *)
(* disturbed between exists() and remove_file (commit_artifact.rs:99-104).  *)
PlainStays ==
  [][\A g \in Target : Live(Plain(g)) /\ at'[Plain(g)] # at[Plain(g)] =>
       \E p \in Puller :
         /\ ppc'[p] # ppc[p]
         /\ \/ TargetOf(p) = <<g[1], Latest>>
            \/ TargetOf(p)[2] # Latest /\ Dash(TargetOf(p)) = Plain(g)
            \/ TargetOf(p)[1] = g[1] /\ p \in disturbed]_vars

(* A pull of any tag that ran alone to its end, and whose links did not     *)
(* fail, leaves a plain link to a flat file that is there, also when a      *)
(* prune had left the link dangling, and when an import has brought back    *)
(* the digest, but not the file (commit_artifact.rs:98-104, store.rs:50).   *)
EndsLive ==
  [][\A p \in Puller :
       ppc[p] # "done" /\ ppc'[p] = "done" /\ p \notin disturbed =>
         at'[Plain(TargetOf(p))] \in flat']_vars

(* Register truncates a tag that is right: when a pull's Register reaches   *)
(* the tag file, the pull has already written the same digest there, unless *)
(* somebody wrote the tag meanwhile.  So what it rejects is tagged already, *)
(* and a daemon that stops half-way loses a good tag (register.rs:94).      *)
RegisterRepeats ==
  \A p \in Puller : setting[p] = "create" /\ p \notin disturbed =>
    tag[TargetOf(p)] = job[p].digest

(* Of the tags there when it began, List leaves out those of nested names,  *)
(* always and without a word; of the others it answers with all, or with    *)
(* none, and with none only because of a file that lies where a tag should  *)
(* and whose name the daemon refuses (tags.rs:125-153, model1.rs:45).       *)
ListAllOrNothing ==
  list.pc = "done" =>
    \/ list.met \cap before = before \cap Walked /\ before \cap Walked \subseteq Portable
    \/ list.met = {} /\ \E g \in Walked \ Portable : tag[g] # None
------------------------------------------------------------------------------
(* Why these hold: types, and an inductive invariant in parts.              *)

Running == {"tag_create", "tag_write", "plain", "call", "wait"} \cup Removing \cup Linking

PublicationTypeOK ==
  /\ flat \subseteq stored /\ stored \subseteq Digest
  /\ tag \in [Target -> Digest \cup {Blank, None}]
  /\ at \in [Path -> Digest \cup {None}]
  /\ ppc \in [Puller \cup Importer -> {"new"} \cup Running \cup Ended]
  /\ job \in [Puller \cup Importer -> [target : Target, digest : Digest] \cup {None}]
  /\ setting \in [Puller \cup Importer -> {"idle", "create", "write"}]
  /\ list \in [pc : {"idle", "walk", "done"}, met : SUBSET Portable]
  /\ before \subseteq Target
  /\ disturbed \subseteq Puller
  /\ settled \subseteq Target

(* What is at work has a job; only a pull that waits for Register, or was   *)
(* killed then, has a set_tag under way; "latest" has the plain link only.  *)
WorkInOrder ==
  /\ \A h \in Puller \cup Importer : Active(h) => job[h] # None
  /\ \A s \in Importer : ppc[s] \in {"new", "done"}
  /\ \A p \in Puller :
       /\ setting[p] # "idle" => ppc[p] \in {"wait", "killed"}
       /\ ppc[p] \in {"colon_rm", "colon_ln", "dash_rm", "dash_ln"} => TargetOf(p)[2] # Latest

(* Nobody else is at work on the paths of an undisturbed pull.              *)
AloneOnPaths ==
  \A p \in Puller \ disturbed, h \in Puller \cup Importer :
    h # p /\ Active(p) /\ Active(h) => ~Clash(TargetOf(p), h)

(* How far an undisturbed pull has come with the tag, and its file is there.*)
TagAhead(p) ==
  /\ ppc[p] \in Running => job[p].digest \in flat
  /\ \/ ppc[p] \in Running \ {"tag_create", "tag_write"} /\ setting[p] # "write"
     \/ setting[p] = "create"
     => tag[TargetOf(p)] = job[p].digest

(* How far it has come with the links.                                      *)
LinksAhead(p) ==
  LET g == TargetOf(p)
      d == job[p].digest
  IN /\ ppc[p] = "plain_rm" /\ g[2] # Latest => ~Live(Plain(g))
     /\ ppc[p] \in Linking => at[LinkAt(p)] = None
     /\ ppc[p] \in {"colon_rm", "colon_ln", "dash_rm", "dash_ln", "call", "wait"} =>
          Live(Plain(g)) /\ (g[2] = Latest => at[Plain(g)] = d)
     /\ ppc[p] \in {"dash_rm", "dash_ln", "call", "wait"} /\ g[2] # Latest => at[Colon(g)] = d
     /\ ppc[p] \in {"call", "wait"} /\ g[2] # Latest => at[Dash(g)] = d

PullsAhead == \A p \in Puller \ disturbed : TagAhead(p) /\ LinksAhead(p)

(* Nobody is at work on the tag or the own links of a settled target.       *)
SettledQuiet ==
  \A g \in settled, h \in Puller \cup Importer :
    Active(h) => g # TargetOf(h) /\ (h \in Puller => Own(g) \cap LinksOf(TargetOf(h)) = {})

PublicationInv ==
  /\ WorkInOrder
  /\ AloneOnPaths
  /\ PullsAhead
  /\ SettledQuiet
  /\ LinksFollowTag
==============================================================================
