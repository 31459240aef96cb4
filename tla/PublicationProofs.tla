-------------------------- MODULE PublicationProofs --------------------------
(***************************************************************************)
(* Proofs about Publication, for any number of pulls and imports and any   *)
(* names: what the tag, the links and List say of a model.                 *)
(***************************************************************************)
EXTENDS Publication, SequenceTheorems, TLAPS

------------------------------------------------------------------------------
(* Names.  The three links of a target have different paths, and no colon  *)
(* link is a plain one.  Hyphens are another matter.                       *)

LEMMA JoinedName ==
  ASSUME NEW S, NEW n \in Seq(S), NEW c \in S, NEW t \in Seq(S)
  PROVE  /\ n \o <<c>> \o t \in Seq(S)
         /\ Len(n \o <<c>> \o t) = Len(n) + 1 + Len(t)
         /\ (n \o <<c>> \o t)[Len(n) + 1] = c
  <1>1. <<c>> \in Seq(S) /\ Len(<<c>>) = 1 /\ <<c>>[1] = c
    OBVIOUS
  <1>2. Len(n) \in Nat /\ Len(t) \in Nat
    BY LenProperties
  <1> DEFINE u == n \o <<c>>
  <1>3. /\ u \in Seq(S)
        /\ Len(u) = Len(n) + 1
        /\ \A i \in 1 .. Len(n) + 1 : u[i] = IF i <= Len(n) THEN n[i] ELSE <<c>>[i - Len(n)]
    BY <1>1, ConcatProperties
  <1> HIDE DEF u
  <1>4. u[Len(n) + 1] = c
    BY <1>1, <1>2, <1>3
  <1>5. /\ u \o t \in Seq(S)
        /\ Len(u \o t) = Len(u) + Len(t)
        /\ \A i \in 1 .. Len(u) + Len(t) : (u \o t)[i] = IF i <= Len(u) THEN u[i] ELSE t[i - Len(u)]
    BY <1>3, ConcatProperties
  <1>6. (u \o t)[Len(n) + 1] = c
    BY <1>2, <1>3, <1>4, <1>5
  <1>7. QED
    BY <1>3, <1>5, <1>6 DEF u

LEMMA JoinedDiffer ==
  ASSUME NEW S, NEW n \in Seq(S), NEW c \in S, NEW e \in S, NEW t \in Seq(S), c # e
  PROVE  /\ n # n \o <<c>> \o t
         /\ n \o <<c>> \o t # n \o <<e>> \o t
  <1>1. Len(n) \in Nat /\ Len(t) \in Nat
    BY LenProperties
  <1>2. Len(n \o <<c>> \o t) # Len(n)
    BY <1>1, JoinedName
  <1>3. (n \o <<c>> \o t)[Len(n) + 1] # (n \o <<e>> \o t)[Len(n) + 1]
    BY JoinedName
  <1>4. QED
    BY <1>2, <1>3

LEMMA JoinedHolds ==
  ASSUME NEW S, NEW n \in Seq(S), NEW c \in S, NEW t \in Seq(S),
         NEW m, \A i \in DOMAIN m : m[i] # c
  PROVE  n \o <<c>> \o t # m
  <1> DEFINE s == n \o <<c>> \o t
  <1>1. Len(n) \in Nat /\ Len(t) \in Nat
    BY LenProperties
  <1>2. s \in Seq(S) /\ Len(s) = Len(n) + 1 + Len(t) /\ s[Len(n) + 1] = c
    BY JoinedName
  <1> HIDE DEF s
  <1>3. DOMAIN s = 1 .. Len(s)
    BY <1>2, LenProperties
  <1>4. Len(n) + 1 \in DOMAIN s
    BY <1>1, <1>2, <1>3
  <1>5. s # m
    BY <1>2, <1>4
  <1>6. QED
    BY <1>5 DEF s

(* The words of names, as a set without a name of its own. *)
LEMMA NameWords ==
  \E S : /\ ":" \in S /\ "-" \in S
         /\ \A g \in Target : g[1] \in Seq(S) /\ g[2] \in Seq(S)
  <1>1. PICK S : S = STRING \cup {":", "-"}
    OBVIOUS
  <1>2. PICK R : R = STRING
    OBVIOUS
  <1>3. R \subseteq S
    BY <1>1, <1>2, Zenon
  <1>4. Target \subseteq Seq(R) \X Seq(R)
    BY <1>2, PublicationAssumption, Zenon
  <1>5. \A g \in Target : g[1] \in Seq(R) /\ g[2] \in Seq(R)
    BY <1>4
  <1>6. \A g \in Target : g[1] \in Seq(S) /\ g[2] \in Seq(S)
    BY <1>3, <1>5, SeqMonotonic
  <1>7. QED
    BY <1>1, <1>6, Zenon

LEMMA LinkNames ==
  ASSUME NEW g \in Target
  PROVE  Plain(g) # Colon(g) /\ Plain(g) # Dash(g) /\ Colon(g) # Dash(g)
  <1>1. PICK S : ":" \in S /\ "-" \in S /\ g[1] \in Seq(S) /\ g[2] \in Seq(S)
    BY NameWords, Zenon
  <1>2. PICK n \in Seq(S), t \in Seq(S), c \in S, e \in S :
          n = g[1] /\ t = g[2] /\ c = ":" /\ e = "-"
    BY <1>1, Zenon
  <1>3. c # e
    BY <1>2
  <1>4. n # n \o <<c>> \o t /\ n \o <<c>> \o t # n \o <<e>> \o t
    BY <1>3, JoinedDiffer
  <1>5. n # n \o <<e>> \o t
    BY <1>3, JoinedDiffer
  <1>6. QED
    BY <1>2, <1>4, <1>5, Zenon DEF Plain, Colon, Dash

LEMMA ColonIsNotPlain ==
  ASSUME NEW g \in Target, NEW h \in Target
  PROVE  Colon(h) # Plain(g)
  <1>1. PICK S : ":" \in S /\ h[1] \in Seq(S) /\ h[2] \in Seq(S)
    BY NameWords, Zenon
  <1>2. PICK n \in Seq(S), t \in Seq(S), c \in S : n = h[1] /\ t = h[2] /\ c = ":"
    BY <1>1, Zenon
  <1>3. PICK m : m = g[1] /\ \A i \in DOMAIN m : m[i] # c
    BY <1>2, PublicationAssumption
  <1>4. n \o <<c>> \o t # m
    BY <1>3, JoinedHolds
  <1>5. QED
    BY <1>2, <1>3, <1>4, Zenon DEF Plain, Colon

LEMMA LinkSets ==
  ASSUME NEW g \in Target
  PROVE  /\ Plain(g) \in LinksOf(g)
         /\ g[2] # Latest => Colon(g) \in LinksOf(g) /\ Dash(g) \in LinksOf(g)
         /\ Own(g) \subseteq LinksOf(g)
         /\ LinksOf(g) \subseteq Path
  BY DEF LinksOf, Own, Path

------------------------------------------------------------------------------
(* Types, and who is at work. *)

(* Active, spelled out. *)
LEMMA AtWork ==
  ASSUME PublicationTypeOK, NEW h \in Puller \cup Importer
  PROVE  Active(h) <=> ppc[h] \in Running \/ setting[h] # "idle"
  BY DEF PublicationTypeOK, Active, Running, Ended, Removing, Linking

(* What is at work has a target and a digest. *)
LEMMA JobType ==
  ASSUME PublicationTypeOK, WorkInOrder, NEW h \in Puller \cup Importer, Active(h)
  PROVE  /\ job[h] \in [target : Target, digest : Digest]
         /\ TargetOf(h) \in Target
         /\ job[h].digest \in Digest
  BY DEF PublicationTypeOK, WorkInOrder, TargetOf

(* The path and the successor of each step on a link. *)
LEMMA LinkSteps ==
  ASSUME NEW p
  PROVE  /\ ppc[p] = "plain_rm" => LinkAt(p) = Plain(TargetOf(p)) /\ AfterLink(p) = "plain_ln"
         /\ ppc[p] = "plain_ln" => LinkAt(p) = Plain(TargetOf(p)) /\ AfterLink(p) = AfterPlain(p)
         /\ ppc[p] = "colon_rm" => LinkAt(p) = Colon(TargetOf(p)) /\ AfterLink(p) = "colon_ln"
         /\ ppc[p] = "colon_ln" => LinkAt(p) = Colon(TargetOf(p)) /\ AfterLink(p) = "dash_rm"
         /\ ppc[p] = "dash_rm" => LinkAt(p) = Dash(TargetOf(p)) /\ AfterLink(p) = "dash_ln"
         /\ ppc[p] = "dash_ln" => LinkAt(p) = Dash(TargetOf(p)) /\ AfterLink(p) = "call"
  BY DEF LinkAt, AfterLink

(* A step on a link goes on to another link or to Register, and to the      *)
(* links of a tag only for a tag that is not "latest".                      *)
LEMMA LinkGoesOn ==
  ASSUME WorkInOrder, NEW p \in Puller, ppc[p] \in Removing \cup Linking
  PROVE  /\ AfterLink(p) \in {"plain_ln", "colon_rm", "colon_ln", "dash_rm", "dash_ln", "call"}
         /\ AfterLink(p) \in {"colon_rm", "colon_ln", "dash_rm", "dash_ln"}
              => TargetOf(p)[2] # Latest
  BY LinkSteps DEF WorkInOrder, Removing, Linking, AfterPlain

(* It works on a path of its own target. *)
LEMMA LinkIsOwn ==
  ASSUME PublicationTypeOK, WorkInOrder, NEW p \in Puller, ppc[p] \in Removing \cup Linking
  PROVE  LinkAt(p) \in LinksOf(TargetOf(p)) /\ LinkAt(p) \in Path
  <1>1. Active(p)
    BY AtWork DEF Running
  <1>2. TargetOf(p) \in Target
    BY <1>1, JobType
  <1>3. ppc[p] \in {"colon_rm", "colon_ln", "dash_rm", "dash_ln"} => TargetOf(p)[2] # Latest
    BY DEF WorkInOrder
  <1>4. LinkAt(p) \in LinksOf(TargetOf(p))
    BY <1>2, <1>3, LinkSteps, LinkSets DEF Removing, Linking
  <1>5. QED
    BY <1>2, <1>4, LinkSets

(* A start gives the starter its job. *)
LEMMA OrderStart ==
  ASSUME PublicationTypeOK, WorkInOrder, NEW h \in Puller \cup Importer,
         NEW j \in [target : Target, digest : Digest],
         job' = [job EXCEPT ![h] = j],
         \/ /\ h \in Puller /\ ppc[h] = "new" /\ Goto(h, "tag_create") /\ setting' = setting
         \/ /\ h \in Importer /\ Goto(h, "done") /\ setting' = [setting EXCEPT ![h] = "create"]
  PROVE  WorkInOrder'
  <1> USE DEF PublicationTypeOK, Goto
  <1>1. j # None
    BY PublicationAssumption
  <1>2. \A q \in Puller \cup Importer :
          q # h => job'[q] = job[q] /\ ppc'[q] = ppc[q] /\ setting'[q] = setting[q]
    OBVIOUS
  <1>3. job'[h] # None
    BY <1>1
  <1>4. \A q \in Puller \cup Importer : Active(q)' => job'[q] # None
    BY <1>2, <1>3 DEF WorkInOrder, Active
  <1>5. \A s \in Importer : ppc'[s] \in {"new", "done"}
    BY <1>2, PublicationAssumption DEF WorkInOrder
  <1>6. h \in Puller => ppc'[h] = "tag_create" /\ setting'[h] = "idle"
    BY PublicationAssumption DEF WorkInOrder
  <1>7. QED
    BY <1>2, <1>4, <1>5, <1>6 DEF WorkInOrder, TargetOf

(* Any other step keeps the jobs, and moves only who is at work. *)
LEMMA OrderStep ==
  ASSUME PublicationTypeOK, WorkInOrder, NEW h \in Puller \cup Importer, Active(h),
         job' = job,
         NEW pc, Goto(h, pc), NEW st, setting' = [setting EXCEPT ![h] = st],
         h \in Importer => pc \in {"new", "done"},
         h \in Puller /\ st # "idle" => pc \in {"wait", "killed"},
         pc \in {"colon_rm", "colon_ln", "dash_rm", "dash_ln"} => TargetOf(h)[2] # Latest
  PROVE  WorkInOrder'
  BY PublicationAssumption DEF PublicationTypeOK, WorkInOrder, TargetOf, Active, Goto

(* The steps of a pull outside set_tag. *)
LEMMA OrderGoto ==
  ASSUME PublicationTypeOK, WorkInOrder, NEW p \in Puller, ppc[p] \in Running,
         job' = job, setting' = setting, NEW pc, Goto(p, pc),
         setting[p] = "idle" \/ pc = "killed",
         pc \in {"colon_rm", "colon_ln", "dash_rm", "dash_ln"} => TargetOf(p)[2] # Latest
  PROVE  WorkInOrder'
  <1>1. setting = [setting EXCEPT ![p] = setting[p]]
    BY DEF PublicationTypeOK
  <1>2. p \notin Importer
    BY PublicationAssumption
  <1>3. Active(p)
    BY AtWork
  <1>4. QED
    BY <1>1, <1>2, <1>3, OrderStep

(* Each step keeps the types, and keeps the work in order. *)
LEMMA TypeAndOrderStep ==
  ASSUME PublicationTypeOK, WorkInOrder, [Next]_vars
  PROVE  PublicationTypeOK' /\ WorkInOrder'
  <1> USE DEF PublicationTypeOK, Goto
  <1>1. CASE UNCHANGED vars
    <2>1. PublicationTypeOK'
      BY <1>1 DEF vars
    <2>2. WorkInOrder'
      BY <1>1 DEF WorkInOrder, Active, TargetOf, vars
    <2>3. QED
      BY <2>1, <2>2
  <1>2. ASSUME NEW p \in Puller, NEW g \in Target, PullSkip(p, g)
        PROVE  PublicationTypeOK' /\ WorkInOrder'
    <2>1. PublicationTypeOK'
      BY <1>2 DEF PullSkip, files, blobs, listing, history, Ended
    <2>2. WorkInOrder'
      BY <1>2, PublicationAssumption
         DEF PullSkip, files, blobs, listing, history, WorkInOrder, Active, TargetOf, Ended
    <2>3. QED
      BY <2>1, <2>2
  <1>3. ASSUME NEW p \in Puller, NEW g \in Target, NEW d \in Digest, PullStored(p, g, d)
        PROVE  PublicationTypeOK' /\ WorkInOrder'
    <2>1. disturbed' \subseteq Puller /\ settled' \subseteq Target
      BY <1>3 DEF PullStored, Touch
    <2>2. PublicationTypeOK'
      BY <1>3, <2>1 DEF PullStored, listing, Running
    <2>3. WorkInOrder'
      BY <1>3, OrderStart DEF PullStored
    <2>4. QED
      BY <2>2, <2>3
  <1>4. ASSUME NEW p \in Puller, PullStep(p)
        PROVE  PublicationTypeOK' /\ WorkInOrder'
    <2>1. ppc[p] \in Running
      BY <1>4 DEF PullStep, PullTagCreate, PullTagWrite, PullTagFails, PlainTest, RemoveLink,
                  MakeLink, LinkStepFails, NoDaemon, Register, Registered, Kill,
                  Running, Removing, Linking
    <2>2. Active(p)
      BY <2>1, AtWork
    <2>3. TargetOf(p) \in Target /\ job[p].digest \in Digest
      BY <2>2, JobType
    <2>4. AfterPlain(p) \in {"call", "colon_rm"} /\ (AfterPlain(p) = "colon_rm" => TargetOf(p)[2] # Latest)
      BY DEF AfterPlain
    <2>5. p \notin Importer
      BY PublicationAssumption
    <2>7. setting[p] # "idle" => ppc[p] \in {"wait", "killed"}
      BY DEF WorkInOrder
    <2>8. CASE PullTagCreate(p) \/ PullTagWrite(p)
      <3>1. PublicationTypeOK'
        BY <2>3, <2>8 DEF PullTagCreate, PullTagWrite, blobs, listing, history, Running
      <3>2. WorkInOrder'
        BY <2>1, <2>7, <2>8, OrderGoto DEF PullTagCreate, PullTagWrite
      <3>3. QED
        BY <3>1, <3>2
    <2>9. CASE PullTagFails(p) \/ Kill(p)
      <3>1. PublicationTypeOK'
        BY <2>9 DEF PullTagFails, Kill, files, blobs, listing, history, Ended
      <3>2. WorkInOrder'
        BY <2>1, <2>7, <2>9, OrderGoto DEF PullTagFails, Kill
      <3>3. QED
        BY <3>1, <3>2
    <2>10. CASE PlainTest(p)
      <3>1. PICK pc \in {"plain_rm", "call", "colon_rm"} :
              Goto(p, pc) /\ (pc = "colon_rm" => TargetOf(p)[2] # Latest)
        BY <2>4, <2>10 DEF PlainTest
      <3>2. PublicationTypeOK'
        BY <2>10, <3>1 DEF PlainTest, files, blobs, listing, history, Running, Removing
      <3>3. WorkInOrder'
        BY <2>1, <2>7, <2>10, <3>1, OrderGoto DEF PlainTest
      <3>4. QED
        BY <3>2, <3>3
    <2>11. CASE RemoveLink(p) \/ MakeLink(p) \/ LinkStepFails(p)
      <3>1. ppc[p] \in Removing \cup Linking
        BY <2>11 DEF RemoveLink, MakeLink, LinkStepFails
      <3>2. AfterLink(p) \in Running
        BY <3>1, LinkGoesOn DEF Running, Removing, Linking
      <3>3. PublicationTypeOK'
        BY <2>3, <2>11, <3>2
           DEF RemoveLink, MakeLink, LinkStepFails, Put, files, blobs, listing, history
      <3>4. setting[p] = "idle"
        BY <2>7, <3>1 DEF Removing, Linking
      <3>5. WorkInOrder'
        BY <2>1, <2>11, <3>1, <3>4, LinkGoesOn, OrderGoto
           DEF RemoveLink, MakeLink, LinkStepFails
      <3>6. QED
        BY <3>3, <3>5
    <2>12. CASE NoDaemon(p) \/ Registered(p)
      <3>1. PublicationTypeOK'
        BY <2>3, <2>12 DEF NoDaemon, Registered, PullDone, files, blobs, listing, Ended
      <3>2. setting[p] = "idle"
        BY <2>7, <2>12 DEF NoDaemon, Registered
      <3>3. WorkInOrder'
        BY <2>1, <2>12, <3>2, OrderGoto DEF NoDaemon, Registered, PullDone
      <3>4. QED
        BY <3>1, <3>3
    <2>13. CASE Register(p)
      <3>1. PICK st \in {"idle", "create"} : setting' = [setting EXCEPT ![p] = st]
        BY <2>13 DEF Register
      <3>2. PublicationTypeOK'
        BY <2>13, <3>1 DEF Register, files, blobs, listing, history, Running
      <3>3. WorkInOrder'
        BY <2>2, <2>5, <2>13, <3>1, OrderStep DEF Register
      <3>4. QED
        BY <3>2, <3>3
    <2>14. QED
      BY <1>4, <2>8, <2>9, <2>10, <2>11, <2>12, <2>13 DEF PullStep
  <1>5. ASSUME NEW s \in Importer, NEW g \in Imported, NEW d \in Digest, ImportStored(s, g, d)
        PROVE  PublicationTypeOK' /\ WorkInOrder'
    <2>1. g \in Target
      BY PublicationAssumption
    <2>2. disturbed' \subseteq Puller /\ settled' \subseteq Target
      BY <1>5 DEF ImportStored, Touch
    <2>3. PublicationTypeOK'
      BY <1>5, <2>1, <2>2 DEF ImportStored, listing, Ended
    <2>4. WorkInOrder'
      BY <1>5, <2>1, OrderStart DEF ImportStored
    <2>5. QED
      BY <2>3, <2>4
  <1>6. ASSUME NEW h \in Puller \cup Importer, SetCreate(h) \/ SetWrite(h) \/ SetStops(h)
        PROVE  PublicationTypeOK' /\ WorkInOrder'
    <2>1. setting[h] # "idle"
      BY <1>6 DEF SetCreate, SetWrite, SetStops
    <2>2. Active(h)
      BY <2>1, AtWork
    <2>3. TargetOf(h) \in Target /\ job[h].digest \in Digest
      BY <2>2, JobType
    <2>4. PublicationTypeOK'
      BY <1>6, <2>3 DEF SetCreate, SetWrite, SetStops, files, blobs, listing, history
    <2>5. PICK st : setting' = [setting EXCEPT ![h] = st]
      BY <1>6 DEF SetCreate, SetWrite, SetStops
    <2>6. Goto(h, ppc[h]) /\ job' = job
      BY <1>6 DEF SetCreate, SetWrite, SetStops
    <2>7. /\ h \in Importer => ppc[h] \in {"new", "done"}
          /\ h \in Puller => ppc[h] \in {"wait", "killed"}
      BY <2>1 DEF WorkInOrder
    <2>8. WorkInOrder'
      BY <2>2, <2>5, <2>6, <2>7, OrderStep
    <2>9. QED
      BY <2>4, <2>8
  <1>7. ASSUME NEW d \in Digest, Prune(d)
        PROVE  PublicationTypeOK' /\ WorkInOrder'
    <2>1. PublicationTypeOK'
      BY <1>7 DEF Prune, listing
    <2>2. WorkInOrder'
      BY <1>7 DEF Prune, listing, WorkInOrder, Active, TargetOf
    <2>3. QED
      BY <2>1, <2>2
  <1>8. ASSUME NEW g \in Target, ListBegin \/ ListEnd \/ ListRead(g) \/ ListRefused(g)
        PROVE  PublicationTypeOK'
    BY <1>8 DEF ListBegin, ListEnd, ListRead, ListRefused, Tagged, files, blobs, history
  <1>9. ASSUME ListBegin \/ ListEnd
        PROVE  PublicationTypeOK'
    BY <1>9 DEF ListBegin, ListEnd, Tagged, files, blobs, history
  <1>10. ASSUME ListBegin \/ ListEnd \/ \E g \in Target : ListRead(g) \/ ListRefused(g)
         PROVE  PublicationTypeOK' /\ WorkInOrder'
    <2>1. PublicationTypeOK'
      BY <1>8, <1>9, <1>10
    <2>2. WorkInOrder'
      BY <1>10 DEF ListBegin, ListEnd, ListRead, ListRefused, history, WorkInOrder, Active, TargetOf
    <2>3. QED
      BY <2>1, <2>2
  <1>11. QED
    BY <1>1, <1>2, <1>3, <1>4, <1>5, <1>6, <1>7, <1>10 DEF Next

------------------------------------------------------------------------------
(* What the step of one leaves to the others.                               *)

(* A pull is as far ahead as it was when nothing it looks at has changed. *)
LEMMA AheadKept ==
  ASSUME PublicationTypeOK, WorkInOrder, NEW p \in Puller, Active(p),
         ppc'[p] = ppc[p], job'[p] = job[p], setting'[p] = setting[p],
         TagAhead(p), LinksAhead(p),
         tag'[TargetOf(p)] = tag[TargetOf(p)],
         \A l \in LinksOf(TargetOf(p)) : at'[l] = at[l],
         flat \subseteq flat',
         Live(Plain(TargetOf(p)))' => Live(Plain(TargetOf(p)))
  PROVE  TagAhead(p)' /\ LinksAhead(p)'
  <1>1. TargetOf(p)' = TargetOf(p)
    BY DEF TargetOf
  <1>2. TagAhead(p)'
    BY <1>1 DEF TagAhead
  <1>3. TargetOf(p) \in Target
    BY JobType
  <1>4. ppc[p] \in Linking => LinkAt(p) \in LinksOf(TargetOf(p))
    BY LinkIsOwn
  <1>5. ppc[p] \in Linking => LinkAt(p)' = LinkAt(p)
    BY <1>1 DEF LinkAt
  <1>6. PICK g : g = TargetOf(p)
    OBVIOUS
  <1>7. /\ at'[Plain(g)] = at[Plain(g)]
        /\ g[2] # Latest => at'[Colon(g)] = at[Colon(g)] /\ at'[Dash(g)] = at[Dash(g)]
    BY <1>3, <1>6, LinkSets
  <1>8. Live(Plain(g))' <=> Live(Plain(g))
    BY <1>1, <1>6, <1>7 DEF Live
  <1>9. ppc[p] \in Linking /\ at[LinkAt(p)] = None => (at[LinkAt(p)])' = None
    BY <1>4, <1>5
  <1>10. LinksAhead(p)'
    BY <1>1, <1>6, <1>7, <1>8, <1>9 DEF LinksAhead
  <1>11. QED
    BY <1>2, <1>10

(* Targets that do not clash have nothing in common. *)
LEMMA Apart ==
  ASSUME NEW g \in Target, NEW h, TargetOf(h) \in Target, ~Clash(g, h)
  PROVE  g # TargetOf(h) /\ (h \in Puller => LinksOf(g) \cap LinksOf(TargetOf(h)) = {})
  <1>1. Plain(g) \in LinksOf(g)
    BY LinkSets
  <1>2. QED
    BY <1>1, PublicationAssumption DEF Clash

(* A step of h, at work, that writes at most the tag of its target and, if  *)
(* it is a pull, its links, and leaves h itself as far ahead as it should   *)
(* be.                                                                      *)
LEMMA WorkStep ==
  ASSUME PublicationTypeOK, PublicationInv, PublicationTypeOK',
         NEW h \in Puller \cup Importer, Active(h),
         UNCHANGED <<job, stored, flat, settled>>,
         disturbed \subseteq disturbed',
         \A q \in Puller \cup Importer : q # h => ppc'[q] = ppc[q] /\ setting'[q] = setting[q],
         \A g \in Target : g # TargetOf(h) => tag'[g] = tag[g],
         \A l \in Path : h \in Importer \/ l \notin LinksOf(TargetOf(h)) => at'[l] = at[l],
         h \in Puller \ disturbed' => TagAhead(h)' /\ LinksAhead(h)'
  PROVE  AloneOnPaths' /\ PullsAhead' /\ SettledQuiet' /\ LinksFollowTag'
  <1>1. WorkInOrder /\ AloneOnPaths /\ PullsAhead /\ SettledQuiet /\ LinksFollowTag
    BY DEF PublicationInv
  <1>2. \A q \in Puller \cup Importer :
          /\ Active(q)' => Active(q)
          /\ TargetOf(q)' = TargetOf(q)
    BY DEF Active, TargetOf
  <1>3. \A q \in Puller \cup Importer : \A g : Clash(g, q)' <=> Clash(g, q)
    BY <1>2 DEF Clash
  <1>4. AloneOnPaths'
    BY <1>1, <1>2, <1>3 DEF AloneOnPaths
  <1>5. TargetOf(h) \in Target
    BY <1>1, JobType
  <1>6. ASSUME NEW p \in Puller \ disturbed', p # h
        PROVE  TagAhead(p)' /\ LinksAhead(p)'
    <2>1. ppc'[p] = ppc[p] /\ setting'[p] = setting[p] /\ job'[p] = job[p]
      BY <1>6
    <2>2. CASE ~Active(p)
      <3>1. ppc'[p] \notin Running /\ setting'[p] = "idle"
        BY <2>1, <2>2, AtWork
      <3>2. QED
        BY <3>1 DEF TagAhead, LinksAhead, Running, Removing, Linking
    <2>3. CASE Active(p)
      <3>1. TargetOf(p) \in Target
        BY <1>1, <2>3, JobType
      <3>2. ~Clash(TargetOf(p), h)
        BY <1>1, <1>6, <2>3 DEF AloneOnPaths
      <3>3. TargetOf(p) # TargetOf(h) /\ (h \in Puller => LinksOf(TargetOf(p)) \cap LinksOf(TargetOf(h)) = {})
        BY <1>5, <3>1, <3>2, Apart
      <3>4. tag'[TargetOf(p)] = tag[TargetOf(p)]
        BY <3>1, <3>3
      <3>5. \A l \in LinksOf(TargetOf(p)) : at'[l] = at[l]
        BY <3>1, <3>3, LinkSets
      <3>6. Live(Plain(TargetOf(p)))' => Live(Plain(TargetOf(p)))
        BY <1>2, <3>1, <3>5, LinkSets DEF Live
      <3>7. TagAhead(p) /\ LinksAhead(p)
        BY <1>1, <1>6 DEF PullsAhead
      <3>8. QED
        BY <1>1, <2>1, <2>3, <3>4, <3>5, <3>6, <3>7, AheadKept
    <2>4. QED
      BY <2>2, <2>3
  <1>7. PullsAhead'
    BY <1>6 DEF PullsAhead
  <1>8. SettledQuiet'
    BY <1>1, <1>2 DEF SettledQuiet
  <1>9. ASSUME NEW g \in settled
        PROVE  tag'[g] = tag[g] /\ \A l \in Own(g) : at'[l] = at[l]
    <2>1. g \in Target
      BY DEF PublicationTypeOK
    <2>2. g # TargetOf(h) /\ (h \in Puller => Own(g) \cap LinksOf(TargetOf(h)) = {})
      BY <1>1 DEF SettledQuiet
    <2>3. QED
      BY <2>1, <2>2, LinkSets
  <1>10. LinksFollowTag'
    BY <1>1, <1>9 DEF LinksFollowTag
  <1>11. QED
    BY <1>4, <1>7, <1>8, <1>10

------------------------------------------------------------------------------
(* Each step keeps the invariant.                                           *)

(* Writing the tag file. *)
LEMMA TagStep ==
  ASSUME PublicationTypeOK, PublicationInv, PublicationTypeOK', NEW p \in Puller,
         PullTagCreate(p) \/ PullTagWrite(p) \/ PullTagFails(p)
  PROVE  AloneOnPaths' /\ PullsAhead' /\ SettledQuiet' /\ LinksFollowTag'
  <1> USE DEF PullTagCreate, PullTagWrite, PullTagFails, Goto
  <1>1. ppc[p] \in {"tag_create", "tag_write", "plain"}
    OBVIOUS
  <1>2. Active(p)
    BY <1>1, AtWork DEF Running
  <1>3. WorkInOrder /\ PullsAhead
    BY DEF PublicationInv
  <1>4. setting[p] = "idle" /\ setting'[p] = "idle"
    BY <1>1, <1>3 DEF WorkInOrder, PublicationTypeOK
  <1>5. TargetOf(p) \in Target
    BY <1>2, <1>3, JobType
  <1>6. TargetOf(p)' = TargetOf(p) /\ job'[p].digest = job[p].digest
    BY DEF TargetOf
  <1>7. ppc'[p] \in {"tag_write", "plain", "failed"}
    BY <1>1 DEF PublicationTypeOK
  <1>8. LinksAhead(p)'
    BY <1>7 DEF LinksAhead, Linking
  <1>9. p \notin disturbed' => TagAhead(p)'
    <2>1. SUFFICES ASSUME p \notin disturbed
                   PROVE  TagAhead(p)'
      BY DEF history
    <2>2. job[p].digest \in flat'
      BY <1>1, <1>3, <2>1 DEF PullsAhead, TagAhead, Running, files, blobs
    <2>3. ppc'[p] = "plain" => tag'[TargetOf(p)] = job[p].digest
      BY <1>1, <1>5 DEF PublicationTypeOK
    <2>4. QED
      BY <1>4, <1>6, <1>7, <2>2, <2>3 DEF TagAhead, Running, Removing, Linking
  <1>10. \A q \in Puller \cup Importer : q # p => ppc'[q] = ppc[q] /\ setting'[q] = setting[q]
    BY DEF PublicationTypeOK
  <1>11. \A g \in Target : g # TargetOf(p) => tag'[g] = tag[g]
    BY DEF PublicationTypeOK, files, blobs
  <1>12. UNCHANGED <<job, stored, flat, at, settled, disturbed>>
    BY DEF files, blobs, history
  <1>13. QED
    BY <1>2, <1>8, <1>9, <1>10, <1>11, <1>12, WorkStep

(* The control steps of a pull, which write nothing. *)
LEMMA ControlStep ==
  ASSUME PublicationTypeOK, PublicationInv, PublicationTypeOK', NEW p \in Puller,
         PlainTest(p) \/ Register(p) \/ Kill(p)
  PROVE  AloneOnPaths' /\ PullsAhead' /\ SettledQuiet' /\ LinksFollowTag'
  <1> USE DEF Goto
  <1>1. ppc[p] \in Running
    BY DEF PlainTest, Register, Kill, PublicationTypeOK, Running
  <1>2. Active(p)
    BY <1>1, AtWork
  <1>3. WorkInOrder /\ PullsAhead
    BY DEF PublicationInv
  <1>4. UNCHANGED <<job, stored, flat, tag, at, settled, disturbed>>
    BY DEF PlainTest, Register, Kill, files, blobs, history
  <1>5. TargetOf(p)' = TargetOf(p) /\ \A l : Live(l)' <=> Live(l)
    BY <1>4 DEF TargetOf, Live
  <1>6. ASSUME p \notin disturbed
        PROVE  TagAhead(p)' /\ LinksAhead(p)'
    <2>1. TagAhead(p) /\ LinksAhead(p)
      BY <1>3, <1>6 DEF PullsAhead
    <2>2. PICK g : g = TargetOf(p) /\ g = TargetOf(p)'
      BY <1>5
    <2>3. CASE PlainTest(p)
      <3>1. /\ ppc'[p] \in {"plain_rm", "call", "colon_rm"}
            /\ ppc'[p] = "plain_rm" /\ g[2] # Latest => ~Live(Plain(g))
            /\ ppc'[p] \in {"call", "colon_rm"} => g[2] # Latest /\ Live(Plain(g)) /\ ppc'[p] = "colon_rm"
        BY <2>2, <2>3 DEF PlainTest, AfterPlain, PublicationTypeOK
      <3>2. ppc[p] = "plain" /\ setting'[p] = setting[p] /\ setting[p] = "idle"
        BY <1>3, <2>3 DEF PlainTest, WorkInOrder, PublicationTypeOK
      <3>3. TagAhead(p)'
        BY <1>4, <1>5, <2>1, <3>1, <3>2 DEF TagAhead, Running, Removing, Linking
      <3>4. LinksAhead(p)'
        BY <1>4, <1>5, <2>2, <3>1 DEF LinksAhead, Linking
      <3>5. QED
        BY <3>3, <3>4
    <2>4. CASE Register(p)
      <3>1. ppc[p] = "call" /\ ppc'[p] = "wait" /\ setting[p] = "idle"
        BY <1>3, <2>4 DEF Register, WorkInOrder, PublicationTypeOK
      <3>2. TagAhead(p)'
        BY <1>4, <1>5, <2>1, <3>1 DEF TagAhead, Running, Removing, Linking
      <3>3. LinksAhead(p)'
        BY <1>4, <1>5, <2>1, <3>1 DEF LinksAhead, Linking
      <3>4. QED
        BY <3>2, <3>3
    <2>5. CASE Kill(p)
      <3>1. ppc'[p] = "killed" /\ setting'[p] = setting[p]
        BY <2>5 DEF Kill, PublicationTypeOK
      <3>2. TagAhead(p)'
        BY <1>4, <1>5, <2>1, <3>1 DEF TagAhead, Running, Removing, Linking
      <3>3. LinksAhead(p)'
        BY <3>1 DEF LinksAhead, Linking
      <3>4. QED
        BY <3>2, <3>3
    <2>6. QED
      BY <2>3, <2>4, <2>5
  <1>7. \A q \in Puller \cup Importer : q # p => ppc'[q] = ppc[q] /\ setting'[q] = setting[q]
    BY DEF PublicationTypeOK, PlainTest, Register, Kill
  <1>8. QED
    BY <1>2, <1>4, <1>6, <1>7, WorkStep

(* Removing and making the links. *)
LEMMA LinkStep ==
  ASSUME PublicationTypeOK, PublicationInv, PublicationTypeOK', NEW p \in Puller,
         RemoveLink(p) \/ MakeLink(p) \/ LinkStepFails(p)
  PROVE  AloneOnPaths' /\ PullsAhead' /\ SettledQuiet' /\ LinksFollowTag'
  <1> USE DEF Goto, Put
  <1>1. ppc[p] \in Removing \cup Linking
    BY DEF RemoveLink, MakeLink, LinkStepFails
  <1>2. Active(p)
    BY <1>1, AtWork DEF Running
  <1>3. WorkInOrder /\ PullsAhead
    BY DEF PublicationInv
  <1>4. LinkAt(p) \in LinksOf(TargetOf(p)) /\ LinkAt(p) \in Path
    BY <1>1, <1>3, LinkIsOwn
  <1>5. UNCHANGED <<job, stored, flat, tag, setting, settled>> /\ disturbed \subseteq disturbed'
    BY DEF RemoveLink, MakeLink, LinkStepFails, files, blobs, history
  <1>6. TargetOf(p)' = TargetOf(p)
    BY <1>5 DEF TargetOf
  <1>7. ppc'[p] = AfterLink(p)
    BY DEF RemoveLink, MakeLink, LinkStepFails, PublicationTypeOK
  <1>8. \A l \in Path : l # LinkAt(p) => at'[l] = at[l]
    BY DEF RemoveLink, MakeLink, LinkStepFails, files, blobs, PublicationTypeOK
  <1>9. ASSUME p \notin disturbed'
        PROVE  TagAhead(p)' /\ LinksAhead(p)'
    <2>1. TagAhead(p) /\ LinksAhead(p)
      BY <1>3, <1>5, <1>9 DEF PullsAhead
    <2>2. PICK g \in Target : g = TargetOf(p)
      BY <1>2, <1>3, JobType
    <2>3. PICK d \in Digest : d = job[p].digest /\ d = job'[p].digest
      BY <1>2, <1>3, <1>5, JobType
    <2>4. setting[p] = "idle" /\ setting'[p] = "idle"
      BY <1>1, <1>3, <1>5 DEF WorkInOrder, Removing, Linking, PublicationTypeOK
    <2>5. d \in flat /\ d \in flat' /\ tag'[g] = d
      BY <1>1, <1>5, <2>1, <2>2, <2>3, <2>4 DEF TagAhead, Running, Removing, Linking
    <2>6. TagAhead(p)'
      BY <1>6, <2>2, <2>3, <2>4, <2>5 DEF TagAhead
    <2>7. ~LinkStepFails(p)
      BY <1>9 DEF LinkStepFails
    <2>8. ppc[p] \in Removing => at'[LinkAt(p)] = None
      BY <1>4, <2>7 DEF RemoveLink, MakeLink, Removing, Linking, PublicationTypeOK
    <2>9. ppc[p] \in Linking => at'[LinkAt(p)] = d
      BY <1>4, <2>1, <2>3, <2>7 DEF RemoveLink, MakeLink, Removing, Linking, PublicationTypeOK, LinksAhead
    <2>10. ppc[p] \in {"colon_rm", "colon_ln", "dash_rm", "dash_ln"} => g[2] # Latest
      BY <1>3, <2>2 DEF WorkInOrder
    <2>11. Plain(g) \in Path /\ (g[2] # Latest => Colon(g) \in Path /\ Dash(g) \in Path)
      BY LinkSets
    <2>12. Plain(g) # Colon(g) /\ Plain(g) # Dash(g) /\ Colon(g) # Dash(g)
      BY LinkNames
    <2>13. Live(Plain(g))' <=> at'[Plain(g)] \in flat
      BY <1>5 DEF Live
    <2>14. CASE ppc[p] = "plain_rm"
      BY <1>6, <1>7, <2>2, <2>6, <2>8, <2>14, LinkSteps DEF LinksAhead, Linking, Removing, LinkAt
    <2>15. CASE ppc[p] = "plain_ln"
      <3>1. at'[Plain(g)] = d /\ ppc'[p] = AfterPlain(p)
        BY <1>7, <2>2, <2>9, <2>15, LinkSteps DEF Linking
      <3>2. Live(Plain(g))'
        BY <2>5, <2>13, <3>1
      <3>3. LinksAhead(p)'
        BY <1>6, <2>2, <2>3, <3>1, <3>2 DEF LinksAhead, AfterPlain, Linking
      <3>4. QED
        BY <2>6, <3>3
    <2>16. CASE ppc[p] \in {"colon_rm", "colon_ln"}
      <3>1. at'[Plain(g)] = at[Plain(g)] /\ Live(Plain(g))
        BY <1>8, <2>1, <2>2, <2>11, <2>12, <2>16, LinkSteps DEF LinksAhead
      <3>2. Live(Plain(g))'
        BY <2>13, <3>1 DEF Live
      <3>3. CASE ppc[p] = "colon_rm"
        <4>1. ppc'[p] = "colon_ln" /\ at'[Colon(g)] = None
          BY <1>7, <2>2, <2>8, <3>3, LinkSteps DEF Removing
        <4>2. LinkAt(p)' = Colon(g)
          BY <1>6, <2>2, <4>1 DEF LinkAt
        <4>3. QED
          BY <1>6, <2>2, <2>6, <2>10, <2>16, <3>2, <4>1, <4>2 DEF LinksAhead, Linking
      <3>4. CASE ppc[p] = "colon_ln"
        <4>1. ppc'[p] = "dash_rm" /\ at'[Colon(g)] = d
          BY <1>7, <2>2, <2>9, <3>4, LinkSteps DEF Linking
        <4>2. QED
          BY <1>6, <2>2, <2>3, <2>6, <2>10, <2>16, <3>2, <4>1 DEF LinksAhead, Linking
      <3>5. QED
        BY <2>16, <3>3, <3>4
    <2>17. CASE ppc[p] \in {"dash_rm", "dash_ln"}
      <3>1. at'[Plain(g)] = at[Plain(g)] /\ Live(Plain(g)) /\ at'[Colon(g)] = d
        BY <1>8, <2>1, <2>2, <2>3, <2>10, <2>11, <2>12, <2>17, LinkSteps DEF LinksAhead
      <3>2. Live(Plain(g))'
        BY <2>13, <3>1 DEF Live
      <3>3. CASE ppc[p] = "dash_rm"
        <4>1. ppc'[p] = "dash_ln" /\ at'[Dash(g)] = None
          BY <1>7, <2>2, <2>8, <3>3, LinkSteps DEF Removing
        <4>2. LinkAt(p)' = Dash(g)
          BY <1>6, <2>2, <4>1 DEF LinkAt
        <4>3. QED
          BY <1>6, <2>2, <2>3, <2>6, <2>10, <2>17, <3>1, <3>2, <4>1, <4>2 DEF LinksAhead, Linking
      <3>4. CASE ppc[p] = "dash_ln"
        <4>1. ppc'[p] = "call" /\ at'[Dash(g)] = d
          BY <1>7, <2>2, <2>9, <3>4, LinkSteps DEF Linking
        <4>2. QED
          BY <1>6, <2>2, <2>3, <2>6, <2>10, <2>17, <3>1, <3>2, <4>1 DEF LinksAhead, Linking
      <3>5. QED
        BY <2>17, <3>3, <3>4
    <2>18. QED
      BY <1>1, <2>14, <2>15, <2>16, <2>17 DEF Removing, Linking
  <1>10. \A q \in Puller \cup Importer : q # p => ppc'[q] = ppc[q] /\ setting'[q] = setting[q]
    BY <1>5 DEF PublicationTypeOK, RemoveLink, MakeLink, LinkStepFails
  <1>11. \A l \in Path : p \in Importer \/ l \notin LinksOf(TargetOf(p)) => at'[l] = at[l]
    BY <1>4, <1>8, PublicationAssumption
  <1>12. QED
    BY <1>2, <1>5, <1>9, <1>10, <1>11, WorkStep

(* set_tag, for an import or for a pull's Register. *)
LEMMA SetStep ==
  ASSUME PublicationTypeOK, PublicationInv, PublicationTypeOK', NEW h \in Puller \cup Importer,
         SetCreate(h) \/ SetWrite(h) \/ SetStops(h)
  PROVE  AloneOnPaths' /\ PullsAhead' /\ SettledQuiet' /\ LinksFollowTag'
  <1>1. setting[h] \in {"create", "write"}
    BY DEF SetCreate, SetWrite, SetStops
  <1>2. Active(h)
    BY <1>1, AtWork
  <1>3. WorkInOrder /\ PullsAhead
    BY DEF PublicationInv
  <1>4. TargetOf(h) \in Target
    BY <1>2, <1>3, JobType
  <1>5. UNCHANGED <<job, stored, flat, at, ppc, settled>> /\ disturbed \subseteq disturbed'
    BY DEF SetCreate, SetWrite, SetStops, files, blobs, history
  <1>6. TargetOf(h)' = TargetOf(h)
    BY <1>5 DEF TargetOf
  <1>7. ASSUME h \in Puller \ disturbed'
        PROVE  TagAhead(h)' /\ LinksAhead(h)'
    <2>1. TagAhead(h) /\ LinksAhead(h)
      BY <1>3, <1>5, <1>7 DEF PullsAhead
    <2>2. ~SetStops(h)
      BY <1>7 DEF SetStops
    <2>3. \/ setting'[h] = "write"
          \/ setting'[h] = "idle" /\ tag'[TargetOf(h)] = job[h].digest
      BY <1>4, <2>2 DEF SetCreate, SetWrite, PublicationTypeOK
    <2>4. TagAhead(h)'
      BY <1>5, <1>6, <2>1, <2>3 DEF TagAhead
    <2>5. LinksAhead(h)'
      BY <1>5, <1>6, <2>1 DEF LinksAhead, LinkAt, Live
    <2>6. QED
      BY <2>4, <2>5
  <1>8. \A q \in Puller \cup Importer : q # h => ppc'[q] = ppc[q] /\ setting'[q] = setting[q]
    BY <1>5 DEF SetCreate, SetWrite, SetStops, PublicationTypeOK
  <1>9. \A g \in Target : g # TargetOf(h) => tag'[g] = tag[g]
    BY DEF SetCreate, SetWrite, SetStops, files, blobs, PublicationTypeOK
  <1>10. QED
    BY <1>2, <1>5, <1>7, <1>8, <1>9, WorkStep

(* The end of a pull: what it leaves is settled if nothing disturbed it. *)
LEMMA DoneStep ==
  ASSUME PublicationTypeOK, PublicationInv, PublicationTypeOK', NEW p \in Puller,
         NoDaemon(p) \/ Registered(p)
  PROVE  AloneOnPaths' /\ PullsAhead' /\ SettledQuiet' /\ LinksFollowTag'
  <1>1. WorkInOrder /\ AloneOnPaths /\ PullsAhead /\ SettledQuiet /\ LinksFollowTag
    BY DEF PublicationInv
  <1>2. ppc[p] \in {"call", "wait"} /\ setting[p] = "idle"
    BY <1>1 DEF NoDaemon, Registered, WorkInOrder, PublicationTypeOK
  <1>3. Active(p)
    BY <1>2, AtWork DEF Running
  <1>4. TargetOf(p) \in Target
    BY <1>1, <1>3, JobType
  <1>5. /\ UNCHANGED <<job, stored, flat, tag, at, setting, disturbed>>
        /\ ppc' = [ppc EXCEPT ![p] = "done"]
        /\ settled' = IF p \in disturbed THEN settled ELSE settled \cup {TargetOf(p)}
    BY DEF NoDaemon, Registered, PullDone, Goto, files, blobs
  <1>6. /\ ~Active(p)'
        /\ \A q \in Puller \cup Importer :
             /\ q # p => (Active(q)' <=> Active(q)) /\ ppc'[q] = ppc[q]
             /\ TargetOf(q)' = TargetOf(q)
    BY <1>2, <1>5 DEF Active, Ended, TargetOf, PublicationTypeOK
  <1>7. \A q \in Puller \cup Importer : \A g : Clash(g, q)' <=> Clash(g, q)
    BY <1>6 DEF Clash
  <1>8. AloneOnPaths'
    BY <1>1, <1>5, <1>6, <1>7 DEF AloneOnPaths
  <1>9. PullsAhead'
    <2>1. ASSUME NEW q \in Puller \ disturbed
          PROVE  TagAhead(q)' /\ LinksAhead(q)'
      <3>1. TagAhead(q) /\ LinksAhead(q)
        BY <1>1 DEF PullsAhead
      <3>2. CASE q = p
        <4>1. ppc'[p] = "done" /\ setting'[p] = "idle"
          BY <1>2, <1>5 DEF PublicationTypeOK
        <4>2. QED
          BY <3>2, <4>1 DEF TagAhead, LinksAhead, Running, Removing, Linking
      <3>3. CASE q # p
        <4>1. ppc'[q] = ppc[q] /\ TargetOf(q)' = TargetOf(q)
          BY <1>6, <3>3
        <4>2. TagAhead(q)'
          BY <1>5, <3>1, <4>1 DEF TagAhead
        <4>3. LinksAhead(q)'
          BY <1>5, <3>1, <4>1 DEF LinksAhead, LinkAt, Live
        <4>4. QED
          BY <4>2, <4>3
      <3>4. QED
        BY <3>2, <3>3
    <2>2. QED
      BY <1>5, <2>1 DEF PullsAhead
  <1>10. ASSUME p \notin disturbed, NEW q \in Puller \cup Importer, q # p, Active(q)
         PROVE  /\ TargetOf(p) # TargetOf(q)
                /\ q \in Puller => Own(TargetOf(p)) \cap LinksOf(TargetOf(q)) = {}
    <2>1. TargetOf(q) \in Target
      BY <1>1, <1>10, JobType
    <2>2. ~Clash(TargetOf(p), q)
      BY <1>1, <1>3, <1>10 DEF AloneOnPaths
    <2>3. QED
      BY <1>4, <2>1, <2>2, Apart, LinkSets
  <1>11. SettledQuiet'
    BY <1>1, <1>5, <1>6, <1>10 DEF SettledQuiet
  <1>12. ASSUME p \notin disturbed
         PROVE  tag[TargetOf(p)] \in Digest /\ \A l \in Own(TargetOf(p)) : at[l] = tag[TargetOf(p)]
    <2>1. TagAhead(p) /\ LinksAhead(p)
      BY <1>1, <1>12 DEF PullsAhead
    <2>2. tag[TargetOf(p)] = job[p].digest
      BY <1>2, <2>1 DEF TagAhead, Running
    <2>3. job[p].digest \in Digest
      BY <1>1, <1>3, JobType
    <2>4. \A l \in Own(TargetOf(p)) : at[l] = job[p].digest
      BY <1>2, <2>1 DEF LinksAhead, Own
    <2>5. QED
      BY <2>2, <2>3, <2>4
  <1>13. LinksFollowTag'
    BY <1>1, <1>5, <1>12 DEF LinksFollowTag
  <1>14. QED
    BY <1>8, <1>9, <1>11, <1>13

(* A start: those whose paths it shares, and those whose plain link the     *)
(* flat file of a pull revives, are disturbed; so is the starter, if it     *)
(* shares paths with any.                                                   *)
LEMMA StartStep ==
  ASSUME PublicationTypeOK, PublicationInv, PublicationTypeOK', WorkInOrder',
         NEW h \in Puller \cup Importer, NEW g \in Target, NEW d \in Digest,
         ppc[h] = "new", Touch(h, g, d), UNCHANGED <<tag, at>>,
         flat' = IF h \in Puller THEN flat \cup {d} ELSE flat,
         job' = [job EXCEPT ![h] = [target |-> g, digest |-> d]],
         \/ /\ h \in Puller /\ Goto(h, "tag_create") /\ setting' = setting
         \/ /\ h \in Importer /\ Goto(h, "done") /\ setting' = [setting EXCEPT ![h] = "create"]
  PROVE  AloneOnPaths' /\ PullsAhead' /\ SettledQuiet' /\ LinksFollowTag'
  <1>1. WorkInOrder /\ AloneOnPaths /\ PullsAhead /\ SettledQuiet /\ LinksFollowTag
    BY DEF PublicationInv
  <1>2. \A q \in Puller \cup Importer :
          q # h => job'[q] = job[q] /\ ppc'[q] = ppc[q] /\ setting'[q] = setting[q]
    BY DEF Goto, PublicationTypeOK
  <1>3. \A q \in Puller \cup Importer :
          q # h => (Active(q)' <=> Active(q)) /\ TargetOf(q)' = TargetOf(q)
    BY <1>2 DEF Active, TargetOf
  <1>4. \A q \in Puller \cup Importer : \A k : q # h => (Clash(k, q)' <=> Clash(k, q))
    BY <1>3 DEF Clash
  <1>5. job'[h] = [target |-> g, digest |-> d] /\ TargetOf(h)' = g
    BY DEF TargetOf, PublicationTypeOK
  <1>6. h \in Puller => h \notin Importer
    BY PublicationAssumption
  <1>7. disturbed \subseteq disturbed' /\ settled' \subseteq settled
    BY DEF Touch
  <1>8. ASSUME NEW q \in Puller \cup Importer, q # h, Active(q), Clash(g, q)
        PROVE  (q \in Puller => q \in disturbed') /\ (h \in Puller => h \in disturbed')
    <2>1. PICK others : others = {r \in (Puller \cup Importer) \ {h} : Active(r) /\ Clash(g, r)}
      OBVIOUS
    <2>2. q \in others
      BY <1>8, <2>1
    <2>3. /\ others \cap Puller \subseteq disturbed'
          /\ others # {} /\ h \in Puller => h \in disturbed'
      BY <2>1 DEF Touch
    <2>4. QED
      BY <2>2, <2>3
  <1>9. \A q \in Puller : Active(q) => TargetOf(q) \in Target
    BY <1>1, JobType
  <1>10. ASSUME NEW q \in Puller, q # h, Active(q), Clash(TargetOf(q), h)'
         PROVE  Clash(g, q)
    <2>1. TargetOf(q)' = TargetOf(q) /\ TargetOf(q) \in Target /\ q \notin Importer
      BY <1>3, <1>9, <1>10, PublicationAssumption
    <2>2. CASE h \in Importer
      <3>1. TargetOf(q) = g
        BY <1>5, <1>10, <2>1, <2>2 DEF Clash
      <3>2. Plain(g) \in LinksOf(g)
        BY LinkSets
      <3>3. QED
        BY <2>1, <3>1, <3>2 DEF Clash
    <2>3. CASE h \notin Importer
      <3>1. LinksOf(TargetOf(q)) \cap LinksOf(g) # {}
        BY <1>5, <1>10, <2>1, <2>3 DEF Clash
      <3>2. QED
        BY <2>1, <3>1 DEF Clash
    <2>4. QED
      BY <2>2, <2>3
  <1>11. AloneOnPaths'
    <2>1. SUFFICES ASSUME NEW p \in Puller, p \notin disturbed', NEW q \in Puller \cup Importer,
                          q # p, Active(p)', Active(q)', Clash(TargetOf(p), q)'
                   PROVE  FALSE
      BY DEF AloneOnPaths
    <2>2. CASE p = h
      BY <1>3, <1>4, <1>5, <1>8, <2>1, <2>2
    <2>3. CASE q = h
      BY <1>3, <1>8, <1>10, <2>1, <2>3
    <2>4. CASE p # h /\ q # h
      BY <1>1, <1>3, <1>4, <1>7, <2>1, <2>4 DEF AloneOnPaths
    <2>5. QED
      BY <2>2, <2>3, <2>4
  <1>12. ASSUME NEW p \in Puller, p \notin disturbed'
         PROVE  TagAhead(p)' /\ LinksAhead(p)'
    <2>1. CASE p = h
      <3>1. ppc'[p] = "tag_create" /\ setting'[p] = "idle"
        BY <1>1, <1>6, <2>1 DEF Goto, WorkInOrder, PublicationTypeOK
      <3>2. TagAhead(p)'
        BY <1>5, <2>1, <3>1 DEF TagAhead
      <3>3. LinksAhead(p)'
        BY <3>1 DEF LinksAhead, Linking
      <3>4. QED
        BY <3>2, <3>3
    <2>2. CASE p # h /\ ~Active(p)
      <3>1. ppc'[p] \notin Running /\ setting'[p] = "idle"
        BY <1>2, <2>2, AtWork
      <3>2. QED
        BY <3>1 DEF TagAhead, LinksAhead, Running, Removing, Linking
    <2>3. CASE p # h /\ Active(p)
      <3>1. TagAhead(p) /\ LinksAhead(p)
        BY <1>1, <1>7, <1>12 DEF PullsAhead
      <3>2. h \notin Puller \/ d \in flat \/ at[Plain(TargetOf(p))] # d
        BY <1>12, <2>3 DEF Touch
      <3>3. Live(Plain(TargetOf(p)))' => Live(Plain(TargetOf(p)))
        BY <1>3, <2>3, <3>2 DEF Live
      <3>4. QED
        BY <1>1, <1>2, <2>3, <3>1, <3>3, AheadKept
    <2>4. QED
      BY <2>1, <2>2, <2>3
  <1>13. PullsAhead'
    BY <1>12 DEF PullsAhead
  <1>14. \A s \in settled' : s # g /\ (h \in Importer \/ Own(s) \cap LinksOf(g) = {})
    BY DEF Touch
  <1>15. SettledQuiet'
    <2>1. SUFFICES ASSUME NEW s \in settled', NEW q \in Puller \cup Importer, Active(q)'
                   PROVE  s # TargetOf(q)' /\ (q \in Puller => Own(s) \cap LinksOf(TargetOf(q)') = {})
      BY DEF SettledQuiet
    <2>2. CASE q = h
      BY <1>5, <1>6, <1>14, <2>2
    <2>3. CASE q # h
      BY <1>1, <1>3, <1>7, <2>1, <2>3 DEF SettledQuiet
    <2>4. QED
      BY <2>2, <2>3
  <1>16. LinksFollowTag'
    BY <1>1, <1>7 DEF LinksFollowTag
  <1>17. QED
    BY <1>11, <1>13, <1>15, <1>16

(* A prune disturbs every pull at work; of the others nothing is asked. *)
LEMMA PruneStep ==
  ASSUME PublicationTypeOK, PublicationInv, PublicationTypeOK', NEW d \in Digest, Prune(d)
  PROVE  AloneOnPaths' /\ PullsAhead' /\ SettledQuiet' /\ LinksFollowTag'
  <1>1. WorkInOrder /\ AloneOnPaths /\ PullsAhead /\ SettledQuiet /\ LinksFollowTag
    BY DEF PublicationInv
  <1>2. UNCHANGED <<tag, at, ppc, job, setting, settled>> /\ disturbed \subseteq disturbed'
    BY DEF Prune
  <1>3. \A q : (Active(q)' <=> Active(q)) /\ TargetOf(q)' = TargetOf(q)
    BY <1>2 DEF Active, TargetOf
  <1>4. \A q, g : Clash(g, q)' <=> Clash(g, q)
    BY <1>3 DEF Clash
  <1>5. AloneOnPaths'
    BY <1>1, <1>2, <1>3, <1>4 DEF AloneOnPaths
  <1>6. ASSUME NEW p \in Puller, p \notin disturbed'
        PROVE  TagAhead(p)' /\ LinksAhead(p)'
    <2>1. ~Active(p)
      BY <1>6 DEF Prune
    <2>2. ppc'[p] \notin Running /\ setting'[p] = "idle"
      BY <1>2, <2>1, AtWork
    <2>3. QED
      BY <2>2 DEF TagAhead, LinksAhead, Running, Removing, Linking
  <1>7. PullsAhead'
    BY <1>6 DEF PullsAhead
  <1>8. SettledQuiet'
    BY <1>1, <1>2, <1>3 DEF SettledQuiet
  <1>9. LinksFollowTag'
    BY <1>1, <1>2 DEF LinksFollowTag
  <1>10. QED
    BY <1>5, <1>7, <1>8, <1>9

(* A step that writes nothing and starts no work: a pull with nothing to    *)
(* do, a step of List, a stuttering step.                                   *)
LEMMA QuietStep ==
  ASSUME PublicationTypeOK, PublicationInv,
         UNCHANGED <<stored, flat, tag, at, job, setting, disturbed, settled>>,
         \A q \in Puller \cup Importer :
           ppc'[q] = ppc[q] \/ (ppc[q] = "new" /\ ppc'[q] = "skipped")
  PROVE  AloneOnPaths' /\ PullsAhead' /\ SettledQuiet' /\ LinksFollowTag'
  <1>1. WorkInOrder /\ AloneOnPaths /\ PullsAhead /\ SettledQuiet /\ LinksFollowTag
    BY DEF PublicationInv
  <1>2. \A q \in Puller \cup Importer : (Active(q)' <=> Active(q)) /\ TargetOf(q)' = TargetOf(q)
    BY DEF Active, TargetOf, Ended
  <1>3. \A q \in Puller \cup Importer : \A g : Clash(g, q)' <=> Clash(g, q)
    BY <1>2 DEF Clash
  <1>4. AloneOnPaths'
    BY <1>1, <1>2, <1>3 DEF AloneOnPaths
  <1>5. ASSUME NEW p \in Puller, p \notin disturbed
        PROVE  TagAhead(p)' /\ LinksAhead(p)'
    <2>1. TagAhead(p) /\ LinksAhead(p)
      BY <1>1, <1>5 DEF PullsAhead
    <2>2. TargetOf(p)' = TargetOf(p)
      BY <1>2
    <2>3. CASE ppc'[p] = ppc[p]
      <3>1. TagAhead(p)'
        BY <2>1, <2>2, <2>3 DEF TagAhead
      <3>2. LinksAhead(p)'
        BY <2>1, <2>2, <2>3 DEF LinksAhead, LinkAt, Live
      <3>3. QED
        BY <3>1, <3>2
    <2>4. CASE ppc[p] = "new" /\ ppc'[p] = "skipped"
      <3>1. setting'[p] = "idle"
        BY <1>1, <2>4 DEF WorkInOrder
      <3>2. QED
        BY <2>4, <3>1 DEF TagAhead, LinksAhead, Running, Removing, Linking
    <2>5. QED
      BY <2>3, <2>4
  <1>6. PullsAhead'
    BY <1>5 DEF PullsAhead
  <1>7. SettledQuiet'
    BY <1>1, <1>2 DEF SettledQuiet
  <1>8. LinksFollowTag'
    BY <1>1 DEF LinksFollowTag
  <1>9. QED
    BY <1>4, <1>6, <1>7, <1>8

LEMMA PublicationStart ==
  Init => PublicationTypeOK /\ PublicationInv
  <1> SUFFICES ASSUME Init PROVE PublicationTypeOK /\ PublicationInv
    OBVIOUS
  <1> USE DEF Init
  <1>1. PublicationTypeOK
    BY DEF PublicationTypeOK
  <1>2. \A h \in Puller \cup Importer : ~Active(h) /\ ppc[h] = "new" /\ setting[h] = "idle"
    BY DEF Active
  <1>3. WorkInOrder /\ AloneOnPaths /\ SettledQuiet /\ LinksFollowTag
    BY <1>2 DEF WorkInOrder, AloneOnPaths, SettledQuiet, LinksFollowTag
  <1>4. PullsAhead
    BY <1>2 DEF PullsAhead, TagAhead, LinksAhead, Running, Removing, Linking
  <1>5. QED
    BY <1>1, <1>3, <1>4 DEF PublicationInv

(* The invariant is inductive. *)
LEMMA PublicationStep ==
  ASSUME PublicationTypeOK, PublicationInv, [Next]_vars
  PROVE  PublicationTypeOK' /\ PublicationInv'
  <1>1. WorkInOrder
    BY DEF PublicationInv
  <1>2. PublicationTypeOK' /\ WorkInOrder'
    BY <1>1, TypeAndOrderStep
  <1>3. SUFFICES AloneOnPaths' /\ PullsAhead' /\ SettledQuiet' /\ LinksFollowTag'
    BY <1>2 DEF PublicationInv
  <1>4. CASE UNCHANGED vars
    <2>1. \A q \in Puller \cup Importer : ppc'[q] = ppc[q]
      BY <1>4 DEF vars
    <2>2. QED
      BY <1>4, <2>1, QuietStep DEF vars
  <1>5. ASSUME NEW p \in Puller, NEW g \in Target, PullSkip(p, g)
        PROVE  AloneOnPaths' /\ PullsAhead' /\ SettledQuiet' /\ LinksFollowTag'
    <2>1. ASSUME NEW q \in Puller \cup Importer
          PROVE  ppc'[q] = ppc[q] \/ (ppc[q] = "new" /\ ppc'[q] = "skipped")
      BY <1>5 DEF PullSkip, Goto, PublicationTypeOK
    <2>2. UNCHANGED <<stored, flat, tag, at, job, setting, disturbed, settled>>
      BY <1>5 DEF PullSkip, files, blobs, history
    <2>3. QED
      BY <2>1, <2>2, QuietStep
  <1>6. ASSUME NEW p \in Puller, NEW g \in Target, NEW d \in Digest, PullStored(p, g, d)
        PROVE  AloneOnPaths' /\ PullsAhead' /\ SettledQuiet' /\ LinksFollowTag'
    BY <1>2, <1>6, StartStep DEF PullStored
  <1>7. ASSUME NEW p \in Puller, PullStep(p)
        PROVE  AloneOnPaths' /\ PullsAhead' /\ SettledQuiet' /\ LinksFollowTag'
    BY <1>2, <1>7, TagStep, ControlStep, LinkStep, DoneStep DEF PullStep
  <1>8. ASSUME NEW s \in Importer, NEW g \in Imported, NEW d \in Digest, ImportStored(s, g, d)
        PROVE  AloneOnPaths' /\ PullsAhead' /\ SettledQuiet' /\ LinksFollowTag'
    <2>1. g \in Target /\ s \notin Puller
      BY PublicationAssumption
    <2>2. flat' = IF s \in Puller THEN flat \cup {d} ELSE flat
      BY <1>8, <2>1 DEF ImportStored
    <2>3. QED
      BY <1>2, <1>8, <2>1, <2>2, StartStep DEF ImportStored
  <1>9. ASSUME NEW h \in Puller \cup Importer, SetCreate(h) \/ SetWrite(h) \/ SetStops(h)
        PROVE  AloneOnPaths' /\ PullsAhead' /\ SettledQuiet' /\ LinksFollowTag'
    BY <1>2, <1>9, SetStep
  <1>10. ASSUME NEW d \in Digest, Prune(d)
         PROVE  AloneOnPaths' /\ PullsAhead' /\ SettledQuiet' /\ LinksFollowTag'
    BY <1>2, <1>10, PruneStep
  <1>11. ASSUME ListBegin \/ ListEnd \/ \E g \in Target : ListRead(g) \/ ListRefused(g)
         PROVE  AloneOnPaths' /\ PullsAhead' /\ SettledQuiet' /\ LinksFollowTag'
    <2>1. UNCHANGED <<stored, flat, tag, at, ppc, job, setting, disturbed, settled>>
      BY <1>11 DEF ListBegin, ListEnd, ListRead, ListRefused, files, blobs, history
    <2>2. \A q \in Puller \cup Importer : ppc'[q] = ppc[q]
      BY <2>1
    <2>3. QED
      BY <2>1, <2>2, QuietStep
  <1>12. QED
    BY <1>4, <1>5, <1>6, <1>7, <1>8, <1>9, <1>10, <1>11 DEF Next

(* A pull moves in a step of its own. *)
LEMMA MovedBy ==
  ASSUME PublicationTypeOK, [Next]_vars, NEW p \in Puller, ppc'[p] # ppc[p]
  PROVE  PullStep(p) \/ ppc'[p] \in {"skipped", "tag_create"}
  <1> USE DEF PublicationTypeOK
  <1>1. ~UNCHANGED vars
    BY DEF vars
  <1>2. ASSUME NEW q, NEW pc, Goto(q, pc)
        PROVE  q = p /\ ppc'[p] = pc
    BY <1>2 DEF Goto
  <1>3. ASSUME NEW q \in Puller, NEW g \in Target, PullSkip(q, g)
        PROVE  ppc'[p] = "skipped"
    BY <1>2, <1>3 DEF PullSkip
  <1>4. ASSUME NEW q \in Puller, NEW g \in Target, NEW d \in Digest, PullStored(q, g, d)
        PROVE  ppc'[p] = "tag_create"
    BY <1>2, <1>4 DEF PullStored
  <1>5. ASSUME NEW q \in Puller, PullStep(q)
        PROVE  q = p
    <2>1. \E pc : Goto(q, pc)
      BY <1>5 DEF PullStep, PullTagCreate, PullTagWrite, PullTagFails, PlainTest, RemoveLink,
                  MakeLink, LinkStepFails, NoDaemon, Register, Registered, PullDone, Kill
    <2>2. QED
      BY <1>2, <2>1
  <1>6. \A s \in Importer, g \in Imported, d \in Digest : ~ImportStored(s, g, d)
    BY <1>2, PublicationAssumption DEF ImportStored
  <1>7. \A h \in Puller \cup Importer : ~SetCreate(h) /\ ~SetWrite(h) /\ ~SetStops(h)
    BY DEF SetCreate, SetWrite, SetStops
  <1>8. \A d \in Digest : ~Prune(d)
    BY DEF Prune
  <1>9. ~ListBegin /\ ~ListEnd /\ \A g \in Target : ~ListRead(g) /\ ~ListRefused(g)
    BY DEF ListBegin, ListEnd, ListRead, ListRefused
  <1>10. QED
    BY <1>1, <1>3, <1>4, <1>5, <1>6, <1>7, <1>8, <1>9 DEF Next

------------------------------------------------------------------------------
(* Theorems.                                                                *)

(* Every pull at work has a target and a digest, a set_tag is under way     *)
(* only for a pull in Register or an import, and the answer of List holds   *)
(* names that validate_tag_segment accepts, in every state.                 *)
THEOREM PublicationTypeCorrect == Spec => []PublicationTypeOK
  <1>1. Init => PublicationTypeOK /\ PublicationInv
    BY PublicationStart
  <1>2. PublicationTypeOK /\ PublicationInv /\ [Next]_vars => PublicationTypeOK' /\ PublicationInv'
    BY PublicationStep
  <1>3. QED
    BY <1>1, <1>2, PTL DEF Spec

(* The inductive invariant holds in every state: nobody writes on the paths *)
(* of a pull that nothing disturbed, and so each of its steps finds what    *)
(* the steps before it left.                                                *)
THEOREM PublicationInvariant == Spec => []PublicationInv
  <1>1. Init => PublicationTypeOK /\ PublicationInv
    BY PublicationStart
  <1>2. PublicationTypeOK /\ PublicationInv /\ [Next]_vars => PublicationTypeOK' /\ PublicationInv'
    BY PublicationStep
  <1>3. QED
    BY <1>1, <1>2, PTL DEF Spec

(* After an undisturbed pull the tag file and the links of the tag's own    *)
(* lead to one blob until somebody else writes one of these paths           *)
(* (commit_artifact.rs), for any names and any number of pulls.             *)
THEOREM SettledLinksFollowTag == Spec => []LinksFollowTag
  <1>1. PublicationInv => LinksFollowTag
    BY DEF PublicationInv
  <1>2. QED
    BY <1>1, PublicationInvariant, PTL

(* When a pull's Register comes to truncate the tag file, the file already  *)
(* holds the digest it is about to write, unless somebody wrote the tag in  *)
(* between (register.rs).                                                   *)
THEOREM RegisterWritesAgain == Spec => []RegisterRepeats
  <1>1. PublicationInv => RegisterRepeats
    BY DEF PublicationInv, PullsAhead, TagAhead, RegisterRepeats
  <1>2. QED
    BY <1>1, PublicationInvariant, PTL

(* A pull that nothing disturbed ends with a plain link to a flat file that *)
(* is there, whatever prunes and imports did to it before                   *)
(* (commit_artifact.rs, store.rs).                                          *)
THEOREM PullEndsLive == Spec => EndsLive
  <1>1. ASSUME PublicationTypeOK, PublicationInv, [Next]_vars, NEW p \in Puller,
               ppc[p] # "done", ppc'[p] = "done", p \notin disturbed
        PROVE  at'[Plain(TargetOf(p))] \in flat'
    <2>1. WorkInOrder /\ TagAhead(p) /\ LinksAhead(p)
      BY <1>1 DEF PublicationInv, PullsAhead
    <2>2. PullStep(p)
      BY <1>1, MovedBy
    <2>3. ASSUME NEW pc, Goto(p, pc)
          PROVE  pc = "done"
      BY <1>1, <2>3 DEF Goto, PublicationTypeOK
    <2>4. ~PullTagCreate(p) /\ ~PullTagWrite(p) /\ ~PullTagFails(p) /\ ~Register(p) /\ ~Kill(p)
      BY <2>3 DEF PullTagCreate, PullTagWrite, PullTagFails, Register, Kill
    <2>5. ~PlainTest(p)
      BY <2>3 DEF PlainTest, AfterPlain
    <2>6. ~RemoveLink(p) /\ ~MakeLink(p) /\ ~LinkStepFails(p)
      BY <2>1, <2>3, LinkGoesOn DEF RemoveLink, MakeLink, LinkStepFails
    <2>7. NoDaemon(p) \/ Registered(p)
      BY <2>2, <2>4, <2>5, <2>6 DEF PullStep
    <2>8. ppc[p] \in {"call", "wait"} /\ UNCHANGED <<stored, flat, at>>
      BY <2>7 DEF NoDaemon, Registered, files, blobs
    <2>9. Live(Plain(TargetOf(p)))
      BY <2>1, <2>8 DEF LinksAhead
    <2>10. QED
      BY <2>8, <2>9 DEF Live
  <1>2. PublicationTypeOK /\ PublicationInv /\ [Next]_vars =>
          [\A p \in Puller :
             ppc[p] # "done" /\ ppc'[p] = "done" /\ p \notin disturbed =>
               at'[Plain(TargetOf(p))] \in flat']_vars
    BY <1>1
  <1>3. QED
    BY <1>2, PublicationTypeCorrect, PublicationInvariant, PTL DEF Spec, EndsLive

(* A plain link that works is taken over only by a pull of the name's       *)
(* "latest", by one whose dash link has the same path, or by one of that    *)
(* name disturbed between exists() and remove_file (commit_artifact.rs).    *)
THEOREM PlainLinkStays == Spec => PlainStays
  <1>1. ASSUME PublicationTypeOK, PublicationInv, [Next]_vars, NEW g \in Target,
               Live(Plain(g)), at'[Plain(g)] # at[Plain(g)]
        PROVE  \E p \in Puller :
                 /\ ppc'[p] # ppc[p]
                 /\ \/ TargetOf(p) = <<g[1], Latest>>
                    \/ TargetOf(p)[2] # Latest /\ Dash(TargetOf(p)) = Plain(g)
                    \/ TargetOf(p)[1] = g[1] /\ p \in disturbed
    <2>1. WorkInOrder /\ PullsAhead
      BY <1>1 DEF PublicationInv
    <2>2. PICK p \in Puller : RemoveLink(p) \/ MakeLink(p)
      <3>1. ~UNCHANGED at
        BY <1>1
      <3>2. QED
        BY <1>1, <3>1
           DEF Next, PullSkip, PullStored, PullStep, PullTagCreate, PullTagWrite, PullTagFails,
               PlainTest, LinkStepFails, NoDaemon, Register, Registered, Kill, ImportStored,
               SetCreate, SetWrite, SetStops, Prune, ListBegin, ListEnd, ListRead, ListRefused,
               files, blobs, vars
    <2>3. ppc[p] \in Removing \cup Linking
      BY <2>2 DEF RemoveLink, MakeLink
    <2>4. PICK t \in Target : t = TargetOf(p)
      <3>1. Active(p)
        BY <1>1, <2>3, AtWork DEF Running
      <3>2. QED
        BY <1>1, <2>1, <3>1, JobType
    <2>5. LinkAt(p) = Plain(g)
      <3>1. Plain(g) \in Path
        BY LinkSets
      <3>2. QED
        BY <1>1, <2>2, <3>1 DEF RemoveLink, MakeLink, Put, PublicationTypeOK
    <2>6. ppc'[p] = AfterLink(p)
      BY <1>1, <2>2 DEF RemoveLink, MakeLink, Goto, PublicationTypeOK
    <2>7. ppc'[p] # ppc[p]
      BY <2>3, <2>6, LinkSteps DEF Removing, Linking, AfterPlain
    <2>8. SUFFICES \/ t = <<g[1], Latest>>
                   \/ t[2] # Latest /\ Dash(t) = Plain(g)
                   \/ t[1] = g[1] /\ p \in disturbed
      BY <2>4, <2>7
    <2>9. at[Plain(g)] # None
      BY <1>1, PublicationAssumption DEF Live, PublicationTypeOK
    <2>10. ppc[p] \notin {"colon_rm", "colon_ln"}
      BY <2>4, <2>5, LinkSteps, ColonIsNotPlain
    <2>11. CASE ppc[p] \in {"dash_rm", "dash_ln"}
      BY <2>1, <2>4, <2>5, <2>11, LinkSteps DEF WorkInOrder
    <2>12. CASE ppc[p] \in {"plain_rm", "plain_ln"}
      <3>1. Plain(t) = Plain(g) /\ t[1] = g[1]
        BY <2>4, <2>5, <2>12, LinkSteps DEF Plain
      <3>2. SUFFICES ASSUME p \notin disturbed
                     PROVE  t = <<g[1], Latest>>
        BY <3>1
      <3>3. LinksAhead(p)
        BY <2>1, <3>2 DEF PullsAhead
      <3>4. ppc[p] = "plain_rm"
        BY <2>5, <2>9, <2>12, <3>3 DEF LinksAhead, Linking
      <3>5. t[2] = Latest
        BY <1>1, <2>4, <3>1, <3>3, <3>4 DEF LinksAhead
      <3>6. t = <<t[1], t[2]>>
        BY PublicationAssumption
      <3>7. QED
        BY <3>1, <3>5, <3>6
    <2>13. QED
      BY <2>3, <2>10, <2>11, <2>12 DEF Removing, Linking
  <1>2. PublicationTypeOK /\ PublicationInv /\ [Next]_vars =>
          [\A g \in Target : Live(Plain(g)) /\ at'[Plain(g)] # at[Plain(g)] =>
             \E p \in Puller :
               /\ ppc'[p] # ppc[p]
               /\ \/ TargetOf(p) = <<g[1], Latest>>
                  \/ TargetOf(p)[2] # Latest /\ Dash(TargetOf(p)) = Plain(g)
                  \/ TargetOf(p)[1] = g[1] /\ p \in disturbed]_vars
    BY <1>1
  <1>3. QED
    BY <1>2, PublicationTypeCorrect, PublicationInvariant, PTL DEF Spec, PlainStays

(* A tag file is truncated and written, never removed. *)
LEMMA TagStays ==
  ASSUME PublicationTypeOK, WorkInOrder, [Next]_vars, NEW g \in Target, tag[g] # None
  PROVE  tag'[g] # None
  <1> USE DEF PublicationTypeOK
  <1>1. SUFFICES ASSUME tag' # tag
                 PROVE  tag'[g] # None
    OBVIOUS
  <1>2. PICK h \in Puller \cup Importer :
          PullTagCreate(h) \/ PullTagWrite(h) \/ SetCreate(h) \/ SetWrite(h)
    BY <1>1
       DEF Next, PullSkip, PullStored, PullStep, PullTagFails, PlainTest, RemoveLink, MakeLink,
           LinkStepFails, NoDaemon, Register, Registered, Kill, ImportStored, SetStops, Prune,
           ListBegin, ListEnd, ListRead, ListRefused, files, blobs, vars
  <1>3. ppc[h] \in Running \/ setting[h] # "idle"
    BY <1>2 DEF PullTagCreate, PullTagWrite, SetCreate, SetWrite, Running
  <1>4. Active(h)
    BY <1>3, AtWork
  <1>5. job[h].digest \in Digest
    BY <1>4, JobType
  <1>6. PICK x : x # None /\ tag' = [tag EXCEPT ![TargetOf(h)] = x]
    BY <1>2, <1>5, PublicationAssumption DEF PullTagCreate, PullTagWrite, SetCreate, SetWrite
  <1>7. QED
    BY <1>6

(* Of the tags that were there when it began, List leaves out those of      *)
(* nested names, in every answer; of the others it answers with all or with *)
(* none, and with none only when a tag file that lies where it looks has a  *)
(* name the daemon refuses (tags.rs, model1.rs).                            *)
THEOREM ListIsAllOrNothing == Spec => []ListAllOrNothing
  <1>1. Init => ListAllOrNothing
    BY DEF Init, ListAllOrNothing
  <1>2. ASSUME PublicationTypeOK, PublicationInv, ListAllOrNothing, [Next]_vars
        PROVE  ListAllOrNothing'
    <2>1. SUFFICES ASSUME list'.pc = "done"
                   PROVE  \/ /\ list'.met \cap before' = before' \cap Walked
                             /\ before' \cap Walked \subseteq Portable
                          \/ list'.met = {} /\ \E g \in Walked \ Portable : tag'[g] # None
      BY DEF ListAllOrNothing
    <2>2. \A g \in Target : tag[g] # None => tag'[g] # None
      BY <1>2, TagStays DEF PublicationInv
    <2>3. CASE UNCHANGED <<list, before>>
      BY <1>2, <2>1, <2>2, <2>3 DEF ListAllOrNothing, Walked
    <2>4. CASE ListBegin \/ ListEnd \/ \E g \in Target : ListRead(g) \/ ListRefused(g)
      <3>1. ~ListBegin
        BY <2>1 DEF ListBegin
      <3>2. \A g \in Target : ~ListRead(g)
        BY <1>2, <2>1 DEF ListRead, PublicationTypeOK
      <3>3. CASE ListEnd
        <4>1. list.met \subseteq Walked
          BY <1>2, PublicationAssumption DEF PublicationTypeOK, Walked, Nested
        <4>2. list'.met = list.met /\ before' = before /\ before \cap Walked \subseteq list.met
          BY <1>2, <3>3 DEF ListEnd, PublicationTypeOK
        <4>3. list.met \subseteq Portable
          BY <1>2 DEF PublicationTypeOK
        <4>4. QED
          BY <4>1, <4>2, <4>3
      <3>4. ASSUME NEW g \in Target, ListRefused(g)
            PROVE  list'.met = {} /\ \E k \in Walked \ Portable : tag'[k] # None
        BY <2>2, <3>4 DEF ListRefused, Tagged
      <3>5. QED
        BY <2>4, <3>1, <3>2, <3>3, <3>4
    <2>5. UNCHANGED <<list, before>> \/ ListBegin \/ ListEnd \/ \E g \in Target : ListRead(g) \/ ListRefused(g)
      BY <1>2 DEF Next, PullSkip, PullStored, PullStep, PullTagCreate, PullTagWrite, PullTagFails,
           PlainTest, RemoveLink, MakeLink, LinkStepFails, NoDaemon, Register, Registered, Kill,
           ImportStored, SetCreate, SetWrite, SetStops, Prune, listing, vars
    <2>6. QED
      BY <2>3, <2>4, <2>5
  <1>3. QED
    BY <1>1, <1>2, PublicationTypeCorrect, PublicationInvariant, PTL DEF Spec
==============================================================================
