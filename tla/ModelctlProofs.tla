---------------------------- MODULE ModelctlProofs ----------------------------
(***************************************************************************)
(* Theorems about what modelctl decides before it downloads.  Bootstrap:   *)
(* its plans, for every amount of memory, and its report, for every set of *)
(* topologies.  ModelResolution: the file it chooses, for every request    *)
(* and every listing.                                                      *)
(***************************************************************************)
EXTENDS Bootstrap, ModelResolution, FiniteSums, SequenceTheorems

(* The plans and the report of bootstrap.                                   *)

USE DEF Mib, Gib

(* What a budget says of the memory it was made from, and the other way.   *)
LEMMA BudgetBounds ==
    ASSUME NEW v \in Nat, NEW a \in Nat
    PROVE  /\ BudgetFor(v, a).vram \in Nat /\ BudgetFor(v, a).ram \in Nat
           /\ 100 * BudgetFor(v, a).vram <= 85 * v
           /\ 2 * BudgetFor(v, a).ram <= a
<1>1. (85 * v) \div 100 \in Nat /\ 100 * ((85 * v) \div 100) <= 85 * v
    OBVIOUS
<1>2. a \div 2 \in Nat /\ 2 * (a \div 2) <= a
    OBVIOUS
<1>3. QED
    BY <1>1, <1>2 DEF BudgetFor

(* The budget grows with the memory. *)
LEMMA BudgetGrows ==
    ASSUME NEW v \in Nat, NEW w \in Nat, NEW a \in Nat, NEW c \in Nat, v <= w, a <= c
    PROVE  /\ BudgetFor(v, a).vram <= BudgetFor(w, c).vram
           /\ BudgetFor(v, a).ram <= BudgetFor(w, c).ram
<1>1. (85 * v) \div 100 <= (85 * w) \div 100
    OBVIOUS
<1>2. a \div 2 <= c \div 2
    OBVIOUS
<1>3. QED
    BY <1>1, <1>2 DEF BudgetFor

(* The targets of each family, with the budget each of them asks for. *)
LEMMA QwenTargets ==
    ASSUME NEW b, NEW t \in plan_qwen(b)
    PROVE  \/ t.role = "draft" /\ t.size = 6500 /\ b.ram >= 6500
           \/ t.role = "draft" /\ t.size = 3980
           \/ t.role = "primary" /\ t.size = 53248 /\ b.vram >= 51200
           \/ t.role = "reasoner" /\ t.size = 209920 /\ b.vram >= 209920
           \/ t.role = "reasoner" /\ t.size = 97280 /\ b.vram >= 97280
    BY DEF plan_qwen, Draft, Optional, Target

LEMMA GraniteTargets ==
    ASSUME NEW b, NEW t \in plan_granite(b)
    PROVE  \/ t.role = "draft" /\ t.size = 8500 /\ b.ram >= 8500
           \/ t.role = "draft" /\ t.size = 5500
           \/ t.role = "primary" /\ t.size = 56320 /\ b.vram >= 51200
    BY DEF plan_granite, Draft, Optional, Target

LEMMA GemmaTargets ==
    ASSUME NEW b, NEW t \in plan_gemma(b)
    PROVE  \/ t.role = "draft" /\ t.size = 22528 /\ b.ram >= 20480
           \/ t.role = "draft" /\ t.size = 16384
           \/ t.role = "primary" /\ t.size = 63488 /\ b.vram >= 61440
           \/ t.role = "vision" /\ t.size = 6000 /\ b.vram >= 61440
           \/ t.role = "reasoner" /\ t.size = 179200 /\ b.vram >= 174080
           \/ t.role = "embedder" /\ t.size = 1680
    BY DEF plan_gemma, Draft, Optional, Target

LEMMA PhiTargets ==
    ASSUME NEW b, NEW t \in plan_phi(b)
    PROVE  \/ t.role = "draft" /\ t.size = 25600 /\ b.ram >= 25600
           \/ t.role = "draft" /\ t.size = 18432
           \/ t.role = "primary" /\ t.size = 93184 /\ b.vram >= 92160
    BY DEF plan_phi, Draft, Optional, Target

LEMMA BitnetTargets ==
    ASSUME NEW b, NEW t \in plan_bitnet(b)
    PROVE  t.role = "draft" /\ t.size = 5500
    BY DEF plan_bitnet, Target

(* plan_family: whatever the memory, the models chosen for the GPU fit     *)
(* into the VRAM there is, and the larger draft into the free memory,      *)
(* although some thresholds lie below the sizes.                           *)
THEOREM PlansFitTheMachine ==
    \A f \in Family, v, a \in Nat : Fits(plan_family(f, BudgetFor(v, a)), v, a)
<1> SUFFICES ASSUME NEW f \in Family, NEW v \in Nat, NEW a \in Nat
             PROVE  Fits(plan_family(f, BudgetFor(v, a)), v, a)
    OBVIOUS
<1> DEFINE b == BudgetFor(v, a)
<1>1. b.vram \in Nat /\ b.ram \in Nat /\ 100 * b.vram <= 85 * v /\ 2 * b.ram <= a
    BY BudgetBounds
<1> HIDE DEF b
<1>2. CASE f = "qwen"
  <2>1. plan_family(f, b) = plan_qwen(b)
    BY <1>2 DEF plan_family
  <2>2. Fits(plan_qwen(b), v, a)
    BY <1>1, QwenTargets DEF Fits, SmallDrafts
  <2>3. QED
    BY <2>1, <2>2 DEF b
<1>3. CASE f = "granite"
  <2>1. plan_family(f, b) = plan_granite(b)
    BY <1>3 DEF plan_family
  <2>2. Fits(plan_granite(b), v, a)
    BY <1>1, GraniteTargets DEF Fits, SmallDrafts
  <2>3. QED
    BY <2>1, <2>2 DEF b
<1>4. CASE f = "phi"
  <2>1. plan_family(f, b) = plan_phi(b)
    BY <1>4 DEF plan_family
  <2>2. Fits(plan_phi(b), v, a)
    BY <1>1, PhiTargets DEF Fits, SmallDrafts
  <2>3. QED
    BY <2>1, <2>2 DEF b
<1>5. CASE f = "gemma"
  <2>1. plan_family(f, b) = plan_gemma(b)
    BY <1>5 DEF plan_family
  <2>2. Fits(plan_gemma(b), v, a)
    BY <1>1, GemmaTargets DEF Fits, SmallDrafts
  <2>3. QED
    BY <2>1, <2>2 DEF b
<1>6. CASE f = "bitnet"
  <2>1. plan_family(f, b) = plan_bitnet(b)
    BY <1>6 DEF plan_family
  <2>2. Fits(plan_bitnet(b), v, a)
    BY <1>1, BitnetTargets DEF Fits, SmallDrafts
  <2>3. QED
    BY <2>1, <2>2 DEF b
<1>7. QED
    BY <1>2, <1>3, <1>4, <1>5, <1>6 DEF Family, b

(* A role is there, with so large a target at least. *)
Has(p, role, size) == \E u \in p : u.role = role /\ u.size >= size

LEMMA HasSubset ==
    ASSUME NEW p, NEW q, NEW role, NEW size, p \subseteq q, Has(p, role, size)
    PROVE  Has(q, role, size)
    BY DEF Has

LEMMA TargetHas ==
    ASSUME NEW role, NEW tag, NEW size \in Nat
    PROVE  Has({Target(role, tag, size)}, role, size)
<1>1. Target(role, tag, size).role = role /\ Target(role, tag, size).size >= size
    BY DEF Target
<1>2. QED
    BY <1>1 DEF Has

LEMMA DraftHas ==
    ASSUME NEW b, NEW tag, NEW th \in Nat, NEW large \in Nat, NEW small \in Nat, large >= small
    PROVE  /\ Has(Draft(tag, b, th, large, small), "draft", small)
           /\ b.ram >= th => Has(Draft(tag, b, th, large, small), "draft", large)
<1>1. CASE b.ram >= th
  <2>1. Draft(tag, b, th, large, small) = {Target("draft", tag, large)}
    BY <1>1 DEF Draft
  <2>2. Has({Target("draft", tag, large)}, "draft", large)
    BY TargetHas
  <2>3. Has({Target("draft", tag, large)}, "draft", small)
    BY <2>2 DEF Has, Target
  <2>4. QED
    BY <2>1, <2>2, <2>3
<1>2. CASE ~(b.ram >= th)
  <2>1. Draft(tag, b, th, large, small) = {Target("draft", tag, small)}
    BY <1>2 DEF Draft
  <2>2. QED
    BY <1>2, <2>1, TargetHas
<1>3. QED
    BY <1>1, <1>2

(* The other way round: what a budget is enough for is in the plan. *)
LEMMA QwenHas ==
    ASSUME NEW b, b.ram \in Nat, b.vram \in Nat
    PROVE  /\ Has(plan_qwen(b), "draft", 3980)
           /\ b.ram >= 6500 => Has(plan_qwen(b), "draft", 6500)
           /\ b.vram >= 51200 => Has(plan_qwen(b), "primary", 53248)
           /\ b.vram >= 97280 => Has(plan_qwen(b), "reasoner", 97280)
           /\ b.vram >= 209920 => Has(plan_qwen(b), "reasoner", 209920)
<1>1. Draft("qwen2.5:0.5b", b, 6500, 6500, 3980) \subseteq plan_qwen(b)
    BY DEF plan_qwen
<1>2. Has(Draft("qwen2.5:0.5b", b, 6500, 6500, 3980), "draft", 3980) /\ (b.ram >= 6500 => Has(Draft("qwen2.5:0.5b", b, 6500, 6500, 3980), "draft", 6500))
    BY DraftHas
<1>3. b.vram >= 51200 => {Target("primary", "qwen2.5:7b", 53248)} \subseteq plan_qwen(b)
    BY DEF plan_qwen, Optional
<1>4. Has({Target("primary", "qwen2.5:7b", 53248)}, "primary", 53248)
    BY TargetHas
<1>5. b.vram >= 97280 /\ ~(b.vram >= 209920) => {Target("reasoner", "qwen2.5:14b", 97280)} \subseteq plan_qwen(b)
    BY DEF plan_qwen, Optional
<1>6. Has({Target("reasoner", "qwen2.5:14b", 97280)}, "reasoner", 97280)
    BY TargetHas
<1>7. b.vram >= 209920 => {Target("reasoner", "qwen2.5:32b", 209920)} \subseteq plan_qwen(b)
    BY DEF plan_qwen, Optional
<1>8. Has({Target("reasoner", "qwen2.5:32b", 209920)}, "reasoner", 209920)
    BY TargetHas
<1>9. b.vram >= 97280 => Has(plan_qwen(b), "reasoner", 97280)
  <2>1. CASE b.vram >= 209920
    <3>1. Has(plan_qwen(b), "reasoner", 209920)
      BY <2>1, <1>7, <1>8, HasSubset
    <3>2. QED
      BY <3>1, QwenTargets DEF Has
  <2>2. CASE ~(b.vram >= 209920)
    BY <2>2, <1>5, <1>6, HasSubset
  <2>3. QED
    BY <2>1, <2>2
<1>10. QED
    BY <1>1, <1>2, <1>3, <1>4, <1>5, <1>6, <1>7, <1>8, <1>9, HasSubset

LEMMA GraniteHas ==
    ASSUME NEW b, b.ram \in Nat, b.vram \in Nat
    PROVE  /\ Has(plan_granite(b), "draft", 5500)
           /\ b.ram >= 8500 => Has(plan_granite(b), "draft", 8500)
           /\ b.vram >= 51200 => Has(plan_granite(b), "primary", 56320)
<1>1. Draft("granite-3.0:1b", b, 8500, 8500, 5500) \subseteq plan_granite(b)
    BY DEF plan_granite
<1>2. Has(Draft("granite-3.0:1b", b, 8500, 8500, 5500), "draft", 5500) /\ (b.ram >= 8500 => Has(Draft("granite-3.0:1b", b, 8500, 8500, 5500), "draft", 8500))
    BY DraftHas
<1>3. b.vram >= 51200 => {Target("primary", "granite-3.0:8b", 56320)} \subseteq plan_granite(b)
    BY DEF plan_granite, Optional
<1>4. Has({Target("primary", "granite-3.0:8b", 56320)}, "primary", 56320)
    BY TargetHas
<1>5. QED
    BY <1>1, <1>2, <1>3, <1>4, HasSubset

LEMMA GemmaHas ==
    ASSUME NEW b, b.ram \in Nat, b.vram \in Nat
    PROVE  /\ Has(plan_gemma(b), "draft", 16384)
           /\ b.ram >= 20480 => Has(plan_gemma(b), "draft", 22528)
           /\ b.vram >= 61440 => Has(plan_gemma(b), "primary", 63488)
           /\ b.vram >= 61440 => Has(plan_gemma(b), "vision", 6000)
           /\ b.vram >= 174080 => Has(plan_gemma(b), "reasoner", 179200)
           /\ Has(plan_gemma(b), "embedder", 1680)
<1>1. Draft("gemma:2b", b, 20480, 22528, 16384) \subseteq plan_gemma(b)
    BY DEF plan_gemma
<1>2. Has(Draft("gemma:2b", b, 20480, 22528, 16384), "draft", 16384) /\ (b.ram >= 20480 => Has(Draft("gemma:2b", b, 20480, 22528, 16384), "draft", 22528))
    BY DraftHas
<1>3. b.vram >= 61440 => {Target("primary", "gemma:9b", 63488)} \subseteq plan_gemma(b)
    BY DEF plan_gemma, Optional
<1>4. Has({Target("primary", "gemma:9b", 63488)}, "primary", 63488)
    BY TargetHas
<1>5. b.vram >= 61440 => {Target("vision", "gemma:mmproj-f16", 6000)} \subseteq plan_gemma(b)
    BY DEF plan_gemma, Optional
<1>6. Has({Target("vision", "gemma:mmproj-f16", 6000)}, "vision", 6000)
    BY TargetHas
<1>7. b.vram >= 174080 => {Target("reasoner", "gemma:27b", 179200)} \subseteq plan_gemma(b)
    BY DEF plan_gemma, Optional
<1>8. Has({Target("reasoner", "gemma:27b", 179200)}, "reasoner", 179200)
    BY TargetHas
<1>9. {Target("embedder", "embeddinggemma:270m", 1680)} \subseteq plan_gemma(b)
    BY DEF plan_gemma, Optional
<1>10. Has({Target("embedder", "embeddinggemma:270m", 1680)}, "embedder", 1680)
    BY TargetHas
<1>11. QED
    BY <1>1, <1>2, <1>3, <1>4, <1>5, <1>6, <1>7, <1>8, <1>9, <1>10, HasSubset

LEMMA PhiHas ==
    ASSUME NEW b, b.ram \in Nat, b.vram \in Nat
    PROVE  /\ Has(plan_phi(b), "draft", 18432)
           /\ b.ram >= 25600 => Has(plan_phi(b), "draft", 25600)
           /\ b.vram >= 92160 => Has(plan_phi(b), "primary", 93184)
<1>1. Draft("phi-3.5-mini:3.8b", b, 25600, 25600, 18432) \subseteq plan_phi(b)
    BY DEF plan_phi
<1>2. Has(Draft("phi-3.5-mini:3.8b", b, 25600, 25600, 18432), "draft", 18432) /\ (b.ram >= 25600 => Has(Draft("phi-3.5-mini:3.8b", b, 25600, 25600, 18432), "draft", 25600))
    BY DraftHas
<1>3. b.vram >= 92160 => {Target("primary", "phi-4:14b", 93184)} \subseteq plan_phi(b)
    BY DEF plan_phi, Optional
<1>4. Has({Target("primary", "phi-4:14b", 93184)}, "primary", 93184)
    BY TargetHas
<1>5. QED
    BY <1>1, <1>2, <1>3, <1>4, HasSubset

LEMMA BitnetHas ==
    ASSUME NEW b, b.ram \in Nat, b.vram \in Nat
    PROVE  /\ Has(plan_bitnet(b), "draft", 5500)
    BY DEF Has, plan_bitnet, Draft, Optional, Target

(* plan_family: a machine with at least as much VRAM and free memory gets  *)
(* every role of the plan, with a target at least as large.                *)
THEOREM PlansGrowWithMemory ==
    \A f \in Family, v, w, a, c \in Nat :
        v <= w /\ a <= c =>
            Grows(plan_family(f, BudgetFor(v, a)), plan_family(f, BudgetFor(w, c)))
<1> SUFFICES ASSUME NEW f \in Family, NEW v \in Nat, NEW w \in Nat, NEW a \in Nat, NEW c \in Nat,
                    v <= w, a <= c
             PROVE  Grows(plan_family(f, BudgetFor(v, a)), plan_family(f, BudgetFor(w, c)))
    OBVIOUS
<1> DEFINE b == BudgetFor(v, a)
           d == BudgetFor(w, c)
<1>1. b.vram \in Nat /\ b.ram \in Nat /\ d.vram \in Nat /\ d.ram \in Nat
    BY BudgetBounds
<1>2. b.vram <= d.vram /\ b.ram <= d.ram
    BY BudgetGrows
<1> HIDE DEF b, d
<1>3. CASE f = "qwen"
  <2>1. plan_family(f, b) = plan_qwen(b) /\ plan_family(f, d) = plan_qwen(d)
    BY <1>3 DEF plan_family
  <2>2. ASSUME NEW t \in plan_qwen(b)
        PROVE  Has(plan_qwen(d), t.role, t.size)
    BY <1>1, <1>2, <2>2, QwenTargets, QwenHas
  <2>3. QED
    BY <2>1, <2>2 DEF Grows, Has, b, d
<1>4. CASE f = "granite"
  <2>1. plan_family(f, b) = plan_granite(b) /\ plan_family(f, d) = plan_granite(d)
    BY <1>4 DEF plan_family
  <2>2. ASSUME NEW t \in plan_granite(b)
        PROVE  Has(plan_granite(d), t.role, t.size)
    BY <1>1, <1>2, <2>2, GraniteTargets, GraniteHas
  <2>3. QED
    BY <2>1, <2>2 DEF Grows, Has, b, d
<1>5. CASE f = "gemma"
  <2>1. plan_family(f, b) = plan_gemma(b) /\ plan_family(f, d) = plan_gemma(d)
    BY <1>5 DEF plan_family
  <2>2. ASSUME NEW t \in plan_gemma(b)
        PROVE  Has(plan_gemma(d), t.role, t.size)
    BY <1>1, <1>2, <2>2, GemmaTargets, GemmaHas
  <2>3. QED
    BY <2>1, <2>2 DEF Grows, Has, b, d
<1>6. CASE f = "phi"
  <2>1. plan_family(f, b) = plan_phi(b) /\ plan_family(f, d) = plan_phi(d)
    BY <1>6 DEF plan_family
  <2>2. ASSUME NEW t \in plan_phi(b)
        PROVE  Has(plan_phi(d), t.role, t.size)
    BY <1>1, <1>2, <2>2, PhiTargets, PhiHas
  <2>3. QED
    BY <2>1, <2>2 DEF Grows, Has, b, d
<1>7. CASE f = "bitnet"
  <2>1. plan_family(f, b) = plan_bitnet(b) /\ plan_family(f, d) = plan_bitnet(d)
    BY <1>7 DEF plan_family
  <2>2. ASSUME NEW t \in plan_bitnet(b)
        PROVE  Has(plan_bitnet(d), t.role, t.size)
    BY <1>1, <1>2, <2>2, BitnetTargets, BitnetHas
  <2>3. QED
    BY <2>1, <2>2 DEF Grows, Has, b, d
<1>8. QED
    BY <1>3, <1>4, <1>5, <1>6, <1>7 DEF Family, b, d

LEMMA PullInvStep == PullInv /\ [BootstrapNext]_bootVars => PullInv'
<1> SUFFICES ASSUME PullInv, [BootstrapNext]_bootVars
             PROVE  PullInv'
    OBVIOUS
<1> USE DEF inputVars
<1>1. CASE ParseFamily \/ AskConfigured \/ AskDefault \/ ReadHost
    BY <1>1 DEF ParseFamily, AskConfigured, AskDefault, ReadHost, PullInv, ReportsAllPulls
<1>2. CASE MakePlan
  <2>1. DOMAIN pull = {} /\ joined = {} /\ joined' = {}
    BY <1>2 DEF MakePlan, PullInv
  <2>2. CASE dry
    BY <1>2, <2>1, <2>2 DEF MakePlan, PullInv, ReportsAllPulls
  <2>3. CASE ~dry
    <3>1. pull' = [t \in plan' |-> "running"] /\ bpc' = "pull"
      BY <1>2, <2>3 DEF MakePlan
    <3>2. QED
      BY <2>1, <3>1 DEF PullInv, ReportsAllPulls
  <2>4. QED
    BY <2>2, <2>3
<1>3. CASE JoinNext
    BY <1>3 DEF JoinNext, PullInv, ReportsAllPulls
<1>4. CASE Report
  <2>1. joined = plan /\ DOMAIN pull = plan
    BY <1>4 DEF Report, PullInv
  <2>2. \A t \in plan : pull[t] \in {"ok", "failed"}
    BY <2>1 DEF PullInv
  <2>3. outcome' = "ok" <=> \A t \in plan : pull[t] = "ok"
    BY <1>4, <2>1, <2>2 DEF Report, Errors
  <2>4. QED
    BY <1>4, <2>1, <2>2, <2>3 DEF Report, PullInv, ReportsAllPulls
<1>5. ASSUME NEW t \in DOMAIN pull, PullEnds(t)
      PROVE  PullInv'
  <2>1. PICK r \in {"ok", "failed"} : pull' = [pull EXCEPT ![t] = r]
    BY <1>5 DEF PullEnds
  <2>2. DOMAIN pull' = DOMAIN pull /\ UNCHANGED <<bpc, plan, joined, outcome>>
    BY <1>5, <2>1 DEF PullEnds
  <2>3. bpc # "done"
    BY <1>5 DEF PullEnds, PullInv, ReportsAllPulls
  <2>4. \A u \in DOMAIN pull : pull'[u] = IF u = t THEN r ELSE pull[u]
    BY <2>1
  <2>5. QED
    BY <2>2, <2>3, <2>4 DEF PullInv, ReportsAllPulls
<1>6. CASE UNCHANGED bootVars
    BY <1>6 DEF bootVars, PullInv, ReportsAllPulls
<1>7. QED
    BY <1>1, <1>2, <1>3, <1>4, <1>5, <1>6 DEF BootstrapNext, BootstrapStep

(* run_bootstrap reports when every pull has ended, and success if and     *)
(* only if all of them went well, on whatever machine it runs.             *)
THEOREM BootstrapReportsAll == BootstrapSpec => []ReportsAllPulls
<1>1. BootstrapInit => PullInv
    BY DEF BootstrapInit, PullInv, ReportsAllPulls
<1>2. PullInv => ReportsAllPulls
    BY DEF PullInv
<1>3. QED
    BY <1>1, <1>2, PullInvStep, PTL DEF BootstrapSpec
-----------------------------------------------------------------------------
(* The memory of every topology the command can come by is a number. *)
LEMMA TopologyMemory ==
    ASSUME NEW t \in Topologies
    PROVE  SumGpuVram(t) \in Nat /\ t.total \in Nat /\ t.available \in Nat
<1>1. CASE t \in Answer
  <2> DEFINE f == [i \in DOMAIN t.planes |-> t.planes[i].memory]
             D == {i \in DOMAIN t.planes : Dedicated(t.planes[i])}
  <2>1. IsFiniteSet(D) /\ \A i \in D : f[i] \in Nat
    BY <1>1, BootstrapAssumption, FS_Subset
  <2> HIDE DEF f, D
  <2>2. SumFunctionOnSet(f, D) \in Nat
    BY <2>1, SumIsNat
  <2>3. QED
    BY <1>1, <2>2, BootstrapAssumption DEF SumGpuVram, f, D
<1>2. ASSUME NEW h \in Host, t = HostTopology(h)
      PROVE  SumGpuVram(t) \in Nat /\ t.total \in Nat /\ t.available \in Nat
  <2>1. t.total \in Nat /\ t.available \in Nat
    BY <1>2, BootstrapAssumption DEF HostTopology
  <2>2. DOMAIN t.planes = {}
    BY <1>2 DEF HostTopology
  <2>3. {i \in DOMAIN t.planes : Dedicated(t.planes[i])} = {}
    BY <2>2
  <2>4. SumGpuVram(t) = 0
    BY <2>3, SumOfNothing DEF SumGpuVram
  <2>5. QED
    BY <2>1, <2>4
<1>3. QED
    BY <1>1, <1>2 DEF Topologies

LEMMA BootstrapInvInit == BootstrapInit => BootstrapInv
    BY DEF BootstrapInit, BootstrapInv, BootstrapTypeOK

LEMMA BootstrapInvStep == BootstrapInv /\ [BootstrapNext]_bootVars => BootstrapInv'
<1> SUFFICES ASSUME BootstrapInv, [BootstrapNext]_bootVars
             PROVE  BootstrapInv'
    OBVIOUS
<1> USE DEF inputVars, BootstrapInv, BootstrapTypeOK
<1>1. CASE ParseFamily
    BY <1>1 DEF ParseFamily
<1>2. CASE AskConfigured \/ AskDefault
  <2>1. \A s \in {"configured", "default"} : Usable(answer[s]) => answer[s] \in Topologies
    BY DEF Usable, Topologies
  <2>2. topo' \in Topologies \cup {NoAnswer}
    BY <1>2, <2>1 DEF AskConfigured, AskDefault
  <2>3. topo' # NoAnswer => topo'.total \in Nat /\ topo'.available \in Nat
    BY <2>2, TopologyMemory
  <2>4. bpc' = "plan" => topo' # NoAnswer
    BY <1>2 DEF AskConfigured, AskDefault, Usable
  <2>5. QED
    BY <1>2, <2>2, <2>3, <2>4 DEF AskConfigured, AskDefault
<1>3. CASE ReadHost
  <2>1. topo' \in Topologies /\ topo' # NoAnswer
    BY <1>3, BootstrapAssumption DEF ReadHost, Topologies
  <2>2. topo'.total \in Nat /\ topo'.available \in Nat
    BY <2>1, TopologyMemory
  <2>3. QED
    BY <1>3, <2>1, <2>2 DEF ReadHost
<1>4. CASE MakePlan
  <2>1. family \in Family /\ topo \in Topologies
    BY <1>4 DEF MakePlan
  <2>2. joined = {}
    BY <1>4 DEF MakePlan
  <2>3. QED
    BY <1>4, <2>1, <2>2 DEF MakePlan
<1>5. CASE JoinNext
    BY <1>5 DEF JoinNext
<1>6. CASE Report
    BY <1>6 DEF Report
<1>7. ASSUME NEW t \in DOMAIN pull, PullEnds(t)
      PROVE  BootstrapInv'
    BY <1>7 DEF PullEnds
<1>8. CASE UNCHANGED bootVars
    BY <1>8 DEF bootVars
<1>9. QED
    BY <1>1, <1>2, <1>3, <1>4, <1>5, <1>6, <1>7, <1>8 DEF BootstrapNext, BootstrapStep

(* In every state the plan is the one of the family for a topology that the *)
(* sockets or the host answered with (run_bootstrap).                       *)
THEOREM BootstrapInvariant == BootstrapSpec => []BootstrapInv
    BY BootstrapInvInit, BootstrapInvStep, PTL DEF BootstrapSpec

(* In particular run_bootstrap never plans without a topology, whatever    *)
(* the two sockets answer and the host says.                               *)
THEOREM BootstrapTypeCorrect == BootstrapSpec => []BootstrapTypeOK
<1>1. BootstrapInv => BootstrapTypeOK
    BY DEF BootstrapInv
<1>2. QED
    BY <1>1, BootstrapInvariant, PTL

(* The plan fits the machine it was made for, on every machine. *)
THEOREM PlanAlwaysFits == BootstrapSpec => []PlanFits
<1>1. BootstrapInv => PlanFits
  <2> SUFFICES ASSUME BootstrapInv, plan # {}
               PROVE  Fits(plan, SumGpuVram(topo), topo.available)
    BY DEF PlanFits
  <2>1. family \in Family /\ topo \in Topologies /\ plan = plan_family(family, MemoryBudget(topo))
    BY DEF BootstrapInv
  <2>2. SumGpuVram(topo) \in Nat /\ topo.available \in Nat
    BY <2>1, TopologyMemory
  <2>3. QED
    BY <2>1, <2>2, PlansFitTheMachine DEF MemoryBudget
<1>2. QED
    BY <1>1, BootstrapInvariant, PTL

(* A machine with more memory gets no poorer plan. *)
THEOREM PlanAlwaysGrows == BootstrapSpec => []PlanGrows
<1>1. BootstrapInv => PlanGrows
  <2> SUFFICES ASSUME BootstrapInv, plan # {}, NEW t \in Topologies,
                      SumGpuVram(t) >= SumGpuVram(topo), t.available >= topo.available
               PROVE  Grows(plan, plan_family(family, MemoryBudget(t)))
    BY DEF PlanGrows
  <2>1. family \in Family /\ topo \in Topologies /\ plan = plan_family(family, MemoryBudget(topo))
    BY DEF BootstrapInv
  <2>2. /\ SumGpuVram(topo) \in Nat /\ topo.available \in Nat
        /\ SumGpuVram(t) \in Nat /\ t.available \in Nat
    BY <2>1, TopologyMemory
  <2>3. QED
    BY <2>1, <2>2, PlansGrowWithMemory DEF MemoryBudget
<1>2. QED
    BY <1>1, BootstrapInvariant, PTL

------------------------------------------------------------------------------
(* The choice of a file.                                                    *)

(* The least position of a set of positions.                                *)
LEMMA LeastOf ==
    ASSUME NEW S \in SUBSET Nat, S # {}
    PROVE  Min(S) \in S /\ \A i \in S : Min(S) <= i
  <1>1. PICK i \in S : \A j \in S \ {i} : <<j, i>> \notin OpToRel(<, Nat)
    BY NatLessThanWellFounded, WFMin, Zenon
  <1>2. ASSUME NEW j \in S
        PROVE  i <= j
    <2>1. j # i => ~(j < i)
      BY <1>1 DEF OpToRel
    <2>2. i \in Nat /\ j \in Nat
      OBVIOUS
    <2>3. QED
      BY <2>1, <2>2
  <1>3. QED
    BY <1>2 DEF Min

(* FirstFound answers with the least hit of the first search that has one.  *)
LEMMA FirstFoundIs ==
    ASSUME NEW searches \in Seq(SUBSET Nat)
    PROVE  \/ /\ FirstFound(searches) = None
              /\ \A s \in DOMAIN searches : searches[s] = {}
           \/ \E s \in DOMAIN searches :
                /\ \A u \in DOMAIN searches : u < s => searches[u] = {}
                /\ FirstFound(searches) \in searches[s]
                /\ \A i \in searches[s] : FirstFound(searches) <= i
  <1> DEFINE I == {s \in 1 .. Len(searches) : searches[s] # {}}
  <1>1. SelectInSeq(searches, LAMBDA hits : hits # {}) = IF I # {} THEN Min(I) ELSE 0
    BY DEF SelectInSeq
  <1>2. CASE I = {}
    BY <1>1, <1>2 DEF FirstFound
  <1>3. CASE I # {}
    <2>0. I \in SUBSET Nat
      OBVIOUS
    <2> DEFINE m == Min(I)
    <2>1. m \in I /\ \A s \in I : m <= s
      <3> HIDE DEF I
      <3>1. QED
        BY <1>3, <2>0, LeastOf
    <2> HIDE DEF m
    <2>2. FirstFound(searches) = Min(searches[m])
      BY <1>1, <1>3, <2>1 DEF FirstFound, m
    <2>3. searches[m] \in SUBSET Nat /\ searches[m] # {}
      BY <2>1
    <2>4. \A i \in searches[m] : FirstFound(searches) <= i
      BY <2>2, <2>3, LeastOf
    <2>5. FirstFound(searches) \in searches[m]
      BY <2>2, <2>3, LeastOf
    <2>6. \A u \in DOMAIN searches : u < m => searches[u] = {}
      BY <2>1
    <2>7. QED
      BY <2>1, <2>4, <2>5, <2>6
  <1>4. QED
    BY <1>2, <1>3

(* A suffix sits at the end. *)
LEMMA SuffixIs ==
    ASSUME NEW S, NEW s \in Seq(S), NEW t \in Seq(S), IsSuffix(s, t)
    PROVE  /\ Len(s) <= Len(t)
           /\ \A i \in 1 .. Len(s) : t[Len(t) - Len(s) + i] = s[i]
  <1> DEFINE rs == Reverse(s)  rt == Reverse(t)
  <1>1. /\ rs = [i \in 1 .. Len(s) |-> s[(Len(s) - i) + 1]]
        /\ rt = [i \in 1 .. Len(t) |-> t[(Len(t) - i) + 1]]
    BY DEF Reverse
  <1>2. rs \in Seq(S) /\ rt \in Seq(S) /\ Len(rs) = Len(s) /\ Len(rt) = Len(t)
    BY <1>1
  <1>3. Len(rs) <= Len(rt) /\ \A i \in 1 .. Len(rs) : rt[i] = rs[i]
    BY <1>2 DEF IsSuffix, IsPrefix
  <1> HIDE DEF rs, rt
  <1>4. ASSUME NEW i \in 1 .. Len(s)
        PROVE  t[Len(t) - Len(s) + i] = s[i]
    <2> DEFINE k == Len(s) - i + 1
    <2>1. k \in 1 .. Len(s) /\ k \in 1 .. Len(t)
      BY <1>2, <1>3
    <2>2. rt[k] = rs[k]
      BY <2>1, <1>2, <1>3
    <2>3. rt[k] = t[(Len(t) - k) + 1] /\ rs[k] = s[(Len(s) - k) + 1]
      BY <2>1, <1>1
    <2>4. (Len(t) - k) + 1 = Len(t) - Len(s) + i /\ (Len(s) - k) + 1 = i
      OBVIOUS
    <2>5. QED
      BY <2>2, <2>3, <2>4
  <1>5. QED
    BY <1>2, <1>3, <1>4

(* The searches for a quantization, one by one.                             *)
LEMMA AskedSearches ==
    ASSUME NEW entries, NEW files, NEW format, format # "safetensors", NEW quant, quant # None
    PROVE  Searches(entries, files, format, quant) =
             <<{i \in files : matches_quant_strict(entries[i].path, quant)},
               {i \in files : matches_quant_delimited(entries[i].path, quant)},
               {i \in files : matches_quant_fallback(entries[i].path, quant)}>>
  BY DEF Searches

Count == Len(Preferred)
PreferredOf(entries, files, format) == Searches(entries, files, format, None)

(* The searches for the preferences, one by one.                            *)
LEMMA PreferredSearches ==
    ASSUME NEW entries, NEW files, NEW format, format # "safetensors"
    PROVE  /\ PreferredOf(entries, files, format) \in Seq(SUBSET files)
           /\ DOMAIN PreferredOf(entries, files, format) = 1 .. 2 * Count + 1
           /\ PreferredOf(entries, files, format)[2 * Count + 1] = files
           /\ \A p \in 1 .. Count, i \in files :
                /\ i \in PreferredOf(entries, files, format)[p]
                      <=> matches_quant_strict(entries[i].path, Preferred[p])
                /\ i \in PreferredOf(entries, files, format)[Count + p]
                      <=> matches_quant_delimited(entries[i].path, Preferred[p])
  <1> DEFINE all == PreferredOf(entries, files, format)
             n == Count
             Strict(q) == {i \in files : matches_quant_strict(entries[i].path, q)}
             Delimited(q) == {i \in files : matches_quant_delimited(entries[i].path, q)}
             strict == [p \in 1 .. n |-> Strict(Preferred[p])]
             delimited == [p \in 1 .. n |-> Delimited(Preferred[p])]
             T == SUBSET files
  <1>1. n \in Nat /\ DOMAIN Preferred = 1 .. n
    BY DEF Preferred, Count
  <1>2. all = strict \o delimited \o <<files>>
    BY <1>1 DEF Searches, PreferredOf
  <1>3. strict \in Seq(T) /\ delimited \in Seq(T) /\ <<files>> \in Seq(T)
    BY <1>1
  <1>4. Len(strict) = n /\ Len(delimited) = n /\ Len(<<files>>) = 1
    BY <1>1
  <1>5. \A p \in 1 .. n : strict[p] = Strict(Preferred[p]) /\ delimited[p] = Delimited(Preferred[p])
    OBVIOUS
  <1> HIDE DEF all, n, strict, delimited, T, Strict, Delimited
  <1>6. /\ strict \o delimited \in Seq(T) /\ Len(strict \o delimited) = n + n
        /\ \A p \in 1 .. n + n :
             (strict \o delimited)[p] = IF p <= n THEN strict[p] ELSE delimited[p - n]
    BY <1>1, <1>3, <1>4, ConcatProperties
  <1> DEFINE sd == strict \o delimited
             tail == <<files>>
  <1>14. all = sd \o tail /\ sd \in Seq(T) /\ tail \in Seq(T) /\ Len(sd) = n + n /\ Len(tail) = 1
    BY <1>2, <1>3, <1>4, <1>6
  <1>15. tail[1] = files
    OBVIOUS
  <1> HIDE DEF sd, tail
  <1>7. /\ all \in Seq(T) /\ Len(all) = n + n + 1
        /\ \A p \in 1 .. n + n + 1 :
             all[p] = IF p <= n + n THEN sd[p] ELSE tail[p - (n + n)]
    <2>1. \A v, w \in Seq(T) :
            /\ v \o w \in Seq(T) /\ Len(v \o w) = Len(v) + Len(w)
            /\ \A p \in 1 .. Len(v) + Len(w) :
                 (v \o w)[p] = IF p <= Len(v) THEN v[p] ELSE w[p - Len(v)]
      BY ConcatProperties
    <2>2. Len(sd) \in Nat /\ Len(sd) + Len(tail) = n + n + 1
      BY <1>1, <1>14
    <2>3. /\ sd \o tail \in Seq(T) /\ Len(sd \o tail) = Len(sd) + Len(tail)
          /\ \A p \in 1 .. Len(sd) + Len(tail) :
               (sd \o tail)[p] = IF p <= Len(sd) THEN sd[p] ELSE tail[p - Len(sd)]
      BY <1>14, <2>1
    <2>4. QED
      BY <1>14, <2>2, <2>3
  <1>8. ASSUME NEW p \in 1 .. n
        PROVE  all[p] = Strict(Preferred[p]) /\ all[n + p] = Delimited(Preferred[p])
    <2>1. all[p] = strict[p]
      <3>1. p \in 1 .. n + n /\ p \in 1 .. n + n + 1 /\ p <= n /\ p <= n + n
        BY <1>1
      <3>2. QED
        BY <3>1, <1>6, <1>7 DEF sd
    <2>2. all[n + p] = delimited[p]
      <3>1. n + p \in 1 .. n + n /\ n + p \in 1 .. n + n + 1 /\ ~(n + p <= n) /\ n + p <= n + n
            /\ (n + p) - n = p
        BY <1>1
      <3>2. QED
        BY <3>1, <1>6, <1>7 DEF sd
    <2>3. QED
      BY <2>1, <2>2, <1>5
  <1>9. all[2 * n + 1] = files
    BY <1>1, <1>7, <1>15
  <1>10. DOMAIN all = 1 .. 2 * n + 1
    BY <1>1, <1>7
  <1>11. ASSUME NEW p \in 1 .. n, NEW i \in files
         PROVE  /\ i \in all[p] <=> matches_quant_strict(entries[i].path, Preferred[p])
                /\ i \in all[n + p] <=> matches_quant_delimited(entries[i].path, Preferred[p])
    BY <1>8 DEF Strict, Delimited
  <1>12. all \in Seq(SUBSET files)
    BY <1>7 DEF T
  <1>13. QED
    BY <1>9, <1>10, <1>11, <1>12 DEF all, n

(* There are two searches per preference and one that takes any file.       *)
LEMMA PreferredDomain ==
    ASSUME NEW entries, NEW files, NEW format, format # "safetensors"
    PROVE  DOMAIN PreferredOf(entries, files, format) = 1 .. 2 * Count + 1
  BY PreferredSearches

(* Every search looks at the files it is given.                             *)
LEMMA SearchesType ==
    ASSUME NEW entries \in Seq(Entry), NEW files \in SUBSET DOMAIN entries, NEW format, NEW quant
    PROVE  /\ Searches(entries, files, format, quant) \in Seq(SUBSET Nat)
           /\ \A s \in DOMAIN Searches(entries, files, format, quant) :
                Searches(entries, files, format, quant)[s] \subseteq files
  <1>1. files \subseteq Nat
    OBVIOUS
  <1>2. CASE format = "safetensors"
    BY <1>1, <1>2 DEF Searches
  <1>3. CASE format # "safetensors" /\ quant # None
    <2> DEFINE A == {i \in files : matches_quant_strict(entries[i].path, quant)}
               B == {i \in files : matches_quant_delimited(entries[i].path, quant)}
               C == {i \in files : matches_quant_fallback(entries[i].path, quant)}
    <2>1. Searches(entries, files, format, quant) = <<A, B, C>>
      BY <1>3 DEF Searches
    <2>2. A \subseteq files /\ B \subseteq files /\ C \subseteq files
      OBVIOUS
    <2> HIDE DEF A, B, C
    <2>3. QED
      BY <1>1, <2>1, <2>2
  <1>4. CASE format # "safetensors" /\ quant = None
    <2> DEFINE all == PreferredOf(entries, files, format)
    <2>1. Searches(entries, files, format, quant) = all
      BY <1>4 DEF PreferredOf
    <2>3. all \in Seq(SUBSET files)
      BY <1>4, PreferredSearches
    <2> HIDE DEF all
    <2>6. SUBSET files \subseteq SUBSET Nat
      BY <1>1
    <2>7. Seq(SUBSET files) \subseteq Seq(SUBSET Nat)
      <3> DEFINE T == SUBSET files
                 U == SUBSET Nat
      <3>1. T \subseteq U
        BY <2>6
      <3> HIDE DEF T, U
      <3>2. Seq(T) \subseteq Seq(U)
        BY <3>1
      <3>3. QED
        BY <3>2 DEF T, U
    <2>8. ASSUME NEW s \in DOMAIN all
          PROVE  all[s] \subseteq files
      <3> DEFINE T == SUBSET files
      <3>1. all \in Seq(T)
        BY <2>3
      <3> HIDE DEF T
      <3>2. all[s] \in T
        BY <3>1
      <3>3. QED
        BY <3>2 DEF T
    <2>4. all \in Seq(SUBSET Nat) /\ \A s \in DOMAIN all : all[s] \subseteq files
      BY <2>3, <2>7, <2>8
    <2>5. QED
      BY <2>1, <2>4
  <1>5. QED
    BY <1>2, <1>3, <1>4

(* CHOOSE has no other least member to choose.                              *)
LEMMA LeastIs ==
    ASSUME NEW S \in SUBSET Nat, NEW s \in S, \A k \in S : s <= k
    PROVE  (CHOOSE k \in S : \A j \in S : k <= j) = s
  <1> DEFINE m == CHOOSE k \in S : \A j \in S : k <= j
  <1>1. m \in S /\ \A j \in S : m <= j
    OBVIOUS
  <1> HIDE DEF m
  <1>2. m <= s /\ s <= m /\ m \in Nat /\ s \in Nat
    BY <1>1
  <1>3. m = s
    BY <1>2
  <1>4. QED
    BY <1>3 DEF m

(* A file's rank is the first search that hits it.                          *)
LEMMA RankIsFirstHit ==
    ASSUME NEW entries, NEW files, NEW format, format # "safetensors", NEW quant,
           NEW i \in files,
           NEW s \in DOMAIN Searches(entries, files, format, quant),
           i \in Searches(entries, files, format, quant)[s],
           \A u \in DOMAIN Searches(entries, files, format, quant) :
              u < s => i \notin Searches(entries, files, format, quant)[u]
    PROVE  Rank(entries[i].path, quant) = s
  <1> DEFINE path == entries[i].path
             all == Searches(entries, files, format, quant)
  <1>1. CASE quant # None
    <2>1. /\ DOMAIN all = 1 .. 3
          /\ i \in all[1] <=> matches_quant_strict(path, quant)
          /\ i \in all[2] <=> matches_quant_delimited(path, quant)
      <3> DEFINE A == {j \in files : matches_quant_strict(entries[j].path, quant)}
                 B == {j \in files : matches_quant_delimited(entries[j].path, quant)}
                 C == {j \in files : matches_quant_fallback(entries[j].path, quant)}
      <3>1. all = <<A, B, C>>
        BY <1>1, AskedSearches
      <3>2. (i \in A <=> matches_quant_strict(path, quant))
            /\ (i \in B <=> matches_quant_delimited(path, quant))
        OBVIOUS
      <3> HIDE DEF A, B, C, all
      <3>3. QED
        BY <3>1, <3>2
    <2>2. s \in 1 .. 3 /\ i \in all[s] /\ \A u \in 1 .. 3 : u < s => i \notin all[u]
      BY <2>1
    <2> HIDE DEF all, path
    <2>3. CASE s = 1
      BY <1>1, <2>1, <2>2, <2>3 DEF Rank, path
    <2>4. CASE s = 2
      BY <1>1, <2>1, <2>2, <2>4 DEF Rank, path
    <2>5. CASE s = 3
      BY <1>1, <2>1, <2>2, <2>5 DEF Rank, path
    <2>6. QED
      BY <2>2, <2>3, <2>4, <2>5
  <1>2. CASE quant = None
    <2> DEFINE n == Count
    <2>9. all = PreferredOf(entries, files, format)
      BY <1>2 DEF PreferredOf
    <2>10. /\ DOMAIN all = 1 .. 2 * n + 1
          /\ \A k \in 1 .. n, j \in files :
               /\ j \in all[k] <=> matches_quant_strict(entries[j].path, Preferred[k])
               /\ j \in all[n + k] <=> matches_quant_delimited(entries[j].path, Preferred[k])
      <3> DEFINE pre == PreferredOf(entries, files, format)
      <3>1. DOMAIN pre = 1 .. 2 * n + 1
        BY PreferredDomain
      <3>2. \A k \in 1 .. n, j \in files :
               /\ j \in pre[k] <=> matches_quant_strict(entries[j].path, Preferred[k])
               /\ j \in pre[n + k] <=> matches_quant_delimited(entries[j].path, Preferred[k])
        BY PreferredSearches
      <3>3. all = pre
        BY <2>9
      <3> HIDE DEF all, pre
      <3>4. QED
        BY <3>1, <3>2, <3>3
    <2> DEFINE P == {k \in 1 .. n : matches_quant_strict(path, Preferred[k])}
               D == {k \in 1 .. n : matches_quant_delimited(path, Preferred[k])}
               Least(S) == CHOOSE k \in S : \A j \in S : k <= j
    <2>1. n \in Nat
      BY DEF Preferred, Count
    <2>2. Rank(path, quant) = IF P # {} THEN Least(P)
                              ELSE IF D # {} THEN n + Least(D) ELSE 2 * n + 1
      BY <1>2 DEF Rank, Count
    <2>3. /\ DOMAIN all = 1 .. 2 * n + 1
          /\ \A k \in 1 .. n : (i \in all[k] <=> k \in P) /\ (i \in all[n + k] <=> k \in D)
          /\ s \in 1 .. 2 * n + 1 /\ i \in all[s]
          /\ \A u \in 1 .. 2 * n + 1 : u < s => i \notin all[u]
      <3>3. \A k \in 1 .. n : (i \in all[k] <=> k \in P) /\ (i \in all[n + k] <=> k \in D)
        BY <2>10
      <3>4. s \in DOMAIN all /\ i \in all[s] /\ \A u \in DOMAIN all : u < s => i \notin all[u]
        OBVIOUS
      <3> HIDE DEF all, P, D, n
      <3>5. QED
        BY <2>10, <3>3, <3>4
    <2>4. P \subseteq 1 .. n /\ D \subseteq 1 .. n
      OBVIOUS
    <2> HIDE DEF n, P, D, all, path
    <2>5. CASE s <= n
      <3>1. s \in P /\ \A k \in P : s <= k
        BY <2>1, <2>3, <2>4, <2>5
      <3>2. Least(P) = s
        BY <3>1, <2>1, <2>4, LeastIs
      <3>3. QED
        BY <2>2, <3>1, <3>2 DEF path
    <2>6. CASE n < s /\ s <= 2 * n
      <3>1. \A k \in 1 .. n : k < s /\ k \in 1 .. 2 * n + 1
        BY <2>1, <2>3, <2>6
      <3>2. P = {}
        BY <3>1, <2>3, <2>4
      <3> DEFINE t == s - n
      <3>3. t \in 1 .. n /\ n + t = s
        BY <2>1, <2>3, <2>6
      <3>4. t \in D
        BY <3>3, <2>3
      <3>5. ASSUME NEW k \in D
            PROVE  t <= k
        <4>1. k \in 1 .. n /\ i \in all[n + k]
          BY <2>3, <2>4
        <4>2. n + k \in 1 .. 2 * n + 1
          BY <4>1, <2>1
        <4>3. ~(n + k < s)
          BY <4>1, <4>2, <2>3
        <4>4. QED
          BY <4>1, <4>3, <3>3, <2>1
      <3> HIDE DEF t
      <3>6. Least(D) = t
        BY <3>3, <3>4, <3>5, <2>1, <2>4, LeastIs
      <3>7. QED
        BY <2>2, <3>2, <3>3, <3>4, <3>6 DEF path
    <2>7. CASE s = 2 * n + 1
      <3>1. \A k \in 1 .. n : k < s /\ k \in 1 .. 2 * n + 1 /\ n + k < s /\ n + k \in 1 .. 2 * n + 1
        BY <2>1, <2>7
      <3>2. P = {} /\ D = {}
        BY <3>1, <2>3, <2>4
      <3>3. QED
        BY <2>2, <2>7, <3>2 DEF path
    <2>8. QED
      BY <2>1, <2>3, <2>5, <2>6, <2>7
  <1>3. QED
    BY <1>1, <1>2

(* Every file that select_file may take is hit by a search.                 *)
LEMMA SomeSearchHits ==
    ASSUME NEW entries, NEW files, NEW format, format # "safetensors", NEW quant,
           NEW i \in files,
           quant = None \/ matches_quant_fallback(entries[i].path, quant)
    PROVE  LET all == Searches(entries, files, format, quant)
           IN \E s \in DOMAIN all :
                 i \in all[s] /\ \A u \in DOMAIN all : u < s => i \notin all[u]
  <1> DEFINE all == Searches(entries, files, format, quant)
             H == {s \in DOMAIN all : i \in all[s]}
  <1>1. DOMAIN all \subseteq Nat /\ H # {}
    <2>1. CASE quant # None
      <3>1. DOMAIN all = 1 .. 3 /\ i \in all[3]
        BY <2>1, AskedSearches
      <3>2. QED
        BY <3>1
    <2>2. CASE quant = None
      <3>1. Count \in Nat
        BY DEF Preferred, Count
      <3>2. all = PreferredOf(entries, files, format)
        BY <2>2 DEF PreferredOf
      <3>3. DOMAIN all = 1 .. 2 * Count + 1 /\ all[2 * Count + 1] = files
        <4> HIDE DEF all
        <4>1. QED
          BY <3>2, PreferredSearches
      <3>4. QED
        BY <3>1, <3>3
    <2>3. QED
      BY <2>1, <2>2
  <1> HIDE DEF all
  <1> DEFINE m == Min(H)
  <1>2. m \in H /\ \A u \in H : m <= u
    <2>1. H \in SUBSET Nat
      BY <1>1
    <2> HIDE DEF H
    <2>2. QED
      BY <1>1, <2>1, LeastOf
  <1> HIDE DEF m
  <1>3. \A u \in DOMAIN all : u < m => i \notin all[u]
    BY <1>1, <1>2
  <1>4. QED
    BY <1>2, <1>3 DEF all

(* A sequence with one element put before it.                              *)
LEMMA PutBefore ==
    ASSUME NEW S, NEW d \in S, NEW q \in Seq(S)
    PROVE  /\ <<d>> \o q \in Seq(S) /\ Len(<<d>> \o q) = Len(q) + 1 /\ (<<d>> \o q)[1] = d
           /\ \A k \in 1 .. Len(q) : (<<d>> \o q)[k + 1] = q[k]
  <1> DEFINE one == <<d>>
             front == one \o q
  <1>1. one \in Seq(S) /\ Len(one) = 1 /\ one[1] = d /\ Len(q) \in Nat
    OBVIOUS
  <1> HIDE DEF one
  <1>2. /\ front \in Seq(S) /\ Len(front) = Len(one) + Len(q)
        /\ \A k \in 1 .. Len(one) + Len(q) :
             front[k] = IF k <= Len(one) THEN one[k] ELSE q[k - Len(one)]
    BY <1>1, ConcatProperties
  <1> HIDE DEF front
  <1>3. QED
    BY <1>1, <1>2 DEF front, one

(* A strict match has a delimiter before the quantization.                  *)
LEMMA StrictOccurs ==
    ASSUME NEW path \in Seq(STRING), NEW q \in Seq(STRING), matches_quant_strict(path, q)
    PROVE  \E i \in Occurs(path, q) : i # 1 /\ path[i - 1] \in Delims
  <1>1. PICK d \in Delims : IsSuffix(<<d>> \o q \o <<".", "GGUF">>, path)
    BY DEF matches_quant_strict
  <1> DEFINE U == STRING \cup Delims \cup {".", "GGUF"}
             tail == <<".", "GGUF">>
             front == <<d>> \o q
             s == front \o tail
             n == Len(q)
             base == Len(path) - Len(s)
             i == base + 2
  <1>2. /\ <<d>> \in Seq(U) /\ Len(<<d>>) = 1 /\ <<d>>[1] = d
        /\ tail \in Seq(U) /\ Len(tail) = 2
        /\ q \in Seq(U) /\ n \in Nat
    <2>1. STRING \subseteq U
      OBVIOUS
    <2>2. q \in Seq(U)
      BY <2>1, SeqMonotonic
    <2>3. QED
      BY <2>2
  <1>3. /\ front \in Seq(U) /\ Len(front) = n + 1 /\ front[1] = d
        /\ \A k \in 1 .. n : front[k + 1] = q[k]
    BY <1>2, PutBefore
  <1>4. /\ s \in Seq(U) /\ Len(s) = n + 3 /\ s[1] = d
        /\ \A k \in 1 .. n : s[k + 1] = q[k]
    <2> HIDE DEF front, U, tail
    <2>1. /\ s \in Seq(U) /\ Len(s) = Len(front) + Len(tail)
          /\ \A k \in 1 .. Len(front) + Len(tail) :
               s[k] = IF k <= Len(front) THEN front[k] ELSE tail[k - Len(front)]
      BY <1>2, <1>3, ConcatProperties
    <2> HIDE DEF s, n
    <2>2. QED
      BY <1>2, <1>3, <2>1
  <1> HIDE DEF s, front, tail, U
  <1>5. Len(s) <= Len(path) /\ \A k \in 1 .. Len(s) : path[base + k] = s[k]
    <2>1. path \in Seq(U)
      BY SeqMonotonic DEF U
    <2>2. QED
      BY <1>1, <1>4, <2>1, SuffixIs DEF s, front, tail
  <1>6. n \in Nat /\ base \in Nat /\ Len(path) = base + n + 3 /\ i = base + 2
    BY <1>2, <1>4, <1>5
  <1> HIDE DEF base, i, n
  <1>7. path[i - 1] = d
    <2>1. 1 \in 1 .. Len(s) /\ base + 1 = i - 1
      BY <1>4, <1>6
    <2>2. QED
      BY <1>4, <1>5, <2>1
  <1>8. \A k \in 1 .. n : path[i + k - 1] = q[k]
    <2> TAKE k \in 1 .. n
    <2>1. k + 1 \in 1 .. Len(s) /\ base + (k + 1) = i + k - 1
      BY <1>4, <1>6
    <2>2. QED
      BY <1>4, <1>5, <2>1
  <1>9. i \in 1 .. Len(path) - n + 1 /\ i + n - 1 <= Len(path)
    BY <1>6
  <1>10. SubSeq(path, i, i + n - 1) = q
    <2> DEFINE sub == SubSeq(path, i, i + n - 1)
    <2>1. sub \in Seq(STRING) /\ Len(sub) = n /\ \A k \in 1 .. n : sub[k] = path[i + k - 1]
      BY <1>6, <1>9
    <2> HIDE DEF sub
    <2>0. Len(q) = n
      BY DEF n
    <2>2. sub = q
      BY <1>8, <2>1, <2>0, SeqEqual
    <2>3. QED
      BY <2>2 DEF sub
  <1>11. i \in Nat /\ i # 1
    BY <1>6
  <1>12. QED
    BY <1>7, <1>9, <1>10, <1>11 DEF Occurs, n

(* Two tokens stand one after the other.                                    *)
LEMMA PairOccurs ==
    ASSUME NEW S, NEW path \in Seq(S), NEW a \in S, NEW b \in S
    PROVE  /\ Occurs(path, <<b>>) = {i \in 1 .. Len(path) : path[i] = b}
           /\ Occurs(path, <<a, b>>) =
                {i \in 1 .. Len(path) - 1 : path[i] = a /\ path[i + 1] = b}
  <1>1. ASSUME NEW i \in 1 .. Len(path)
        PROVE  SubSeq(path, i, i + 1 - 1) = <<b>> <=> path[i] = b
    <2> DEFINE sub == SubSeq(path, i, i + 1 - 1)
               y == <<b>>
    <2>1. sub \in Seq(S) /\ Len(sub) = 1 /\ sub[1] = path[i]
      OBVIOUS
    <2>3. y \in Seq(S) /\ Len(y) = 1 /\ y[1] = b
      OBVIOUS
    <2> HIDE DEF sub, y
    <2>4. path[i] = b => sub = y
      BY <2>1, <2>3, SeqEqual
    <2>5. QED
      BY <2>1, <2>3, <2>4 DEF sub, y
  <1>2. ASSUME NEW i \in 1 .. Len(path) - 1
        PROVE  SubSeq(path, i, i + 2 - 1) = <<a, b>> <=> path[i] = a /\ path[i + 1] = b
    <2> DEFINE sub == SubSeq(path, i, i + 2 - 1)
               y == <<a, b>>
    <2>1. sub \in Seq(S) /\ Len(sub) = 2 /\ sub[1] = path[i] /\ sub[2] = path[i + 1]
      OBVIOUS
    <2>3. y \in Seq(S) /\ Len(y) = 2 /\ y[1] = a /\ y[2] = b
      OBVIOUS
    <2> HIDE DEF sub, y
    <2>4. path[i] = a /\ path[i + 1] = b => sub = y
      BY <2>1, <2>3, SeqEqual
    <2>5. QED
      BY <2>1, <2>3, <2>4 DEF sub, y
  <1>3. Len(<<b>>) = 1 /\ Len(<<a, b>>) = 2 /\ Len(path) \in Nat
    OBVIOUS
  <1>4. Len(path) - 1 + 1 = Len(path) /\ Len(path) - 2 + 1 = Len(path) - 1
    BY <1>3
  <1>5. QED
    BY <1>1, <1>2, <1>3, <1>4 DEF Occurs

(* F16 is not found inside of BF16, unless there is another F16.            *)
LEMMA F16StandsAlone ==
    ASSUME NEW path \in Seq(STRING), Holds(path, <<"F16">>), ~OnlyBF16(path, <<"F16">>)
    PROVE  \E i \in Occurs(path, <<"F16">>) : i = 1 \/ path[i - 1] # "B"
  <1> DEFINE T == STRING \cup {"F16", "B", "-"}
  <1>0. path \in Seq(T) /\ "F16" \in T /\ "B" \in T /\ "-" \in T
    BY SeqMonotonic
  <1> HIDE DEF T
  <1>6. /\ Occurs(path, <<"F16">>) = {i \in 1 .. Len(path) : path[i] = "F16"}
        /\ Occurs(path, <<"-", "F16">>) =
             {i \in 1 .. Len(path) - 1 : path[i] = "-" /\ path[i + 1] = "F16"}
        /\ Occurs(path, <<"B", "F16">>) =
             {i \in 1 .. Len(path) - 1 : path[i] = "B" /\ path[i + 1] = "F16"}
    BY <1>0, PairOccurs
  <1>1. PICK k : k \in Occurs(path, <<"F16">>)
    BY DEF Holds
  <1>2. k \in 1 .. Len(path) /\ path[k] = "F16" /\ Len(path) \in Nat
    BY <1>1, <1>6
  <1>3. CASE Holds(path, <<"-", "F16">>)
    <2>1. PICK j : j \in Occurs(path, <<"-", "F16">>)
      BY <1>3 DEF Holds
    <2>2. j \in 1 .. Len(path) - 1 /\ path[j] = "-" /\ path[j + 1] = "F16"
      BY <2>1, <1>6
    <2>3. j + 1 \in 1 .. Len(path) /\ (j + 1) - 1 = j
      BY <1>2, <2>2
    <2>4. j + 1 \in Occurs(path, <<"F16">>)
      BY <2>2, <2>3, <1>6
    <2>5. QED
      BY <2>2, <2>3, <2>4
  <1>4. CASE ~Holds(path, <<"-", "F16">>)
    <2>1. Occurs(path, <<"B", "F16">>) = {}
      BY <1>4 DEF OnlyBF16, Holds
    <2>2. k = 1 \/ path[k - 1] # "B"
      <3>1. SUFFICES ASSUME k # 1, path[k - 1] = "B" PROVE FALSE
        OBVIOUS
      <3>2. k - 1 \in 1 .. Len(path) - 1 /\ (k - 1) + 1 = k
        BY <1>2, <3>1
      <3>3. k - 1 \in Occurs(path, <<"B", "F16">>)
        BY <1>2, <3>1, <3>2, <1>6
      <3>4. QED
        BY <2>1, <3>3
    <2>3. QED
      BY <1>1, <2>2
  <1>5. QED
    BY <1>3, <1>4

(* Whatever test a file passes, it holds the quantization, and not as the   *)
(* tail of BF16 only.                                                       *)
LEMMA PassedMeansHeld ==
    ASSUME NEW path \in Seq(STRING), NEW q \in Seq(STRING),
           \/ matches_quant_strict(path, q)
           \/ matches_quant_delimited(path, q)
           \/ matches_quant_fallback(path, q)
    PROVE  /\ Holds(path, q)
           /\ q = <<"F16">> =>
                \E i \in Occurs(path, <<"F16">>) : i = 1 \/ path[i - 1] # "B"
  <1>0. "B" \notin Delims
    BY DEF Delims
  <1>1. CASE matches_quant_strict(path, q)
    BY <1>0, <1>1, StrictOccurs DEF Holds
  <1>2. CASE matches_quant_delimited(path, q)
    BY <1>0, <1>2 DEF Holds, matches_quant_delimited
  <1>3. CASE matches_quant_fallback(path, q)
    BY <1>3, F16StandsAlone DEF matches_quant_fallback
  <1>4. QED
    BY <1>1, <1>2, <1>3

-----------------------------------------------------------------------------
(* The invariant.                                                           *)

LEMMA ResolutionInvInit == Init => ResolutionInv
  BY DEF Init, ResolutionInv

LEMMA ResolutionInvStep == ResolutionInv /\ [Next]_vars => ResolutionInv'
  <1> SUFFICES ASSUME ResolutionInv, [Next]_vars PROVE ResolutionInv'
    OBVIOUS
  <1>1. CASE UseAlias
    BY <1>1 DEF UseAlias, Resolved, ResolutionInv
  <1>2. CASE AskHub
    BY <1>2 DEF AskHub, ResolutionInv
  <1>3. CASE UnknownSpec
    BY <1>3 DEF UnknownSpec, Failed, ResolutionInv
  <1>4. CASE HubFails
    BY <1>4 DEF HubFails, Failed, ResolutionInv
  <1>5. CASE HubAnswers
    BY <1>5 DEF HubAnswers, ResolutionInv
  <1>6. CASE RejectListing
    BY <1>6 DEF RejectListing, Failed, ResolutionInv
  <1>7. CASE Choose
    <2>1. phase' = "resolved" /\ chosen'.path = tree[Selected].path /\ Choosable
      BY <1>7 DEF Choose, Resolved
    <2>2. Choosable' /\ Selected' = Selected /\ tree' = tree /\ req' = req
      BY <1>7, <2>1 DEF Choose, Choosable, Selected, Matched, Safetensors
    <2>3. QED
      BY <2>1, <2>2 DEF ResolutionInv
  <1>8. CASE UNCHANGED vars
    <2>1. (Choosable' <=> Choosable) /\ Selected' = Selected
      BY <1>8 DEF vars, Choosable, Selected, Matched, Safetensors
    <2>2. QED
      BY <1>8, <2>1 DEF vars, ResolutionInv
  <1>9. QED
    BY <1>1, <1>2, <1>3, <1>4, <1>5, <1>6, <1>7, <1>8 DEF Next

(* In every state a resolved file was chosen by an alias without a          *)
(* quantization, or is what select_file picks out of the listing.           *)
THEOREM ResolutionInvariant == Spec => []ResolutionInv
  BY ResolutionInvInit, ResolutionInvStep, PTL DEF Spec

(* What a choice out of a listing was hit by.                               *)
LEMMA ChoiceOfListing ==
    ASSUME ResolutionInv, Choosable
    PROVE  LET all == Searches(tree, Matched, req.format, req.quant)
           IN /\ tree \in Seq(Entry) /\ Matched \in SUBSET DOMAIN tree /\ Selected \in Matched
              /\ \E s \in DOMAIN all :
                   /\ \A u \in DOMAIN all : u < s => all[u] = {}
                   /\ Selected \in all[s]
                   /\ \A i \in all[s] : Selected <= i
  <1> DEFINE all == Searches(tree, Matched, req.format, req.quant)
  <1>1. tree \in Seq(Entry)
    <2>1. <<>> \in Seq(Entry)
      BY EmptySeq
    <2>2. \A t \in Trees : t \in Seq(Entry)
      BY ResolutionAssumption
    <2>3. QED
      BY <2>1, <2>2 DEF ResolutionInv
  <1>2. Matched \in SUBSET DOMAIN tree
    BY DEF Matched, Files
  <1>3. all \in Seq(SUBSET Nat) /\ \A s \in DOMAIN all : all[s] \subseteq Matched
    BY <1>1, <1>2, SearchesType
  <1>4. Selected # None /\ Selected = FirstFound(all)
    BY DEF Choosable, Selected, select_file
  <1> HIDE DEF all
  <1>5. PICK s \in DOMAIN all : /\ \A u \in DOMAIN all : u < s => all[u] = {}
                                /\ Selected \in all[s]
                                /\ \A i \in all[s] : Selected <= i
    BY <1>3, <1>4, FirstFoundIs
  <1>6. Selected \in Matched
    BY <1>3, <1>5
  <1>7. QED
    BY <1>1, <1>2, <1>5, <1>6 DEF all

(* The file of a request for a quantization was hit by one of its searches. *)
LEMMA QuantIsHonoured == ResolutionInv => QuantHonoured
  <1> SUFFICES ASSUME ResolutionInv, phase = "resolved", ~Safetensors, req.quant # None
               PROVE  /\ Holds(chosen.path, req.quant)
                      /\ req.quant = <<"F16">> =>
                           \E i \in Occurs(chosen.path, <<"F16">>) :
                              i = 1 \/ chosen.path[i - 1] # "B"
    BY DEF QuantHonoured
  <1> DEFINE all == Searches(tree, Matched, req.format, req.quant)
             path == tree[Selected].path
  <1>1. Choosable /\ chosen.path = path
    BY DEF ResolutionInv
  <1>2. /\ tree \in Seq(Entry) /\ Selected \in DOMAIN tree
        /\ \E s \in DOMAIN all : Selected \in all[s]
    BY <1>1, ChoiceOfListing
  <1>3. path \in Seq(STRING) /\ req.quant \in Seq(STRING)
    <2>1. tree[Selected] \in Entry
      BY <1>2
    <2>2. QED
      BY <2>1, ResolutionAssumption DEF Entry, ResolutionInv
  <1>4. \/ matches_quant_strict(path, req.quant)
        \/ matches_quant_delimited(path, req.quant)
        \/ matches_quant_fallback(path, req.quant)
    <2> DEFINE A == {i \in Matched : matches_quant_strict(tree[i].path, req.quant)}
               B == {i \in Matched : matches_quant_delimited(tree[i].path, req.quant)}
               C == {i \in Matched : matches_quant_fallback(tree[i].path, req.quant)}
    <2>1. all = <<A, B, C>>
      BY DEF Searches, Safetensors
    <2> HIDE DEF A, B, C, all
    <2>2. Selected \in A \/ Selected \in B \/ Selected \in C
      BY <1>2, <2>1
    <2>3. QED
      BY <2>2 DEF A, B, C
  <1>5. QED
    BY <1>1, <1>3, <1>4, PassedMeansHeld

(* The searches before the one that hit the file hit nothing at all.        *)
LEMMA NoBetterFile == ResolutionInv => BestFile
  <1> SUFFICES ASSUME ResolutionInv, Listed, ~Safetensors
               PROVE  \E i \in Matched :
                        /\ tree[i].path = chosen.path
                        /\ \A j \in Matched :
                             (req.quant = None \/ matches_quant_fallback(tree[j].path, req.quant)) =>
                               /\ Rank(tree[i].path, req.quant) <= Rank(tree[j].path, req.quant)
                               /\ j < i => Rank(tree[j].path, req.quant) # Rank(tree[i].path, req.quant)
    BY DEF BestFile
  <1> DEFINE all == Searches(tree, Matched, req.format, req.quant)
             R(i) == Rank(tree[i].path, req.quant)
  <1>1. Choosable /\ chosen.path = tree[Selected].path
    BY DEF ResolutionInv, Listed
  <1>2. req.format # "safetensors"
    BY DEF Safetensors
  <1>3. tree \in Seq(Entry) /\ Matched \in SUBSET DOMAIN tree /\ Selected \in Matched
    BY <1>1, ChoiceOfListing
  <1>4. PICK s \in DOMAIN all : /\ \A u \in DOMAIN all : u < s => all[u] = {}
                                /\ Selected \in all[s]
                                /\ \A i \in all[s] : Selected <= i
    BY <1>1, ChoiceOfListing
  <1>5. R(Selected) = s
    BY <1>2, <1>3, <1>4, RankIsFirstHit
  <1>6. DOMAIN all \subseteq Nat /\ Matched \subseteq Nat
    <2>1. all \in Seq(SUBSET Nat)
      BY <1>3, SearchesType
    <2> HIDE DEF all
    <2>2. QED
      BY <1>3, <2>1
  <1>7. ASSUME NEW j \in Matched,
               req.quant = None \/ matches_quant_fallback(tree[j].path, req.quant)
        PROVE  R(Selected) <= R(j) /\ (j < Selected => R(j) # R(Selected))
    <2>1. PICK t \in DOMAIN all : j \in all[t] /\ \A u \in DOMAIN all : u < t => j \notin all[u]
      BY <1>2, <1>7, SomeSearchHits
    <2>2. R(j) = t
      BY <1>2, <2>1, RankIsFirstHit
    <2> HIDE DEF all, R
    <2>3. s \in Nat /\ t \in Nat /\ j \in Nat /\ Selected \in Nat
      BY <1>3, <1>6
    <2>4. ~(t < s)
      BY <1>4, <2>1
    <2>5. t = s => Selected <= j
      BY <1>4, <2>1
    <2>6. QED
      BY <1>5, <2>2, <2>3, <2>4, <2>5
  <1>8. QED
    BY <1>1, <1>3, <1>7

(* What is left of a listing without shards is one file or the named one.   *)
LEMMA NoPartOfWeights == ResolutionInv => WholeFile
  <1> SUFFICES ASSUME ResolutionInv, Listed, Safetensors
               PROVE  /\ chosen.path = ModelSafetensors \/ Cardinality(Matched) = 1
                      /\ \A i \in Matched : ~Holds(tree[i].path, <<"-OF-">>)
    BY DEF WholeFile
  <1> DEFINE all == Searches(tree, Matched, req.format, req.quant)
             named == {i \in Matched : tree[i].path = ModelSafetensors}
  <1>1. Choosable /\ chosen.path = tree[Selected].path
    BY DEF ResolutionInv, Listed
  <1>2. ~HasShards(tree, Matched) /\ Matched # {}
    BY <1>1 DEF Choosable
  <1>3. \A i \in Matched : ~Holds(tree[i].path, <<"-OF-">>)
    BY <1>2 DEF HasShards
  <1>4. CASE named = {}
    <2>1. ~(Cardinality(Matched) > 1)
      BY <1>2, <1>4 DEF HasShards
    <2>2. IsFiniteSet(Matched)
      <3>1. tree \in Seq(Entry) /\ Matched \in SUBSET DOMAIN tree
        BY <1>1, ChoiceOfListing
      <3>2. IsFiniteSet(1 .. Len(tree))
        BY <3>1, FS_Interval
      <3>3. QED
        BY <3>1, <3>2, FS_Subset
    <2>3. Cardinality(Matched) \in Nat /\ Cardinality(Matched) # 0
      BY <1>2, <2>2, FS_CardinalityType, FS_EmptySet
    <2>4. Cardinality(Matched) = 1
      BY <2>1, <2>3
    <2>5. QED
      BY <1>3, <2>4
  <1>5. CASE named # {}
    <2>1. all = <<named, Matched>>
      BY DEF Searches, Safetensors
    <2>2. PICK s \in DOMAIN all : /\ \A u \in DOMAIN all : u < s => all[u] = {}
                                  /\ Selected \in all[s]
      BY <1>1, ChoiceOfListing
    <2> HIDE DEF named
    <2>3. s = 1
      BY <1>5, <2>1, <2>2
    <2>4. Selected \in named
      BY <2>1, <2>2, <2>3
    <2>5. tree[Selected].path = ModelSafetensors
      BY <2>4 DEF named
    <2>6. QED
      BY <1>1, <1>3, <2>5
  <1>6. QED
    BY <1>4, <1>5

(* What modelctl pull downloads is what was asked for, for any request and  *)
(* any listing: the quantization is in the file's name and not as the tail  *)
(* of BF16, no better file was passed over, and weights come whole          *)
(* (resolve/mod.rs, hf_tree.rs, select.rs).                                 *)
THEOREM SelectionIsRight == Spec => []SelectionRight
  <1>1. ResolutionInv => SelectionRight
    BY QuantIsHonoured, NoBetterFile, NoPartOfWeights DEF SelectionRight
  <1>2. QED
    BY <1>1, ResolutionInvariant, PTL
==============================================================================
