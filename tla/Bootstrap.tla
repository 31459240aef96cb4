------------------------------ MODULE Bootstrap ------------------------------
(***************************************************************************)
(* modelctl bootstrap: which memory there is (topology.rs), what part of   *)
(* it may be used (budget.rs), which models of a family go with that       *)
(* (profiles.rs, families.rs), and their pulls, all at once                *)
(* (bootstrap.rs).  Memory is counted in tenths of a MiB, in which every   *)
(* size and threshold of the catalogue is a whole number.                  *)
(***************************************************************************)
EXTENDS Integers, FiniteSets, Functions

CONSTANTS
    Answer,     \* topologies that inferenced may report
    Host,       \* what /proc/meminfo may say: MemTotal and MemAvailable
    NoAnswer    \* no socket, an error, a timeout or a malformed reply

Family == {"gemma", "qwen", "granite", "phi", "bitnet"}

Mib(n)      == 10 * n
Gib(tenths) == 1024 * tenths

VARIABLES
    family,     \* the argument
    dry,        \* --dry-run
    isDefault,  \* whether the configured inference socket is the default one
    answer,     \* what the two inference sockets answer
    host,       \* what /proc/meminfo says
    bpc,        \* where run_bootstrap stands
    topo,       \* the topology the plan is made for
    plan,       \* the targets of the plan
    pull,       \* per target: "running", "ok" or "failed"
    joined,     \* targets whose result has been collected
    outcome     \* "none", "ok" or "failed"

inputVars == <<family, dry, isDefault, answer, host>>
bootVars  == <<inputVars, bpc, topo, plan, pull, joined, outcome>>

-----------------------------------------------------------------------------
(* HardwareTopology::sum_gpu_vram over the planes that are not the host's. *)
(* A plane called "cpu-host" is left out as well (topology.rs 87): here it *)
(* is one of the kind CpuMatrixExtension.                                  *)
Dedicated(p) == p.kind \notin {"CpuMatrixExtension", "IntegratedUma"}

SumGpuVram(t) ==
    SumFunctionOnSet([i \in DOMAIN t.planes |-> t.planes[i].memory],
                     {i \in DOMAIN t.planes : Dedicated(t.planes[i])})

(* MemoryBudget::from_topology, for so much VRAM and so much free memory *)
BudgetFor(vram, available) == [vram |-> (85 * vram) \div 100, ram |-> available \div 2]

MemoryBudget(t) == BudgetFor(SumGpuVram(t), t.available)

(* read_system_ram_fallback *)
HostTopology(h) ==
    [planes    |-> <<>>,
     total     |-> h.total,
     available |-> IF h.available > 0 THEN h.available ELSE h.total \div 2]

Topologies == Answer \cup {HostTopology(h) : h \in Host}

ASSUME BootstrapAssumption ==
    /\ \A h \in Host : h.total \in Nat /\ h.available \in Nat
    /\ \A t \in Answer :
          /\ t.total \in Nat /\ t.available \in Nat
          /\ IsFiniteSet(DOMAIN t.planes)
          /\ \A i \in DOMAIN t.planes : t.planes[i].memory \in Nat
    /\ NoAnswer \notin Topologies

-----------------------------------------------------------------------------
Target(role, tag, size) == [role |-> role, tag |-> tag, size |-> size]

Optional(cond, target) == IF cond THEN {target} ELSE {}

(* the test of the draft turned around *)
Draft_Inverted(tag, b, threshold, large, small) ==
    {IF b.ram <= threshold THEN Target("draft", tag, large) ELSE Target("draft", tag, small)}

(* The draft is the Q8_0 file when the budget reaches a threshold, and the *)
(* Q4_K_M file, which may not fit either, below it.                        *)
Draft(tag, b, threshold, large, small) ==
    {IF b.ram >= threshold THEN Target("draft", tag, large) ELSE Target("draft", tag, small)}

plan_qwen(b) ==
    Draft("qwen2.5:0.5b", b, Mib(650), Mib(650), Mib(398))
    \cup Optional(b.vram >= Gib(50), Target("primary", "qwen2.5:7b", Gib(52)))
    \cup (IF b.vram >= Gib(205) THEN {Target("reasoner", "qwen2.5:32b", Gib(205))}
          ELSE Optional(b.vram >= Gib(95), Target("reasoner", "qwen2.5:14b", Gib(95))))

plan_granite(b) ==
    Draft("granite-3.0:1b", b, Mib(850), Mib(850), Mib(550))
    \cup Optional(b.vram >= Gib(50), Target("primary", "granite-3.0:8b", Gib(55)))

plan_gemma(b) ==
    Draft("gemma:2b", b, Gib(20), Gib(22), Gib(16))
    \cup Optional(b.vram >= Gib(60), Target("primary", "gemma:9b", Gib(62)))
    \cup Optional(b.vram >= Gib(60), Target("vision", "gemma:mmproj-f16", Mib(600)))
    \cup Optional(b.vram >= Gib(170), Target("reasoner", "gemma:27b", Gib(175)))
    \cup {Target("embedder", "embeddinggemma:270m", Mib(168))}

plan_phi(b) ==
    Draft("phi-3.5-mini:3.8b", b, Gib(25), Gib(25), Gib(18))
    \cup Optional(b.vram >= Gib(90), Target("primary", "phi-4:14b", Gib(91)))

plan_bitnet(b) == {Target("draft", "bitnet:2b", Mib(550))}

plan_family(f, b) ==
    CASE f = "qwen"    -> plan_qwen(b)
      [] f = "granite" -> plan_granite(b)
      [] f = "phi"     -> plan_phi(b)
      [] f = "gemma"   -> plan_gemma(b)
      [] f = "bitnet"  -> plan_bitnet(b)

-----------------------------------------------------------------------------
BootstrapTypeOK ==
    /\ family \in Family \cup {"unknown"}
    /\ bpc \in {"parse", "configured", "default", "host", "plan", "pull", "done"}
    /\ topo \in Topologies \cup {NoAnswer}
    /\ bpc \in {"plan", "pull"} => topo # NoAnswer
    /\ topo # NoAnswer => topo.total \in Nat /\ topo.available \in Nat
    /\ DOMAIN pull \subseteq plan
    /\ \A t \in DOMAIN pull : pull[t] \in {"running", "ok", "failed"}
    /\ joined \subseteq DOMAIN pull
    /\ outcome \in {"none", "ok", "failed"}

(* A reply that does not know the memory of the machine is not used. *)
Usable(a) == a # NoAnswer /\ a.total > 0

(* Only one answer counts when the sockets are one, or when the first of   *)
(* them will do.                                                           *)
BootstrapInit ==
    /\ family \in Family \cup {"unknown"}
    /\ dry \in BOOLEAN
    /\ isDefault \in BOOLEAN
    /\ answer \in [{"configured", "default"} -> Answer \cup {NoAnswer}]
    /\ isDefault \/ Usable(answer["configured"]) => answer["default"] = answer["configured"]
    /\ host \in Host
    /\ bpc = "parse"
    /\ topo = NoAnswer
    /\ plan = {}
    /\ pull = [t \in {} |-> "running"]
    /\ joined = {}
    /\ outcome = "none"

(* ModelFamily::from_str *)
ParseFamily ==
    /\ bpc = "parse"
    /\ IF family \in Family
       THEN bpc' = "configured" /\ outcome' = outcome
       ELSE bpc' = "done" /\ outcome' = "failed"
    /\ UNCHANGED <<inputVars, topo, plan, pull, joined>>

(* query_or_fallback_topology: the configured socket, the default one if   *)
(* that is another, and the host.                                          *)
AskConfigured ==
    /\ bpc = "configured"
    /\ IF Usable(answer["configured"])
       THEN bpc' = "plan" /\ topo' = answer["configured"]
       ELSE bpc' = (IF isDefault THEN "host" ELSE "default") /\ topo' = topo
    /\ UNCHANGED <<inputVars, plan, pull, joined, outcome>>

(* no look at whether there was an answer *)
AskDefault_AnyReply ==
    /\ bpc = "default"
    /\ bpc' = "plan"
    /\ topo' = answer["default"]
    /\ UNCHANGED <<inputVars, plan, pull, joined, outcome>>

AskDefault ==
    /\ bpc = "default"
    /\ IF Usable(answer["default"])
       THEN bpc' = "plan" /\ topo' = answer["default"]
       ELSE bpc' = "host" /\ topo' = topo
    /\ UNCHANGED <<inputVars, plan, pull, joined, outcome>>

ReadHost ==
    /\ bpc = "host"
    /\ bpc' = "plan"
    /\ topo' = HostTopology(host)
    /\ UNCHANGED <<inputVars, plan, pull, joined, outcome>>

(* the total of the VRAM taken for the budget *)
MakePlan_Total ==
    /\ bpc = "plan"
    /\ plan' = plan_family(family, [vram |-> SumGpuVram(topo), ram |-> topo.available])
    /\ bpc' = IF dry THEN "done" ELSE "pull"
    /\ outcome' = IF dry THEN "ok" ELSE outcome
    /\ pull' = IF dry THEN pull ELSE [t \in plan' |-> "running"]
    /\ UNCHANGED <<inputVars, topo, joined>>

(* The plan is printed; then each target gets a task of its own. *)
MakePlan ==
    /\ bpc = "plan"
    /\ plan' = plan_family(family, MemoryBudget(topo))
    /\ bpc' = IF dry THEN "done" ELSE "pull"
    /\ outcome' = IF dry THEN "ok" ELSE outcome
    /\ pull' = IF dry THEN pull ELSE [t \in plan' |-> "running"]
    /\ UNCHANGED <<inputVars, topo, joined>>

(* run_pull returns, or its task panics. *)
PullEnds(t) ==
    /\ t \in DOMAIN pull
    /\ pull[t] = "running"
    /\ \E r \in {"ok", "failed"} : pull' = [pull EXCEPT ![t] = r]
    /\ UNCHANGED <<inputVars, bpc, topo, plan, joined, outcome>>

(* only pulls that went well are counted *)
JoinNext_OnlyOk ==
    /\ bpc = "pull"
    /\ \E t \in DOMAIN pull \ joined : pull[t] = "ok" /\ joined' = joined \cup {t}
    /\ UNCHANGED <<inputVars, bpc, topo, plan, pull, outcome>>

JoinNext ==
    /\ bpc = "pull"
    /\ \E t \in DOMAIN pull \ joined : pull[t] # "running" /\ joined' = joined \cup {t}
    /\ UNCHANGED <<inputVars, bpc, topo, plan, pull, outcome>>

Errors == {t \in joined : pull[t] = "failed"}

(* the first error returned at once *)
Report_FirstError ==
    /\ bpc = "pull"
    /\ joined = DOMAIN pull \/ Errors # {}
    /\ bpc' = "done"
    /\ outcome' = IF Errors = {} THEN "ok" ELSE "failed"
    /\ UNCHANGED <<inputVars, topo, plan, pull, joined>>

Report ==
    /\ bpc = "pull"
    /\ joined = DOMAIN pull
    /\ bpc' = "done"
    /\ outcome' = IF Errors = {} THEN "ok" ELSE "failed"
    /\ UNCHANGED <<inputVars, topo, plan, pull, joined>>

BootstrapStep ==
    \/ ParseFamily \/ AskConfigured \/ AskDefault \/ ReadHost \/ MakePlan \/ JoinNext \/ Report

BootstrapNext == BootstrapStep \/ \E t \in DOMAIN pull : PullEnds(t)

BootstrapSpec == BootstrapInit /\ [][BootstrapNext]_bootVars

(* The command runs on; a pull need not end, since its downloads have no   *)
(* timeout.                                                                *)
FairBootstrapSpec == BootstrapSpec /\ WF_bootVars(BootstrapStep)
-----------------------------------------------------------------------------
(* The thresholds lie below the sizes of some targets (5.0 and 5.2 GiB for *)
(* the primary of qwen).  The 85% and 50% of MemoryBudget still leave room *)
(* for them: the primary with its vision tower, and the reasoner by        *)
(* itself, fit into the dedicated VRAM, and the larger draft into the      *)
(* memory that is free.                                                    *)
SmallDrafts == {Mib(398), Mib(550), Gib(16), Gib(18)}

Fits(p, vram, available) ==
    /\ \A t \in p : t.role = "primary" =>
          /\ t.size <= vram
          /\ \A u \in p : u.role = "vision" => t.size + u.size <= vram
    /\ \A t \in p : t.role = "reasoner" => t.size <= vram
    /\ \A t \in p : t.role = "draft" => t.size \in SmallDrafts \/ t.size <= available

PlanFits == plan # {} => Fits(plan, SumGpuVram(topo), topo.available)

(* More memory never makes a plan poorer: every role is kept, with a       *)
(* target that is at least as large.                                       *)
Grows(p, q) == \A t \in p : \E u \in q : u.role = t.role /\ u.size >= t.size

PlanGrows ==
    plan # {} =>
        \A t \in Topologies :
            SumGpuVram(t) >= SumGpuVram(topo) /\ t.available >= topo.available
                => Grows(plan, plan_family(family, MemoryBudget(t)))

(* One failed pull does not cut the others short, and is not forgotten:    *)
(* the command reports when every pull has ended, success if and only if   *)
(* all of them went well.                                                  *)
ReportsAllPulls ==
    bpc = "done" /\ DOMAIN pull # {} =>
        /\ DOMAIN pull = plan
        /\ \A t \in plan : pull[t] # "running"
        /\ outcome = "ok" <=> \A t \in plan : pull[t] = "ok"

(* Once all pulls have ended the command ends. *)
EndsWithItsPulls ==
    (bpc = "pull" /\ \A t \in DOMAIN pull : pull[t] # "running") ~> bpc = "done"
-----------------------------------------------------------------------------
(* Why ReportsAllPulls holds: there is a pull for every target of the plan *)
(* and for nothing else, and what has been collected has ended.            *)
PullInv ==
    /\ bpc = "pull" => DOMAIN pull = plan
    /\ bpc \notin {"pull", "done"} => DOMAIN pull = {} /\ joined = {}
    /\ joined \subseteq DOMAIN pull
    /\ \A t \in DOMAIN pull : pull[t] \in {"running", "ok", "failed"}
    /\ \A t \in joined : pull[t] # "running"
    /\ ReportsAllPulls

(* Why PlanFits and PlanGrows hold: once there is a plan, the family and   *)
(* the topology it was made for stay.                                      *)
BootstrapInv ==
    /\ BootstrapTypeOK
    /\ answer \in [{"configured", "default"} -> Answer \cup {NoAnswer}]
    /\ host \in Host
    /\ bpc \notin {"parse", "done"} => family \in Family
    /\ bpc \notin {"pull", "done"} => plan = {} /\ DOMAIN pull = {}
    /\ plan # {} => /\ family \in Family
                    /\ topo \in Topologies
                    /\ plan = plan_family(family, MemoryBudget(topo))
=============================================================================
