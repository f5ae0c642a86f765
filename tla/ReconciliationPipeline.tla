------------------------ MODULE ReconciliationPipeline ------------------------
(***************************************************************************)
(* One reconciliation case from request to registry: the stages of         *)
(* ReconciliationRunner, the specialist agents they call, the skeptical    *)
(* verifier with its one recovery, and the two workflow modes.  In fast    *)
(* mode one call runs every stage and the workflow nodes only inspect the  *)
(* finished case; in strict mode each node runs its stage and then         *)
(* inspects the case.                                                      *)
(*                                                                         *)
(* What a stage computes is abstracted to what the verifier and the        *)
(* registry tell apart: a result is the set of entities a definition       *)
(* selects and its metric total; evidence keeps both, with its id and      *)
(* whether its SQL text is the executed one.  An empty function or None    *)
(* stands for an output that is missing.                                   *)
(*                                                                         *)
(* Damage is what tests/test_verifier_guards.py and                        *)
(* tests/test_deliberation.py do to a case between the decision and the    *)
(* verifier: one output is lost as a whole, or one value is altered, be it *)
(* one the verifier looks at or one it does not.                           *)
(***************************************************************************)
EXTENDS Integers, Sequences, FiniteSets, FiniteSetsExt

CONSTANTS
    Concepts,    \* concept ids; the seven of CoordinatorAgent, and perhaps others
    Definitions, \* [Concepts -> SUBSET Nat]: the candidate definitions, numbered
    Anchor,      \* the definition the two hand-written proposals start from
    Lenient,     \* HR's definition of certification readiness
    Results,     \* what a definition may return: [ids, total]
    RuleSets,    \* configured authority rules a concept may have
    Owners,
    Council,     \* the owner certification readiness must have
    HighCount,   \* ImpactRanker's thresholds for high severity
    HighValue,
    None

Conflicting == {"active_customer", "churned_customer", "qualified_lead",
                "certification_ready", "exam_eligible"}
Agreeing    == {"net_revenue", "required_training_complete"}
Refusing    == {"churned_customer", "exam_eligible"}
Supported   == Conflicting \cup Agreeing

ASSUME PipelineAssumption ==
    /\ Supported \subseteq Concepts
    /\ \A c \in Concepts :
         /\ Definitions[c] \subseteq Nat /\ IsFiniteSet(Definitions[c])
         /\ Cardinality(Definitions[c]) \in {2, 3}
    /\ {Anchor, Lenient} \subseteq Definitions["certification_ready"]
    /\ Anchor \in Definitions["active_customer"]
    /\ Council \in Owners /\ None \notin Owners \cup Concepts
    /\ None \notin [owner: Owners, refs: SUBSET Nat, source: Nat, human: BOOLEAN]
    /\ None \notin [status: {"clear", "ambiguous", "shared", "missing"}, owner: Owners \cup {None}]
    /\ None \notin [severity: {"low", "medium", "high"}, delta: Int, value: Int, falseReady: Int]
    /\ \A r \in Results :
         r = [ids |-> r.ids, total |-> r.total] /\ IsFiniteSet(r.ids) /\ r.total \in Int
    /\ \A rs \in RuleSets :
         /\ Cardinality({r \in rs : r.canonical}) <= 1
         /\ \A r \in rs : r.owner \in Owners \cup {None}

VARIABLES
    mode,      \* workflow mode
    concept,   \* what the requested term resolves to
    data,      \* definition -> what the provider returns for it
    rules,     \* the configured authority rules of the concept
    canonical, \* the registry's canonical source definition, or None
    local,     \* whether the provider is a LocalProvider
    pc,        \* the next stage
    case,      \* the blackboard
    damage,    \* what has happened to the case, "none" at first
    saved,     \* the cases the registry holds: none, or this one
    ended      \* how the request ended

world == <<mode, concept, data, rules, canonical, local>>
vars  == <<world, pc, case, damage, saved, ended>>

Empty == [d \in {} |-> d]

\* Every result's evidence and every hypothesis cites ids: uuid5 of the run and
\* the binding, here the definition's own number; 0 is any other id.
Pairs(ds) == {p \in SUBSET ds : Cardinality(p) = 2}
-----------------------------------------------------------------------------
\* The agents

EntitySets(rs) == {rs[d].ids : d \in DOMAIN rs}

\* DataExecutionAgent.run: the verdict is a matter of result sets alone.
VerdictOf(rs) == IF Cardinality(EntitySets(rs)) > 1 THEN "conflict" ELSE "consistent"

EvidenceOf(rs) ==
    [d \in DOMAIN rs |-> [id |-> d, sql |-> TRUE, ids |-> rs[d].ids, total |-> rs[d].total]]

Ruling(rs, p) == IF Cardinality({rs[d].ids : d \in p}) > 1 THEN "confirmed" ELSE "overturned"

Rule(hs, rs, ev) ==
    [p \in DOMAIN hs |-> [ruling |-> Ruling(rs, p), cites |-> [d \in p |-> ev[d].id]]]

\* ImpactRankerAgent.run
Count(rs)  == {Cardinality(rs[d].ids) : d \in DOMAIN rs}
Totals(rs) == {rs[d].total : d \in DOMAIN rs}
Spread(S)  == Max(S) - Min(S)

Impact(c, rs) ==
    LET falseReady == Cardinality(rs[Lenient].ids \ rs[Anchor].ids) IN
    IF Spread(Count(rs)) = 0 /\ Spread(Totals(rs)) = 0
    THEN [severity |-> "low", delta |-> 0, value |-> 0, falseReady |-> 0]
    ELSE IF c = "certification_ready"
    THEN [severity |-> "high", delta |-> Spread(Count(rs)), value |-> falseReady,
          falseReady |-> falseReady]
    ELSE [severity |-> IF Spread(Count(rs)) >= HighCount \/ Spread(Totals(rs)) >= HighValue
                       THEN "high" ELSE "medium",
          delta |-> Spread(Count(rs)), value |-> Spread(Totals(rs)), falseReady |-> 0]

\* AuthorityResolverAgent._decide.  A rule set has at most one canonical rule.
Authority(rs) ==
    LET clear    == {r \in rs : r.status = "clear" /\ r.owner # None}
        naming   == {r \in clear : r.canonical}
        statuses == {r.status : r \in rs}
    IN  IF naming # {}
        THEN [status |-> "clear", owner |-> (CHOOSE r \in naming : TRUE).owner]
        ELSE IF rs # {} /\ statuses = {"clear"} /\ Cardinality({r.owner : r \in clear}) = 1
        THEN [status |-> "clear", owner |-> (CHOOSE r \in clear : TRUE).owner]
        ELSE [status |-> CASE "ambiguous" \in statuses -> "ambiguous"
                           [] "shared" \in statuses -> "shared"
                           [] OTHER -> "missing",
              owner |-> None]

\* ReconciliationAgent: the smallest population anchors a generic proposal.
Smallest(bs, ev) ==
    LET size(b) == IF b \in DOMAIN ev THEN Cardinality(ev[b].ids) ELSE 0
    IN  CHOOSE b \in bs : \A o \in bs : size(b) < size(o) \/ (size(b) = size(o) /\ b <= o)

Decision(c, verdict, bs, authority, ev) ==
    IF verdict = "consistent"
    THEN [proposal |-> None, refusal |-> FALSE, human |-> FALSE]
    ELSE IF authority.status # "clear" \/ authority.owner = None
    THEN [proposal |-> None, refusal |-> TRUE, human |-> TRUE]
    ELSE [proposal |-> [owner |-> authority.owner,
                        refs |-> {ev[d].id : d \in DOMAIN ev},
                        source |-> IF c \in {"active_customer", "certification_ready"}
                                   THEN Anchor ELSE Smallest(bs, ev),
                        human |-> TRUE],
          refusal |-> FALSE, human |-> TRUE]
-----------------------------------------------------------------------------
\* SkepticalVerifierAgent

\* Mutant: the evidence is only counted.
EvidenceCounted(c) ==
    c.evidence # Empty /\ DOMAIN c.results = c.bindings /\ DOMAIN c.evidence = DOMAIN c.results

EvidenceMatches(c) ==
    /\ c.evidence # Empty /\ c.results # Empty
    /\ DOMAIN c.results = c.bindings
    /\ DOMAIN c.evidence = DOMAIN c.results
    /\ \A d \in DOMAIN c.evidence :
         /\ c.evidence[d].id = d
         /\ c.evidence[d].sql
         /\ c.evidence[d].ids = c.results[d].ids
         /\ c.evidence[d].total = c.results[d].total

RulingsMatch(c) ==
    IF c.hypotheses = Empty
    THEN c.governed # None /\ Cardinality(DOMAIN c.results) = 1
                           /\ Cardinality(DOMAIN c.evidence) = 1
    ELSE \A p \in DOMAIN c.hypotheses :
           /\ p \subseteq DOMAIN c.results
           /\ c.hypotheses[p].ruling = Ruling(c.results, p)
           /\ \A d \in p : d \in DOMAIN c.evidence
                           /\ d \in DOMAIN c.hypotheses[p].cites
                           /\ c.hypotheses[p].cites[d] = c.evidence[d].id

\* Mutant: that there is a decision is checked, not whose.
DecisionPresent(c) ==
    /\ c.authority # None
    /\ c.human <=> c.verdict = "conflict"
    /\ c.human <=> c.proposal # None \/ c.refusal

DecisionConsistent(c) ==
    /\ c.authority # None
    /\ CASE c.verdict = "consistent" -> c.proposal = None /\ ~ c.refusal /\ ~ c.human
         [] c.verdict = "conflict" /\ c.authority.status = "clear" /\ c.authority.owner # None ->
              /\ c.proposal # None /\ ~ c.refusal /\ c.human
              /\ c.proposal.human /\ c.proposal.owner = c.authority.owner
         [] c.verdict = "conflict" /\ ~ (c.authority.status = "clear" /\ c.authority.owner # None) ->
              /\ c.authority.status # "clear" /\ c.authority.owner = None
              /\ c.proposal = None /\ c.refusal /\ c.human
         [] OTHER -> FALSE

ProposalCites(c) ==
    c.proposal # None => c.proposal.refs = {c.evidence[d].id : d \in DOMAIN c.evidence}

\* _add_scenario_checks
GovernedChecks(c) ==
    /\ c.bindings = {c.governed} /\ DOMAIN c.results = {c.governed}
    /\ c.verdict = "consistent" /\ c.proposal = None /\ ~ c.refusal /\ ~ c.human
    /\ c.impact # None /\ c.impact.delta = 0 /\ c.impact.value = 0

ScenarioChecks(c) ==
    /\ c.concept \in Supported
    /\ Cardinality(DOMAIN c.results) = Cardinality(Definitions[c.concept])
    /\ c.concept \in Conflicting =>
         c.verdict = "conflict" /\ Cardinality(EntitySets(c.results)) > 1
    /\ c.concept \in Agreeing =>
         /\ c.verdict = "consistent" /\ Cardinality(EntitySets(c.results)) = 1
         /\ Cardinality(Totals(c.results)) = 1
         /\ c.impact # None /\ c.impact.severity = "low" /\ c.impact.delta = 0
    /\ c.concept = "active_customer" => c.impact # None /\ c.impact.severity = "high"
    /\ c.concept = "certification_ready" => c.impact # None /\ c.impact.falseReady > 0
    /\ c.concept \in Refusing => c.authority # None /\ c.authority.owner = None /\ c.refusal
    /\ c.concept \in Conflicting \ Refusing => c.authority # None /\ c.authority.owner # None
                                                /\ c.proposal # None
    /\ c.concept = "certification_ready" => c.authority.owner = Council

Passes(c) ==
    /\ c.concept # None
    /\ c.bindings # {} /\ c.bindings = c.candidates
    /\ c.results # Empty
    /\ c.verdict = VerdictOf(c.results)
    /\ EvidenceMatches(c) /\ RulingsMatch(c) /\ DecisionConsistent(c) /\ ProposalCites(c)
    /\ IF c.governed # None THEN GovernedChecks(c) ELSE ScenarioChecks(c)

\* Mutant: missing evidence is not looked for.
NoExecutionRecovery(c) ==
    CASE c.impact = None -> "rank_impact"
      [] c.impact # None /\ (c.authority = None \/ ~ c.context) -> "resolve_authority"
      [] OTHER -> "none"

\* _recovery_stage, consulted only when a check has failed.
RecoveryStage(c) ==
    CASE c.bindings # {} /\ c.evidence = Empty -> "execute_definitions"
      [] c.results # Empty /\ c.evidence # Empty /\ c.impact = None -> "rank_impact"
      [] c.impact # None /\ (c.authority = None \/ ~ c.context) -> "resolve_authority"
      [] c.authority # None /\ c.verdict = "conflict" /\ c.proposal = None /\ ~ c.refusal ->
           "reconcile_or_refuse"
      [] OTHER -> "none"
-----------------------------------------------------------------------------
\* Mutant: a governed case, which has no hypotheses, is not provided for.
RuledPairs(c) == c.results # Empty /\ c.evidence # Empty /\ c.hypotheses # Empty

\* SpecialistAgentNode validators: what each node refuses to pass on.
Ruled(c) ==
    /\ c.results # Empty /\ c.evidence # Empty
    /\ c.hypotheses # Empty \/ (c.governed # None /\ Cardinality(DOMAIN c.results) = 1)
    /\ \A p \in DOMAIN c.hypotheses :
         c.hypotheses[p].ruling # "open" /\ Cardinality(DOMAIN c.hypotheses[p].cites) = 2

Accepts(stage, c) ==
    CASE stage = "resolve_concept"  -> c.concept # None
      [] stage = "inspect_bindings" -> c.bindings # {}
      [] stage = "hypothesize"      -> c.hypotheses # Empty
                                       \/ (c.governed # None /\ Cardinality(c.bindings) = 1)
      [] stage = "execute"          -> Ruled(c)
      [] stage = "rank_impact"      -> c.impact # None
      [] stage = "resolve_authority" -> c.authority # None
      [] stage = "decide"           -> c.proposal # None \/ c.refusal \/ c.verdict = "consistent"
      [] stage = "verify"           -> c.passed \/ c.status \in {"blocked", "needs_review"}
      [] OTHER                      -> TRUE

\* The order is written down twice: in the calls of ReconciliationRunner.run, and
\* in the list of specialists that the strict graph is chained from.
Stages == <<"resolve_concept", "inspect_bindings", "hypothesize", "execute", "rank_impact",
            "resolve_authority", "decide", "verify", "audit">>

\* Mutant: the hypothesis agent is missing from the list.
Unhypothesized == <<"resolve_concept", "inspect_bindings", "execute", "rank_impact",
                    "resolve_authority", "decide", "verify", "audit">>

Specialists == <<"resolve_concept", "inspect_bindings", "hypothesize", "execute", "rank_impact",
                 "resolve_authority", "decide", "verify", "audit">>

After(stage) ==
    LET order == IF mode = "strict" THEN Specialists ELSE Stages
        i     == CHOOSE i \in 1..Len(order) : order[i] = stage
    IN  order[i + 1]

NewCase ==
    [concept |-> None, candidates |-> {}, bindings |-> {}, governed |-> None,
     hypotheses |-> Empty, results |-> Empty, evidence |-> Empty, verdict |-> "incomplete",
     impact |-> None, authority |-> None, context |-> FALSE,
     proposal |-> None, refusal |-> FALSE, human |-> FALSE,
     passed |-> FALSE, attempts |-> 0, recovery |-> "none", status |-> "pending"]

Init ==
    /\ mode \in {"fast", "strict"}
    /\ concept \in Concepts
    /\ data \in [Definitions[concept] -> Results]
    /\ rules \in RuleSets
    /\ canonical \in Definitions[concept] \cup {None}
    /\ local \in BOOLEAN
    /\ pc = "resolve_concept"
    /\ case = NewCase
    /\ damage = "none"
    /\ saved = {}
    /\ ended = "no"

End(how) == ended' = how /\ pc' = "done"

\* A stage leaves c; in strict mode its node then inspects c.
Leaves(stage, c) ==
    /\ case' = c
    /\ IF mode = "strict" /\ ~ Accepts(stage, c)
       THEN End("rejected")
       ELSE pc' = After(stage) /\ UNCHANGED ended
    /\ UNCHANGED <<world, damage, saved>>

-----------------------------------------------------------------------------
ResolveConcept ==
    /\ pc = "resolve_concept"
    /\ IF concept \in Supported
       THEN Leaves("resolve_concept",
                   [case EXCEPT !.concept = concept, !.candidates = Definitions[concept]])
       ELSE End("unsupported") /\ UNCHANGED <<world, case, damage, saved>>

\* With a local provider the registry's canonical definition, if there is one,
\* is the only binding; the other providers' bindings are taken as they are.
Bind(c) ==
    IF canonical = None \/ ~ local
    THEN [c EXCEPT !.bindings = Definitions[concept]]
    ELSE [c EXCEPT !.bindings = {canonical}, !.candidates = {canonical}, !.governed = canonical]

InspectBindings ==
    pc = "inspect_bindings" /\ Leaves("inspect_bindings", Bind(case))

HypothesizeConflicts ==
    /\ pc = "hypothesize"
    /\ Leaves("hypothesize",
              [case EXCEPT !.hypotheses =
                  [p \in Pairs(case.bindings) |-> [ruling |-> "open", cites |-> Empty]]])

Execute(c) ==
    LET rs == [d \in c.bindings |-> data[d]]
        ev == EvidenceOf(rs)
    IN  [c EXCEPT !.results = rs, !.evidence = ev, !.verdict = VerdictOf(rs),
                  !.hypotheses = Rule(c.hypotheses, rs, ev)]

ExecuteDefinitions ==
    pc = "execute" /\ Leaves("execute", Execute(case))

Rank(c) == [c EXCEPT !.impact = Impact(c.concept, c.results)]

RankImpact ==
    pc = "rank_impact" /\ Leaves("rank_impact", Rank(case))

Authorize(c) == [c EXCEPT !.authority = Authority(rules), !.context = TRUE]

ResolveAuthority ==
    pc = "resolve_authority" /\ Leaves("resolve_authority", Authorize(case))

Decide(c) ==
    LET d == Decision(c.concept, c.verdict, c.bindings, c.authority, c.evidence) IN
    [c EXCEPT !.proposal = d.proposal, !.refusal = d.refusal, !.human = d.human]

ReconcileOrRefuse ==
    pc = "decide" /\ Leaves("decide", Decide(case))

-----------------------------------------------------------------------------
\* One output wholly lost, by the stage it belongs to.
Losses(c) ==
    {<<"execute_definitions", [c EXCEPT !.evidence = Empty]>>,
     <<"execute_definitions", [c EXCEPT !.results = Empty, !.evidence = Empty]>>,
     <<"rank_impact", [c EXCEPT !.impact = None]>>,
     <<"resolve_authority", [c EXCEPT !.authority = None]>>,
     <<"context", [c EXCEPT !.context = FALSE]>>,
     <<"reconcile_or_refuse", [c EXCEPT !.proposal = None, !.refusal = FALSE]>>}

Other(x) == IF x = "confirmed" THEN "overturned" ELSE "confirmed"

Without(f, d) == [e \in DOMAIN f \ {d} |-> f[e]]

\* One value altered, or one entry of several dropped: what the case is about,
AlteredSubject(c) ==
    {[c EXCEPT !.concept = k] : k \in Concepts \cup {None}}
    \cup {[c EXCEPT !.governed = g] : g \in Definitions[concept] \cup {None}}
    \cup {[c EXCEPT !.candidates = ds] : ds \in SUBSET Definitions[concept]}
    \cup {[c EXCEPT !.bindings = ds] : ds \in SUBSET Definitions[concept]}

\* what was found,
AlteredData(c) ==
    {[c EXCEPT !.evidence[d].id = 0] : d \in DOMAIN c.evidence}
    \cup {[c EXCEPT !.evidence[d].sql = FALSE] : d \in DOMAIN c.evidence}
    \cup {[c EXCEPT !.evidence[d].ids = {}] : d \in DOMAIN c.evidence}
    \cup {[c EXCEPT !.evidence[d].total = @ + 1] : d \in DOMAIN c.evidence}
    \cup {[c EXCEPT !.evidence = Without(@, d)] : d \in DOMAIN c.evidence}
    \cup {[c EXCEPT !.results[d] = r] : d \in DOMAIN c.results, r \in Results}
    \cup {[c EXCEPT !.results = Without(@, d)] : d \in DOMAIN c.results}

\* what was made of it,
AlteredRulings(c) ==
    {[c EXCEPT !.hypotheses[p].ruling = Other(@)] : p \in DOMAIN c.hypotheses}
    \cup {[c EXCEPT !.hypotheses[p].cites = [d \in DOMAIN @ |-> 0]] : p \in DOMAIN c.hypotheses}
    \cup {[c EXCEPT !.hypotheses = Without(@, p)] : p \in DOMAIN c.hypotheses}
    \cup {[c EXCEPT !.hypotheses = Empty]}
    \cup {[c EXCEPT !.verdict = v] : v \in {"conflict", "consistent", "incomplete"}}
    \cup {[c EXCEPT !.impact.severity = s] : s \in {"low", "medium", "high"}}
    \cup {[c EXCEPT !.impact.delta = 0], [c EXCEPT !.impact.value = 0],
          [c EXCEPT !.impact.falseReady = 0]}

\* or what was decided: 0 is a source, and a text, that no definition has.
AlteredDecision(c) ==
    {[c EXCEPT !.authority.owner = o] : o \in Owners \cup {None}}
    \cup {[c EXCEPT !.authority.status = s] : s \in {"clear", "ambiguous", "shared", "missing"}}
    \cup {[c EXCEPT !.proposal = p] :
             p \in [owner: Owners, refs: {{}, DOMAIN c.evidence},
                    source: Definitions[concept] \cup {0}, human: BOOLEAN]}
    \cup {[c EXCEPT !.human = ~ @], [c EXCEPT !.refusal = ~ @]}

Alterations(c) == AlteredSubject(c) \cup AlteredData(c) \cup AlteredRulings(c) \cup AlteredDecision(c)

Damage ==
    /\ pc = "verify" /\ damage = "none"
    /\ \/ \E l \in Losses(case) : damage' = l[1] /\ case' = l[2]
       \/ damage' = "altered" /\ case' \in Alterations(case) \ {case}
    /\ UNCHANGED <<world, pc, saved, ended>>

Recover(stage, c) ==
    CASE stage = "execute_definitions" -> Execute(c)
      [] stage = "rank_impact"         -> Rank(c)
      [] stage = "resolve_authority"   -> Authorize(c)
      [] stage = "reconcile_or_refuse" -> Decide(c)

\* Mutant: the attempt is counted once more when it is recorded.
CountedTwice(c, attempt) ==
    IF Passes(c)
    THEN [c EXCEPT !.passed = TRUE, !.attempts = attempt + 1, !.status = "passed"]
    ELSE [c EXCEPT !.passed = FALSE, !.attempts = attempt + 1,
                   !.status = IF c.recovery = "none" THEN "blocked" ELSE "needs_review",
                   !.verdict = "incomplete"]

Finalize(c, attempt) ==
    IF Passes(c)
    THEN [c EXCEPT !.passed = TRUE, !.attempts = attempt, !.status = "passed"]
    ELSE [c EXCEPT !.passed = FALSE, !.attempts = attempt,
                   !.status = IF c.recovery = "none" THEN "blocked" ELSE "needs_review",
                   !.verdict = "incomplete"]

\* The fast verifier raises when a check fails.
Verify ==
    /\ pc = "verify" /\ mode = "fast"
    /\ LET c == Finalize(case, 1) IN
       IF c.passed
       THEN Leaves("verify", c)
       ELSE case' = c /\ End("verification_failed") /\ UNCHANGED <<world, damage, saved>>

\* The strict one recomputes one missing output first; what the recovered stage
\* reads is there, because only one output was lost.
VerifyStrict ==
    /\ pc = "verify" /\ mode = "strict"
    /\ LET stage == RecoveryStage(case) IN
       Leaves("verify",
              IF Passes(case) \/ stage = "none"
              THEN Finalize(case, 1)
              ELSE Finalize(Recover(stage, [case EXCEPT !.recovery = stage]), 2))

\* What ReconciliationRepository.save insists on besides a passed report.
Saveable(c) == c.context /\ c.impact # None /\ c.authority # None

\* In fast mode the workflow's nodes see the case only now.
NodesAccept(c) == \A i \in 1..Len(Specialists) : Accepts(Specialists[i], c)

Audit ==
    /\ pc = "audit"
    /\ IF ~ case.passed
       THEN End("returned") /\ UNCHANGED saved
       ELSE IF ~ Saveable(case)
       THEN End("value_error") /\ UNCHANGED saved
       ELSE /\ saved' = {case}
            /\ End(IF mode = "strict" \/ NodesAccept(case) THEN "returned" ELSE "rejected")
    /\ UNCHANGED <<world, case, damage>>

\* A provider or the registry raises: only these stages call one.
Fails ==
    /\ \/ pc \in {"resolve_concept", "inspect_bindings", "execute", "resolve_authority", "audit"}
       \/ /\ pc = "verify" /\ mode = "strict" /\ ~ Passes(case)
          /\ RecoveryStage(case) \in {"execute_definitions", "resolve_authority"}
    /\ pc = "audit" => case.passed
    /\ End("failed")
    /\ UNCHANGED <<world, case, damage, saved>>

Stage ==
    \/ ResolveConcept \/ InspectBindings \/ HypothesizeConflicts \/ ExecuteDefinitions
    \/ RankImpact \/ ResolveAuthority \/ ReconcileOrRefuse \/ Verify \/ VerifyStrict \/ Audit

Next == Stage \/ Damage \/ Fails

Spec == Init /\ [][Next]_vars
-----------------------------------------------------------------------------
Outcomes == {"no", "unsupported", "rejected", "verification_failed", "failed", "value_error",
             "returned"}

\* The blackboard holds what ReconciliationCase's fields may.
TypeOK ==
    /\ pc \in {Stages[i] : i \in 1..Len(Stages)} \cup {"done"}
    /\ ended \in Outcomes
    /\ case.bindings \cup case.candidates \subseteq Definitions[concept]
    /\ DOMAIN case.results \cup DOMAIN case.evidence \subseteq Definitions[concept]
    /\ case.verdict \in {"conflict", "consistent", "incomplete"}
    /\ case.status \in {"pending", "passed", "needs_review", "blocked"}
    /\ case.attempts \in 0..2
    /\ saved \subseteq {case}

\* What the registry may be told of these inputs, from the inputs alone.
Governing    == IF local THEN canonical ELSE None
TrueResults  == [d \in IF Governing = None THEN Definitions[concept] ELSE {canonical} |-> data[d]]
TrueDecision == Decision(concept, VerdictOf(TrueResults), DOMAIN TrueResults, Authority(rules),
                         EvidenceOf(TrueResults))

\* "Block unsupported conflicts and proposals": whatever one output was lost or one
\* value altered before the verifier, a case the registry holds has the evidence
\* the provider gives, the verdict that follows from it, and the decision that
\* follows from that verdict and the configured authority: a refusal, or a
\* proposal with its owner, its evidence and its need of approval.  Which
\* definition the proposal starts from, and so its text, the verifier does not
\* look at, nor whether the concept is the one that was asked for.
SavedIsTrue ==
    \A c \in saved :
        /\ c.results = TrueResults
        /\ c.evidence = EvidenceOf(TrueResults)
        /\ c.verdict = VerdictOf(TrueResults)
        /\ c.refusal = TrueDecision.refusal
        /\ c.human = TrueDecision.human
        /\ c.proposal = None <=> TrueDecision.proposal = None
        /\ c.proposal # None => \A f \in {"owner", "refs", "human"} :
                                  c.proposal[f] = TrueDecision.proposal[f]

\* The decision of a saved case stands by what is recorded with it: the verdict
\* is the one its results show, in a conflict there is a proposal for the owner
\* the authority names, or a refusal if it names none, and otherwise neither; and
\* a local proposal is never for a term that was governed when its bindings were
\* read.  The court assumes as much of a case it hears: it reads the conflict
\* off the results, the outcome off the proposal, the ruling off the authority.
SavedDecisionStands ==
    \A c \in saved :
        /\ c.verdict = "conflict" <=>
             \E d, e \in DOMAIN c.results : c.results[d].ids # c.results[e].ids
        /\ c.proposal # None <=> c.verdict = "conflict" /\ c.authority.owner # None
        /\ c.refusal <=> c.verdict = "conflict" /\ c.authority.owner = None
        /\ c.proposal # None => c.proposal.owner = c.authority.owner /\ Governing = None

\* A case that was persisted is also returned: the nodes that inspect a finished
\* fast case reject nothing the verifier passed.
SavedIsReturned == saved # {} => ended = "returned"

\* The case the stages build when nothing goes wrong.
Reference ==
    LET bound == [NewCase EXCEPT
                     !.concept = concept,
                     !.candidates = DOMAIN TrueResults,
                     !.bindings = DOMAIN TrueResults,
                     !.governed = Governing,
                     !.hypotheses = [p \in Pairs(DOMAIN TrueResults) |->
                                        [ruling |-> "open", cites |-> Empty]]]
    IN  Decide(Authorize(Rank(Execute(bound))))

\* test_strict_matches_fast_for_each_scenario: an undamaged run is saved in one
\* mode if and only if it is in the other, because in each it is saved if and
\* only if the reference case passes; and it is saved at its first verification.
ModesAgree ==
    damage = "none" /\ pc = "done" /\ ended \notin {"failed", "unsupported"} =>
        /\ saved # {} <=> Passes(Reference)
        /\ \A c \in saved : c.attempts = 1

\* Strict mode repairs the loss of the evidence, with or without the results, of
\* the impact, of the authority or of the decision: what it answers was saved, if
\* it would have been saved had nothing been lost.  The loss of the context packet
\* is not among them, because no check misses it.
OneLossIsRepaired ==
    /\ mode = "strict"
    /\ damage \in {"execute_definitions", "rank_impact", "resolve_authority",
                    "reconcile_or_refuse"}
    /\ Passes(Reference)
    /\ ended = "returned"
    => saved # {}

\* "Verify, retry one missing stage once, then return a safe status", of
\* verify_strict: a case it passes has every output its persistence needs.
PassedIsSafe == mode = "strict" /\ case.status = "passed" => Saveable(case)
=============================================================================
