---------------------------- MODULE PipelineProofs ----------------------------
(***************************************************************************)
(* What ReconciliationPipeline may save, whatever the definitions, the     *)
(* data, the authority rules and the damage, and what a run without damage *)
(* or with one lost output saves, proved with TLAPS.                       *)
(***************************************************************************)
EXTENDS ReconciliationPipeline, FiniteSetTheorems, TLAPS

-----------------------------------------------------------------------------
\* The invariant.

WorldOK ==
    /\ mode \in {"fast", "strict"} /\ local \in BOOLEAN
    /\ concept \in Concepts
    /\ data \in [Definitions[concept] -> Results]
    /\ rules \in RuleSets
    /\ canonical \in Definitions[concept] \cup {None}

\* A case has the fields of a case and speaks of definitions of its concept; one
\* that is bound is about those in force.
Shaped(c) == DOMAIN c = DOMAIN NewCase

InRange(c) ==
    /\ c.bindings \cup c.candidates \subseteq Definitions[concept]
    /\ DOMAIN c.results \cup DOMAIN c.evidence \subseteq Definitions[concept]

Bound(c) ==
    /\ Shaped(c) /\ c.concept = concept
    /\ c.bindings = DOMAIN TrueResults /\ c.candidates = DOMAIN TrueResults

\* What the provider gives was found, and the verdict follows from it.
Executed(c) ==
    /\ c.results = TrueResults /\ c.evidence = EvidenceOf(TrueResults)
    /\ c.verdict = VerdictOf(TrueResults)

Decided(c) ==
    /\ c.proposal = TrueDecision.proposal
    /\ c.refusal = TrueDecision.refusal /\ c.human = TrueDecision.human

\* The same, but for what the verifier does not look at.
Faithful(c) ==
    /\ c.refusal = TrueDecision.refusal /\ c.human = TrueDecision.human
    /\ c.proposal = None <=> TrueDecision.proposal = None
    /\ c.proposal # None => \A f \in {"owner", "refs", "human"} :
                              c.proposal[f] = TrueDecision.proposal[f]

\* Every hypothesis that was ruled cites a pair.
Paired(c) == \A p \in DOMAIN c.hypotheses :
                /\ DOMAIN c.hypotheses[p] = {"ruling", "cites"}
                /\ Cardinality(DOMAIN c.hypotheses[p].cites) = 2

\* The case that reaches the verifier when nothing happens to it.
Intact(c) == Bound(c) /\ Executed(c) /\ c.authority = Authority(rules) /\ Decided(c) /\ Paired(c)

EvidenceShaped(ev) ==
    /\ ev = [d \in DOMAIN ev |-> ev[d]] /\ DOMAIN ev \subseteq DOMAIN TrueResults
    /\ \A d \in DOMAIN ev :
         /\ ev[d] = [id |-> ev[d].id, sql |-> ev[d].sql, ids |-> ev[d].ids, total |-> ev[d].total]
         /\ ev[d].sql \in BOOLEAN

ResultsShaped(rs) ==
    /\ rs = [d \in DOMAIN rs |-> rs[d]] /\ DOMAIN rs \subseteq DOMAIN TrueResults
    /\ \A d \in DOMAIN rs : rs[d] = [ids |-> rs[d].ids, total |-> rs[d].total]

\* Results and evidence are not wrong at once, though both may be missing.
DataNear(c) ==
    \/ c.results = TrueResults /\ EvidenceShaped(c.evidence)
    \/ c.results = Empty /\ c.evidence = Empty
    \/ ResultsShaped(c.results) /\ c.evidence = EvidenceOf(TrueResults)

\* Nor are the authority and what was decided by it.
DecisionNear(c) ==
    \/ c.authority = Authority(rules)
    \/ c.verdict = VerdictOf(TrueResults) /\ Faithful(c)

\* What an alteration of its concept, its candidates or its bindings leaves of it,
Mislabelled(c) ==
    /\ Shaped(c) /\ InRange(c) /\ Executed(c) /\ Faithful(c)
    /\ c.authority = Authority(rules)

\* and what a loss, or any other alteration, does.
Deviating(c) ==
    /\ Bound(c) /\ DataNear(c) /\ DecisionNear(c)
    /\ c.verdict \in {"conflict", "consistent", "incomplete"}
    /\ c.refusal \in BOOLEAN /\ c.human \in BOOLEAN
    /\ c.proposal # None => c.proposal.human \in BOOLEAN

Near(c) == Deviating(c) \/ Mislabelled(c)

\* A case with everything SavedIsTrue asks for, whose authority is the one its
\* decision needs.
Truthful(c) == Executed(c) /\ Faithful(c) /\ DecisionConsistent(c)

\* What stage l finds in a case c.
Found(l, c) ==
    /\ l = "resolve_concept" => c = NewCase
    /\ l = "inspect_bindings" =>
         /\ Shaped(c) /\ c.concept = concept /\ c.candidates = Definitions[concept]
         /\ c.results = Empty /\ c.evidence = Empty
    /\ l \in {"hypothesize", "execute", "rank_impact", "resolve_authority", "decide"} => Bound(c)
    /\ l = "execute" =>
         c.hypotheses = [p \in Pairs(c.bindings) |-> [ruling |-> "open", cites |-> Empty]]
    /\ l \in {"rank_impact", "resolve_authority", "decide"} => Executed(c) /\ Paired(c)
    /\ l = "decide" => c.authority = Authority(rules)
    /\ l = "verify" => Near(c) /\ Paired(c) /\ (damage = "none" => Intact(c))
    /\ l = "audit" /\ c.passed =>
         /\ Truthful(c)
         /\ mode = "fast" /\ Saveable(c) => NodesAccept(c)

\* Nothing is saved, nor has the request ended, before the end.
Unfinished == pc # "done" => saved = {} /\ ended = "no"

\* The part of TypeOK that is about a case.
TypedCase(c) ==
    /\ InRange(c)
    /\ c.verdict \in {"conflict", "consistent", "incomplete"}
    /\ c.status \in {"pending", "passed", "needs_review", "blocked"}
    /\ c.attempts \in 0..2

PipelineInv ==
    /\ WorldOK /\ TypeOK /\ Shaped(case) /\ Found(pc, case) /\ Unfinished
    /\ \A c \in saved : Truthful(c)
    /\ SavedIsReturned

-----------------------------------------------------------------------------
\* Definitions and decisions.

\* Among natural numbers there is a least.
LEMMA Least ==
    ASSUME NEW S, S \subseteq Nat, S # {}
    PROVE  \E n \in S : \A m \in S : n <= m
PROOF
<1> DEFINE T == {0..n : n \in S}
           R == StrictSubsetOrdering(Nat)
<1>1. T \subseteq FiniteSubsetsOf(Nat) /\ T # {}
    <2>1. \A n \in S : IsFiniteSet(0..n) /\ 0..n \subseteq Nat
        BY FS_Interval
    <2> QED BY <2>1 DEF FiniteSubsetsOf
<1>2. IsWellFoundedOn(R, FiniteSubsetsOf(Nat))
    BY FS_StrictSubsetOrderingWellFounded
<1>3. PICK x \in T : \A y \in T : ~ (<<y, x>> \in R)
    <2> HIDE DEF T, R
    <2> QED BY <1>1, <1>2, WFMin
<1>4. PICK n \in S : x = 0..n
    OBVIOUS
<1>5. ASSUME NEW m \in S, m < n
      PROVE  FALSE
    <2>1. n \in 0..n /\ n \notin 0..m /\ 0..m \subseteq 0..n /\ 0..n \subseteq Nat
        BY <1>5
    <2>2. <<0..m, 0..n>> \in R
        BY <2>1 DEF StrictSubsetOrdering
    <2> QED BY <1>3, <1>4, <2>2
<1> QED BY <1>5

\* A smallest population exists, so a generic proposal starts from a definition.
LEMMA SmallestIsOne ==
    ASSUME NEW bs, bs \subseteq Nat, bs # {}, NEW ev,
           \A b \in bs \cap DOMAIN ev : IsFiniteSet(ev[b].ids)
    PROVE  Smallest(bs, ev) \in bs
PROOF
<1> DEFINE size(b) == IF b \in DOMAIN ev THEN Cardinality(ev[b].ids) ELSE 0
<1>1. \A b \in bs : size(b) \in Nat
    BY FS_CardinalityType
<1>2. PICK n \in {size(b) : b \in bs} : \A m \in {size(b) : b \in bs} : n <= m
    <2>1. {size(b) : b \in bs} \subseteq Nat /\ {size(b) : b \in bs} # {}
        BY <1>1
    <2> HIDE DEF size
    <2> QED BY <2>1, Least
<1>3. PICK least \in {b \in bs : size(b) = n} : \A m \in {b \in bs : size(b) = n} : least <= m
    <2>1. {b \in bs : size(b) = n} \subseteq Nat /\ {b \in bs : size(b) = n} # {}
        OBVIOUS
    <2> HIDE DEF size
    <2> QED BY <2>1, Least
<1>4. \A o \in bs : size(least) < size(o) \/ (size(least) = size(o) /\ least <= o)
    <2> HIDE DEF size
    <2> QED BY <1>1, <1>2, <1>3
<1>5. Smallest(bs, ev) =
        CHOOSE b \in bs : \A o \in bs : size(b) < size(o) \/ (size(b) = size(o) /\ b <= o)
    BY DEF Smallest
<1> QED BY <1>3, <1>4, <1>5

\* The true results are those of some definitions of the concept.
LEMMA TrueTyped ==
    ASSUME WorldOK
    PROVE  /\ DOMAIN TrueResults \subseteq Definitions[concept]
           /\ Definitions[concept] \subseteq Nat
           /\ DOMAIN TrueResults = IF local /\ canonical # None THEN {canonical}
                                   ELSE Definitions[concept]
           /\ DOMAIN TrueResults # {}
           /\ TrueResults = [d \in DOMAIN TrueResults |-> data[d]]
           /\ \A d \in DOMAIN TrueResults : TrueResults[d] \in Results
PROOF
<1>1. /\ Definitions[concept] \subseteq Nat
      /\ Cardinality(Definitions[concept]) \in {2, 3}
    BY PipelineAssumption DEF WorldOK
<1>2. Definitions[concept] # {}
    BY <1>1, FS_EmptySet
<1> QED BY <1>1, <1>2 DEF TrueResults, Governing, WorldOK

\* The owner of a clear authority is one.
LEMMA AuthorityTyped ==
    ASSUME WorldOK
    PROVE  Authority(rules).owner \in Owners \cup {None}
PROOF
<1>1. \A r \in rules : r.owner \in Owners \cup {None}
    BY PipelineAssumption DEF WorldOK
<1> DEFINE clear  == {r \in rules : r.status = "clear" /\ r.owner # None}
           naming == {r \in clear : r.canonical}
           statuses == {r.status : r \in rules}
<1>2. CASE naming # {}
    <2>1. Authority(rules) = [status |-> "clear", owner |-> (CHOOSE r \in naming : TRUE).owner]
        BY <1>2 DEF Authority
    <2>2. (CHOOSE r \in naming : TRUE) \in rules
        BY <1>2
    <2> QED BY <1>1, <2>1, <2>2
<1>3. CASE /\ naming = {}
           /\ rules # {} /\ statuses = {"clear"} /\ Cardinality({r.owner : r \in clear}) = 1
    <2>1. Authority(rules) = [status |-> "clear", owner |-> (CHOOSE r \in clear : TRUE).owner]
        BY <1>3 DEF Authority
    <2>2. clear # {}
        BY <1>3, FS_EmptySet
    <2>3. (CHOOSE r \in clear : TRUE) \in rules
        BY <2>2
    <2> QED BY <1>1, <2>1, <2>3
<1>4. CASE /\ naming = {}
           /\ ~ (rules # {} /\ statuses = {"clear"} /\ Cardinality({r.owner : r \in clear}) = 1)
    BY <1>4 DEF Authority
<1> QED BY <1>2, <1>3, <1>4

\* A conflict is decided one way or the other.
LEMMA ConflictDecided ==
    ASSUME WorldOK
    PROVE  /\ TrueDecision.refusal \in BOOLEAN /\ TrueDecision.human \in BOOLEAN
           /\ VerdictOf(TrueResults) \in {"conflict", "consistent"}
           /\ VerdictOf(TrueResults) = "conflict" =>
                TrueDecision.refusal \/ TrueDecision.proposal # None
           /\ VerdictOf(TrueResults) = "consistent" => TrueDecision.proposal = None
           /\ TrueDecision.proposal # None => TrueDecision.proposal.human = TRUE
PROOF
<1> DEFINE ev == EvidenceOf(TrueResults)
           a  == Authority(rules)
           v  == VerdictOf(TrueResults)
           bs == DOMAIN TrueResults
<1>1. TrueDecision = Decision(concept, v, bs, a, ev)
    BY DEF TrueDecision
<1>2. v \in {"conflict", "consistent"}
    BY DEF VerdictOf
<1>3. CASE v = "consistent"
    BY <1>1, <1>3 DEF Decision
<1>4. CASE v # "consistent" /\ (a.status # "clear" \/ a.owner = None)
    BY <1>1, <1>2, <1>4 DEF Decision
<1>5. CASE v # "consistent" /\ a.status = "clear" /\ a.owner # None
    <2> DEFINE s == IF concept \in {"active_customer", "certification_ready"}
                    THEN Anchor ELSE Smallest(bs, ev)
    <2>1. TrueDecision = [proposal |-> [owner |-> a.owner, refs |-> {ev[d].id : d \in DOMAIN ev},
                                        source |-> s, human |-> TRUE],
                          refusal |-> FALSE, human |-> TRUE]
        BY <1>1, <1>5 DEF Decision
    <2>2. a.owner \in Owners
        BY <1>5, AuthorityTyped
    <2>3. bs \subseteq Nat /\ bs # {}
        BY TrueTyped
    <2>4. /\ DOMAIN ev = bs
          /\ \A d \in bs : ev[d].id = d /\ ev[d].ids = TrueResults[d].ids
        BY DEF EvidenceOf
    <2>5. {ev[d].id : d \in DOMAIN ev} \in SUBSET Nat
        BY <2>3, <2>4
    <2>6. s \in Nat
        <3>1. Anchor \in Nat
            BY PipelineAssumption DEF Supported, Conflicting
        <3>2. \A b \in bs \cap DOMAIN ev : IsFiniteSet(ev[b].ids)
            BY <2>4, TrueTyped, PipelineAssumption
        <3>3. Smallest(bs, ev) \in bs
            <4> HIDE DEF bs, ev
            <4> QED BY <2>3, <3>2, SmallestIsOne
        <3> QED BY <2>3, <3>1, <3>3
    <2>7. TrueDecision.proposal \in [owner: Owners, refs: SUBSET Nat, source: Nat, human: BOOLEAN]
        <3> HIDE DEF s, ev, a
        <3> QED BY <2>1, <2>2, <2>5, <2>6
    <2> QED BY <1>2, <1>5, <2>1, <2>7, PipelineAssumption
<1> QED BY <1>2, <1>3, <1>4, <1>5

-----------------------------------------------------------------------------
\* The verifier.

\* Evidence that matches true results, or results that match true evidence, are
\* both true.
LEMMA PassesExecuted ==
    ASSUME WorldOK, NEW c, Bound(c), DataNear(c), Passes(c)
    PROVE  Executed(c)
PROOF
<1> DEFINE ev == EvidenceOf(TrueResults)
<1>1. /\ c.evidence # Empty
      /\ DOMAIN c.results = c.bindings /\ DOMAIN c.evidence = DOMAIN c.results
      /\ \A d \in DOMAIN c.evidence : /\ c.evidence[d].id = d /\ c.evidence[d].sql
                                      /\ c.evidence[d].ids = c.results[d].ids
                                      /\ c.evidence[d].total = c.results[d].total
      /\ c.verdict = VerdictOf(c.results)
    BY DEF Passes, EvidenceMatches
<1>2. DOMAIN c.results = DOMAIN TrueResults /\ DOMAIN c.evidence = DOMAIN TrueResults
    BY <1>1 DEF Bound
<1>3. /\ ev = [d \in DOMAIN TrueResults |->
                 [id |-> d, sql |-> TRUE, ids |-> TrueResults[d].ids,
                  total |-> TrueResults[d].total]]
      /\ TrueResults = [d \in DOMAIN TrueResults |-> TrueResults[d]]
      /\ \A d \in DOMAIN TrueResults :
           TrueResults[d] = [ids |-> TrueResults[d].ids, total |-> TrueResults[d].total]
    BY TrueTyped, PipelineAssumption DEF EvidenceOf
<1>4. c.results = TrueResults /\ c.evidence = ev
    <2>1. CASE c.results = TrueResults /\ EvidenceShaped(c.evidence)
        <3>1. \A d \in DOMAIN TrueResults :
                c.evidence[d] = [id |-> d, sql |-> TRUE, ids |-> TrueResults[d].ids,
                                 total |-> TrueResults[d].total]
            BY <1>1, <1>2, <2>1 DEF EvidenceShaped
        <3>2. c.evidence = [d \in DOMAIN TrueResults |-> c.evidence[d]]
            BY <1>2, <2>1 DEF EvidenceShaped
        <3> QED BY <1>3, <2>1, <3>1, <3>2
    <2>2. CASE ResultsShaped(c.results) /\ c.evidence = ev
        <3>1. \A d \in DOMAIN TrueResults :
                c.results[d] = [ids |-> TrueResults[d].ids, total |-> TrueResults[d].total]
            <4> TAKE d \in DOMAIN TrueResults
            <4>1. c.results[d] = [ids |-> c.results[d].ids, total |-> c.results[d].total]
                BY <1>2, <2>2 DEF ResultsShaped
            <4>2. c.results[d].ids = ev[d].ids /\ c.results[d].total = ev[d].total
                BY <1>1, <1>2, <2>2
            <4>3. ev[d].ids = TrueResults[d].ids /\ ev[d].total = TrueResults[d].total
                BY <1>3
            <4> QED BY <4>1, <4>2, <4>3
        <3>2. c.results = [d \in DOMAIN TrueResults |-> c.results[d]]
            BY <1>2, <2>2 DEF ResultsShaped
        <3> QED BY <1>3, <2>2, <3>1, <3>2
    <2> QED BY <1>1, <2>1, <2>2 DEF DataNear
<1> QED BY <1>1, <1>4 DEF Executed

\* What is near the intact case has its fields, and speaks of its definitions.
LEMMA BoundInRange ==
    ASSUME WorldOK, NEW c, Bound(c), DataNear(c)
    PROVE  InRange(c)
PROOF
<1>1. DOMAIN c.results \subseteq DOMAIN TrueResults /\ DOMAIN c.evidence \subseteq DOMAIN TrueResults
    BY DEF DataNear, EvidenceShaped, ResultsShaped, EvidenceOf, Empty
<1> QED BY <1>1, TrueTyped DEF InRange, Bound

LEMMA NearTyped ==
    ASSUME WorldOK, NEW c, Near(c)
    PROVE  Shaped(c) /\ InRange(c) /\ c.verdict \in {"conflict", "consistent", "incomplete"}
PROOF
<1>1. CASE Deviating(c)
    BY <1>1, BoundInRange DEF Deviating, Bound
<1>2. CASE Mislabelled(c)
    BY <1>2, ConflictDecided DEF Mislabelled, Executed
<1> QED BY <1>1, <1>2 DEF Near

\* A decision that is consistent with the configured authority, and cites the
\* true evidence, is the true one.
LEMMA ConsistentFaithful ==
    ASSUME WorldOK, NEW c, Executed(c), DecisionConsistent(c), ProposalCites(c),
           c.authority = Authority(rules), c.refusal \in BOOLEAN, c.human \in BOOLEAN,
           c.proposal # None => c.proposal.human \in BOOLEAN
    PROVE  Faithful(c)
PROOF
<1> DEFINE a  == Authority(rules)
           v  == VerdictOf(TrueResults)
           ev == EvidenceOf(TrueResults)
<1>1. TrueDecision = Decision(concept, v, DOMAIN TrueResults, a, ev)
    BY DEF TrueDecision
<1>2. c.verdict = v /\ c.evidence = ev
    BY DEF Executed
<1>3. v \in {"conflict", "consistent"}
    BY ConflictDecided
<1>4. CASE v = "consistent"
    <2>1. c.proposal = None /\ ~ c.refusal /\ ~ c.human
        BY <1>2, <1>4 DEF DecisionConsistent
    <2>2. TrueDecision = [proposal |-> None, refusal |-> FALSE, human |-> FALSE]
        BY <1>1, <1>4 DEF Decision
    <2> QED BY <2>1, <2>2 DEF Faithful
<1>5. CASE v = "conflict" /\ a.status = "clear" /\ a.owner # None
    <2>1. /\ c.proposal # None /\ ~ c.refusal /\ c.human
          /\ c.proposal.human /\ c.proposal.owner = a.owner
        BY <1>2, <1>5 DEF DecisionConsistent
    <2>2. c.proposal.human = TRUE
        BY <2>1
    <2>3. c.proposal.refs = {ev[d].id : d \in DOMAIN ev}
        BY <1>2, <2>1 DEF ProposalCites
    <2> DEFINE src == IF concept \in {"active_customer", "certification_ready"}
                      THEN Anchor ELSE Smallest(DOMAIN TrueResults, ev)
    <2>4. TrueDecision = [proposal |-> [owner |-> a.owner, refs |-> {ev[d].id : d \in DOMAIN ev},
                                        source |-> src, human |-> TRUE],
                          refusal |-> FALSE, human |-> TRUE]
        BY <1>1, <1>5 DEF Decision
    <2>5. TrueDecision.proposal # None
        <3>1. TrueDecision.refusal = FALSE
            BY <2>4
        <3> QED BY <1>5, <3>1, ConflictDecided
    <2> HIDE DEF src, a, ev
    <2>6. /\ TrueDecision.proposal.owner = a.owner /\ TrueDecision.proposal.human = TRUE
          /\ TrueDecision.proposal.refs = {ev[d].id : d \in DOMAIN ev}
          /\ TrueDecision.refusal = FALSE /\ TrueDecision.human = TRUE
        BY <2>4
    <2>7. c.refusal = FALSE /\ c.human = TRUE
        BY <2>1
    <2> QED BY <2>1, <2>2, <2>3, <2>5, <2>6, <2>7 DEF Faithful
<1>6. CASE v = "conflict" /\ ~ (a.status = "clear" /\ a.owner # None)
    <2>1. c.proposal = None /\ c.refusal /\ c.human
        BY <1>2, <1>6 DEF DecisionConsistent
    <2>2. TrueDecision = [proposal |-> None, refusal |-> TRUE, human |-> TRUE]
        BY <1>1, <1>6 DEF Decision
    <2> QED BY <2>1, <2>2 DEF Faithful
<1> QED BY <1>3, <1>4, <1>5, <1>6

\* A case that passes, one damage or none away from the intact one, is true.
LEMMA PassesTruthful ==
    ASSUME WorldOK, NEW c, Near(c), Passes(c)
    PROVE  Truthful(c)
PROOF
<1>1. DecisionConsistent(c) /\ ProposalCites(c)
    BY DEF Passes
<1>2. CASE Deviating(c)
    <2>1. Executed(c)
        BY <1>2, PassesExecuted DEF Deviating
    <2>2. Faithful(c)
        BY <1>1, <1>2, <2>1, ConsistentFaithful DEF Deviating, DecisionNear
    <2> QED BY <1>1, <2>1, <2>2 DEF Truthful
<1>3. CASE Mislabelled(c)
    BY <1>1, <1>3 DEF Mislabelled, Truthful
<1> QED BY <1>2, <1>3 DEF Near

\* Executing the bindings gives the truth.
LEMMA ExecuteBound ==
    ASSUME WorldOK, NEW c, Bound(c)
    PROVE  /\ Bound(Execute(c)) /\ Executed(Execute(c))
           /\ \A f \in {"authority", "proposal", "refusal", "human", "status", "attempts"} :
                Execute(c)[f] = c[f]
           /\ Execute(c).hypotheses = Rule(c.hypotheses, TrueResults, EvidenceOf(TrueResults))
PROOF
<1> DEFINE rs == [d \in c.bindings |-> data[d]]
           ev == EvidenceOf(rs)
           e == [c EXCEPT !.results = rs, !.evidence = ev, !.verdict = VerdictOf(rs),
                          !.hypotheses = Rule(c.hypotheses, rs, ev)]
<1>1. rs = TrueResults
    BY TrueTyped DEF Bound
<1>2. Execute(c) = e
    BY DEF Execute
<1>3. /\ e.results = rs /\ e.evidence = ev /\ e.verdict = VerdictOf(rs)
      /\ e.hypotheses = Rule(c.hypotheses, rs, ev)
      /\ Shaped(e) /\ e.concept = c.concept /\ e.bindings = c.bindings
      /\ e.candidates = c.candidates
      /\ \A f \in {"authority", "proposal", "refusal", "human", "status", "attempts"} : e[f] = c[f]
    <2> HIDE DEF rs, ev
    <2> QED BY DEF Bound, Shaped, NewCase
<1> QED BY <1>1, <1>2, <1>3 DEF Bound, Executed

\* Ruling a pair leaves it a pair.
LEMMA RuledPaired ==
    ASSUME NEW hs, NEW rs, NEW ev, \A p \in DOMAIN hs : Cardinality(p) = 2
    PROVE  \A p \in DOMAIN Rule(hs, rs, ev) :
             /\ DOMAIN Rule(hs, rs, ev)[p] = {"ruling", "cites"}
             /\ Cardinality(DOMAIN Rule(hs, rs, ev)[p].cites) = 2
PROOF
<1>1. \A p \in DOMAIN hs : Rule(hs, rs, ev)[p] =
        [ruling |-> Ruling(rs, p), cites |-> [d \in p |-> ev[d].id]]
    BY DEF Rule
<1> QED BY <1>1 DEF Rule

\* Recomputing one missing output never makes an untrue case pass: neither one
\* that is about the definitions in force,
LEMMA DeviatingRecovered ==
    ASSUME WorldOK, NEW c, Deviating(c), RecoveryStage(c) # "none",
           NEW e, e = Recover(RecoveryStage(c), [c EXCEPT !.recovery = RecoveryStage(c)])
    PROVE  Bound(e) /\ DataNear(e) /\ (Passes(e) => Truthful(e))
PROOF
<1> DEFINE s == RecoveryStage(c)
           r == [c EXCEPT !.recovery = s]
<1>1. /\ Shaped(r)
      /\ \A f \in DOMAIN NewCase \ {"recovery"} : r[f] = c[f]
    BY DEF Deviating, Bound, Shaped, NewCase
<1>2. /\ Bound(r) /\ DataNear(r) /\ DecisionNear(r)
      /\ r.verdict \in {"conflict", "consistent", "incomplete"}
      /\ r.refusal \in BOOLEAN /\ r.human \in BOOLEAN
      /\ r.proposal # None => r.proposal.human \in BOOLEAN
      /\ r.verdict = c.verdict /\ r.proposal = c.proposal /\ r.refusal = c.refusal
      /\ r.authority = c.authority
    <2>1. /\ r.concept = c.concept /\ r.bindings = c.bindings /\ r.candidates = c.candidates
          /\ r.results = c.results /\ r.evidence = c.evidence /\ r.verdict = c.verdict
          /\ r.authority = c.authority /\ r.proposal = c.proposal /\ r.refusal = c.refusal
          /\ r.human = c.human
        BY <1>1 DEF NewCase
    <2> HIDE DEF r
    <2> QED BY <1>1, <2>1 DEF Deviating, Bound, DataNear, DecisionNear, Faithful
<1> HIDE DEF r
<1>3. CASE s = "execute_definitions"
    <2>1. e = Execute(r)
        BY <1>3 DEF Recover, r
    <2>2. Bound(e) /\ Executed(e)
        BY <1>2, <2>1, ExecuteBound
    <2>3. e.authority = r.authority /\ e.proposal = r.proposal /\ e.refusal = r.refusal
          /\ e.human = r.human
        BY <1>2, <2>1, ExecuteBound
    <2>4. Deviating(e)
        <3>1. DataNear(e)
            <4>1. EvidenceShaped(EvidenceOf(TrueResults))
                BY DEF EvidenceShaped, EvidenceOf
            <4> QED BY <2>2, <4>1 DEF DataNear, Executed
        <3>2. DecisionNear(e)
            BY <1>2, <2>2, <2>3 DEF DecisionNear, Executed, Faithful
        <3> QED BY <1>2, <2>2, <2>3, <3>1, <3>2, ConflictDecided DEF Deviating, Executed
    <2> QED BY <2>4, PassesTruthful DEF Near, Deviating
<1>4. CASE s = "rank_impact"
    <2>1. e = Rank(r)
        BY <1>4 DEF Recover, r
    <2>2. e = [r EXCEPT !.impact = Impact(r.concept, r.results)]
        BY <2>1 DEF Rank
    <2>3. /\ Shaped(e) /\ e.concept = r.concept /\ e.bindings = r.bindings
          /\ e.candidates = r.candidates /\ e.results = r.results /\ e.evidence = r.evidence
          /\ e.verdict = r.verdict /\ e.authority = r.authority /\ e.proposal = r.proposal
          /\ e.refusal = r.refusal /\ e.human = r.human
        BY <1>1, <2>2 DEF Shaped, NewCase
    <2>4. Deviating(e)
        BY <1>2, <2>3 DEF Deviating, Bound, DataNear, DecisionNear, Faithful
    <2> QED BY <2>4, PassesTruthful DEF Near, Deviating
<1>5. CASE s = "resolve_authority"
    <2>1. e = Authorize(r)
        BY <1>5 DEF Recover, r
    <2>2. e = [r EXCEPT !.authority = Authority(rules), !.context = TRUE]
        BY <2>1 DEF Authorize
    <2>3. /\ Shaped(e) /\ e.concept = r.concept /\ e.bindings = r.bindings
          /\ e.candidates = r.candidates /\ e.results = r.results /\ e.evidence = r.evidence
          /\ e.verdict = r.verdict /\ e.authority = Authority(rules) /\ e.proposal = r.proposal
          /\ e.refusal = r.refusal /\ e.human = r.human
        BY <1>1, <2>2 DEF Shaped, NewCase
    <2>4. Deviating(e)
        BY <1>2, <2>3 DEF Deviating, Bound, DataNear, DecisionNear
    <2> QED BY <2>4, PassesTruthful DEF Near, Deviating
<1>6. CASE s = "reconcile_or_refuse"
    <2>1. c.verdict = "conflict" /\ c.proposal = None /\ ~ c.refusal
        BY <1>6, Zenon DEF RecoveryStage
    <2>2. c.authority = Authority(rules)
        BY <2>1, ConflictDecided DEF Deviating, DecisionNear, Faithful
    <2> DEFINE d == Decision(r.concept, r.verdict, r.bindings, r.authority, r.evidence)
    <2>3. e = [r EXCEPT !.proposal = d.proposal, !.refusal = d.refusal, !.human = d.human]
        BY <1>6 DEF Recover, Decide, r
    <2>4. /\ Shaped(e) /\ e.concept = r.concept /\ e.bindings = r.bindings
          /\ e.candidates = r.candidates /\ e.results = r.results /\ e.evidence = r.evidence
          /\ e.verdict = r.verdict
          /\ e.proposal = d.proposal /\ e.refusal = d.refusal /\ e.human = d.human
        <3> HIDE DEF d
        <3> QED BY <1>1, <2>3 DEF Shaped, NewCase
    <2>5. Bound(e) /\ DataNear(e)
        BY <1>2, <2>4 DEF Bound, DataNear
    <2>6. ASSUME Passes(e)
          PROVE  Executed(e) /\ d = TrueDecision /\ DecisionConsistent(e)
        <3>1. Executed(e) /\ DecisionConsistent(e)
            BY <2>5, <2>6, PassesExecuted DEF Passes
        <3> QED BY <1>2, <2>2, <2>4, <3>1 DEF Executed, Bound, TrueDecision
    <2> QED BY <2>4, <2>5, <2>6 DEF Truthful, Faithful
<1>7. s \in {"execute_definitions", "rank_impact", "resolve_authority", "reconcile_or_refuse", "none"}
    BY Zenon DEF RecoveryStage
<1> QED BY <1>3, <1>4, <1>5, <1>6, <1>7

\* nor one whose concept, candidates or bindings are not the intact ones: no
\* recovered stage reads them.
LEMMA MislabelledRecovered ==
    ASSUME WorldOK, NEW c, Mislabelled(c), RecoveryStage(c) # "none",
           NEW e, e = Recover(RecoveryStage(c), [c EXCEPT !.recovery = RecoveryStage(c)])
    PROVE  Mislabelled(e)
PROOF
<1> DEFINE s == RecoveryStage(c)
           r == [c EXCEPT !.recovery = s]
           Read == {"candidates", "bindings", "results", "evidence", "verdict", "proposal",
                    "refusal", "human"}
<1>1. /\ Shaped(r)
      /\ \A f \in Read \cup {"authority"} : r[f] = c[f]
    BY DEF Mislabelled, Shaped, NewCase
<1> HIDE DEF r
<1>2. c.evidence # Empty
    <2>1. DOMAIN c.evidence # {}
        BY TrueTyped DEF Mislabelled, Executed, EvidenceOf
    <2> QED BY <2>1 DEF Empty
<1>3. ~ (c.verdict = "conflict" /\ c.proposal = None /\ ~ c.refusal)
    BY ConflictDecided DEF Mislabelled, Executed, Faithful
<1>4. s \in {"rank_impact", "resolve_authority"}
    BY <1>2, <1>3, Zenon DEF RecoveryStage
<1>5. CASE s = "rank_impact"
    <2>1. e = [r EXCEPT !.impact = Impact(r.concept, r.results)]
        BY <1>5 DEF Recover, Rank, r
    <2>2. /\ Shaped(e) /\ e.authority = r.authority /\ \A f \in Read : e[f] = r[f]
        BY <1>1, <2>1 DEF Shaped, NewCase
    <2> QED BY <1>1, <2>2 DEF Mislabelled, InRange, Executed, Faithful
<1>6. CASE s = "resolve_authority"
    <2>1. e = [r EXCEPT !.authority = Authority(rules), !.context = TRUE]
        BY <1>6 DEF Recover, Authorize, r
    <2>2. /\ Shaped(e) /\ e.authority = Authority(rules) /\ \A f \in Read : e[f] = r[f]
        BY <1>1, <2>1 DEF Shaped, NewCase
    <2> QED BY <1>1, <2>2 DEF Mislabelled, InRange, Executed, Faithful
<1> QED BY <1>4, <1>5, <1>6

LEMMA RecoveryTruthful ==
    ASSUME WorldOK, NEW c, Near(c), RecoveryStage(c) # "none",
           NEW e, e = Recover(RecoveryStage(c), [c EXCEPT !.recovery = RecoveryStage(c)])
    PROVE  Shaped(e) /\ InRange(e) /\ (Passes(e) => Truthful(e))
PROOF
<1>1. CASE Deviating(c)
    <2>1. Bound(e) /\ DataNear(e) /\ (Passes(e) => Truthful(e))
        BY <1>1, DeviatingRecovered
    <2> QED BY <2>1, BoundInRange DEF Bound
<1>2. CASE Mislabelled(c)
    <2>1. Mislabelled(e)
        BY <1>2, MislabelledRecovered
    <2> QED BY <2>1, PassesTruthful DEF Near, Mislabelled
<1> QED BY <1>1, <1>2 DEF Near

\* What one loss or one alteration leaves is near the intact case.
LEMMA DamageNear ==
    ASSUME WorldOK, NEW c, Intact(c), NEW x,
           \/ \E l \in Losses(c) : x = l[2]
           \/ x \in Alterations(c)
    PROVE  /\ Near(x) /\ Paired(x)
           /\ x.status = c.status /\ x.attempts = c.attempts
PROOF
<1> DEFINE Fields == DOMAIN NewCase
           Keeps(f) == \A g \in Fields \ f : x[g] = c[g]
           Good == /\ Near(x) /\ Paired(x)
                   /\ x.status = c.status /\ x.attempts = c.attempts
<1>t. /\ EvidenceShaped(c.evidence) /\ ResultsShaped(c.results)
      /\ c.verdict \in {"conflict", "consistent"}
      /\ c.refusal \in BOOLEAN /\ c.human \in BOOLEAN
      /\ c.proposal # None => c.proposal.human \in BOOLEAN
      /\ EvidenceShaped(Empty)
      /\ c.results = TrueResults /\ c.evidence = EvidenceOf(TrueResults)
    <2>1. EvidenceShaped(EvidenceOf(TrueResults)) /\ EvidenceShaped(Empty)
        BY DEF EvidenceShaped, EvidenceOf, Empty
    <2>2. ResultsShaped(TrueResults)
        BY TrueTyped, PipelineAssumption DEF ResultsShaped
    <2> QED BY <2>1, <2>2, ConflictDecided DEF Intact, Executed, Decided
<1>f. Fields = {"concept", "candidates", "bindings", "governed", "hypotheses", "results",
                "evidence", "verdict", "impact", "authority", "context", "proposal", "refusal",
                "human", "passed", "attempts", "recovery", "status"}
    BY DEF NewCase
<1>s. Shaped(c) /\ DOMAIN c = Fields
    BY DEF Intact, Bound, Shaped
<1>k. Paired(c) /\ Faithful(c) /\ InRange(c)
    <2>1. Faithful(c)
        BY DEF Intact, Decided, Faithful
    <2> QED BY <1>t, <2>1, BoundInRange DEF Intact, DataNear
\* By what may differ.
<1>1. ASSUME Shaped(x), Keeps({"evidence", "results"}), DataNear(x)
      PROVE  Good
    <2>1. /\ x.concept = c.concept /\ x.bindings = c.bindings /\ x.candidates = c.candidates
          /\ x.status = c.status /\ x.attempts = c.attempts
          /\ x.hypotheses = c.hypotheses /\ x.verdict = c.verdict /\ x.authority = c.authority
          /\ x.proposal = c.proposal /\ x.refusal = c.refusal /\ x.human = c.human
        BY <1>1, <1>f
    <2> QED BY <1>1, <1>t, <2>1 DEF Near, Deviating, Intact, Bound, DecisionNear, Paired
<1>2. ASSUME Shaped(x), Keeps({"governed", "impact", "context", "authority"})
      PROVE  Good
    <2>1. /\ x.concept = c.concept /\ x.bindings = c.bindings /\ x.candidates = c.candidates
          /\ x.status = c.status /\ x.attempts = c.attempts
          /\ x.hypotheses = c.hypotheses /\ x.verdict = c.verdict
          /\ x.results = c.results /\ x.evidence = c.evidence
          /\ x.proposal = c.proposal /\ x.refusal = c.refusal /\ x.human = c.human
        BY <1>2, <1>f
    <2> QED BY <1>2, <1>t, <1>k, <2>1
            DEF Near, Deviating, Intact, Bound, DataNear, DecisionNear, Faithful, Executed, Paired
<1>3. ASSUME Shaped(x), Keeps({"hypotheses", "proposal", "refusal", "human", "verdict"}),
             Paired(x), x.proposal # None => x.proposal.human \in BOOLEAN,
             x.refusal \in BOOLEAN, x.human \in BOOLEAN,
             x.verdict \in {"conflict", "consistent", "incomplete"}
      PROVE  Good
    <2>1. /\ x.concept = c.concept /\ x.bindings = c.bindings /\ x.candidates = c.candidates
          /\ x.status = c.status /\ x.attempts = c.attempts
          /\ x.authority = c.authority
          /\ x.results = c.results /\ x.evidence = c.evidence
        BY <1>3, <1>f
    <2> QED BY <1>3, <1>t, <2>1 DEF Near, Deviating, Intact, Bound, DataNear, DecisionNear
<1>4. ASSUME Shaped(x), Keeps({"concept", "candidates", "bindings"}),
             x.candidates \cup x.bindings \subseteq Definitions[concept]
      PROVE  Good
    <2>1. /\ x.status = c.status /\ x.attempts = c.attempts
          /\ x.hypotheses = c.hypotheses /\ x.verdict = c.verdict
          /\ x.results = c.results /\ x.evidence = c.evidence /\ x.authority = c.authority
          /\ x.proposal = c.proposal /\ x.refusal = c.refusal /\ x.human = c.human
        BY <1>4, <1>f
    <2> QED BY <1>4, <1>k, <2>1 DEF Near, Mislabelled, InRange, Intact, Executed, Faithful, Paired
\* The losses.
<1>5. ASSUME NEW l \in Losses(c), x = l[2]
      PROVE  Good
    <2>1. CASE x \in {[c EXCEPT !.evidence = Empty], [c EXCEPT !.results = Empty, !.evidence = Empty]}
        <3>1. /\ Shaped(x) /\ Keeps({"evidence", "results"}) /\ x.evidence = Empty
              /\ x.results = c.results \/ x.results = Empty
            BY <1>s, <1>f, <2>1 DEF Shaped
        <3> QED BY <1>1, <1>t, <3>1 DEF DataNear
    <2>2. CASE x \in {[c EXCEPT !.impact = None], [c EXCEPT !.authority = None],
                      [c EXCEPT !.context = FALSE]}
        <3>1. Shaped(x) /\ Keeps({"governed", "impact", "context", "authority"})
            BY <1>s, <1>f, <2>2 DEF Shaped
        <3> QED BY <1>2, <3>1
    <2>3. CASE x = [c EXCEPT !.proposal = None, !.refusal = FALSE]
        <3>1. /\ Shaped(x) /\ Keeps({"proposal", "refusal"})
              /\ x.hypotheses = c.hypotheses /\ x.verdict = c.verdict /\ x.human = c.human
              /\ x.proposal = None /\ x.refusal = FALSE
            BY <1>s, <1>f, <2>3 DEF Shaped
        <3> QED BY <1>3, <1>t, <1>k, <3>1 DEF Paired
    <2> QED BY <1>5, <2>1, <2>2, <2>3 DEF Losses
\* What the case is about.
<1>6. ASSUME x \in AlteredSubject(c)
      PROVE  Good
    <2>1. CASE \E k \in Concepts \cup {None} : x = [c EXCEPT !.concept = k]
        <3>1. /\ Shaped(x) /\ Keeps({"concept"})
              /\ x.candidates = c.candidates /\ x.bindings = c.bindings
            BY <1>s, <1>f, <2>1 DEF Shaped
        <3> QED BY <1>4, <1>k, <3>1 DEF InRange
    <2>2. CASE \E g \in Definitions[concept] \cup {None} : x = [c EXCEPT !.governed = g]
        <3>1. Shaped(x) /\ Keeps({"governed", "impact", "context", "authority"})
            BY <1>s, <1>f, <2>2 DEF Shaped
        <3> QED BY <1>2, <3>1
    <2>3. CASE \E ds \in SUBSET Definitions[concept] :
                  x \in {[c EXCEPT !.candidates = ds], [c EXCEPT !.bindings = ds]}
        <3>1. PICK ds \in SUBSET Definitions[concept] :
                  x \in {[c EXCEPT !.candidates = ds], [c EXCEPT !.bindings = ds]}
            BY <2>3
        <3>2. /\ Shaped(x) /\ Keeps({"concept", "candidates", "bindings"})
              /\ x.candidates \in {c.candidates, ds} /\ x.bindings \in {c.bindings, ds}
            BY <1>s, <1>f, <3>1 DEF Shaped
        <3> QED BY <1>4, <1>k, <3>2 DEF InRange
    <2> QED BY <1>6, <2>1, <2>2, <2>3 DEF AlteredSubject
\* What was found.
<1>7. ASSUME x \in AlteredData(c)
      PROVE  Good
    <2> DEFINE Edits(v) == {[v EXCEPT !.id = 0], [v EXCEPT !.sql = FALSE], [v EXCEPT !.ids = {}],
                            [v EXCEPT !.total = @ + 1]}
    <2>1. CASE \E d \in DOMAIN c.evidence :
                 x \in {[c EXCEPT !.evidence[d].id = 0], [c EXCEPT !.evidence[d].sql = FALSE],
                        [c EXCEPT !.evidence[d].ids = {}], [c EXCEPT !.evidence[d].total = @ + 1]}
        <3>1. PICK d \in DOMAIN c.evidence :
                 x \in {[c EXCEPT !.evidence[d].id = 0], [c EXCEPT !.evidence[d].sql = FALSE],
                        [c EXCEPT !.evidence[d].ids = {}], [c EXCEPT !.evidence[d].total = @ + 1]}
            BY <2>1
        <3>2. /\ Shaped(x) /\ Keeps({"evidence"})
              /\ x.evidence \in {[c.evidence EXCEPT ![d].id = 0], [c.evidence EXCEPT ![d].sql = FALSE],
                                 [c.evidence EXCEPT ![d].ids = {}],
                                 [c.evidence EXCEPT ![d].total = @ + 1]}
            BY <1>s, <1>f, <3>1 DEF Shaped
        <3>3. EvidenceShaped(x.evidence)
            <4> DEFINE v == c.evidence[d]
                       Item(w) == /\ w = [id |-> w.id, sql |-> w.sql, ids |-> w.ids, total |-> w.total]
                                  /\ w.sql \in BOOLEAN
            <4>1. Item(v)
                BY <1>t, <3>1 DEF EvidenceShaped
            <4>2. PICK w \in Edits(v) : x.evidence = [c.evidence EXCEPT ![d] = w]
                BY <3>2
            <4>3. Item(w)
                <5> HIDE DEF v
                <5> QED BY <4>1, <4>2
            <4> HIDE DEF v, Edits
            <4> QED BY <1>t, <3>1, <4>2, <4>3 DEF EvidenceShaped
        <3> QED BY <1>1, <1>f, <1>t, <3>2, <3>3 DEF DataNear
    <2>2. CASE \E d \in DOMAIN c.evidence : x = [c EXCEPT !.evidence = Without(@, d)]
        <3>1. PICK d \in DOMAIN c.evidence : x = [c EXCEPT !.evidence = Without(@, d)]
            BY <2>2
        <3>2. /\ Shaped(x) /\ Keeps({"evidence"}) /\ x.evidence = Without(c.evidence, d)
            BY <1>s, <1>f, <3>1 DEF Shaped
        <3>3. EvidenceShaped(x.evidence)
            BY <1>t, <3>2 DEF EvidenceShaped, Without
        <3> QED BY <1>1, <1>f, <1>t, <3>2, <3>3 DEF DataNear
    <2>3. CASE \E d \in DOMAIN c.results : \E r \in Results : x = [c EXCEPT !.results[d] = r]
        <3>1. PICK d \in DOMAIN c.results, r \in Results : x = [c EXCEPT !.results[d] = r]
            BY <2>3
        <3>2. /\ Shaped(x) /\ Keeps({"results"}) /\ x.results = [c.results EXCEPT ![d] = r]
            BY <1>s, <1>f, <3>1 DEF Shaped
        <3>3. ResultsShaped(x.results)
            BY <1>t, <3>2, PipelineAssumption DEF ResultsShaped
        <3> QED BY <1>1, <1>f, <1>t, <3>2, <3>3 DEF DataNear
    <2>4. CASE \E d \in DOMAIN c.results : x = [c EXCEPT !.results = Without(@, d)]
        <3>1. PICK d \in DOMAIN c.results : x = [c EXCEPT !.results = Without(@, d)]
            BY <2>4
        <3>2. /\ Shaped(x) /\ Keeps({"results"}) /\ x.results = Without(c.results, d)
            BY <1>s, <1>f, <3>1 DEF Shaped
        <3>3. ResultsShaped(x.results)
            BY <1>t, <3>2 DEF ResultsShaped, Without
        <3> QED BY <1>1, <1>f, <1>t, <3>2, <3>3 DEF DataNear
    <2> QED BY <1>7, <2>1, <2>2, <2>3, <2>4 DEF AlteredData
\* What was made of it.
<1>8. ASSUME x \in AlteredRulings(c)
      PROVE  Good
    <2>1. CASE \/ \E p \in DOMAIN c.hypotheses :
                    x \in {[c EXCEPT !.hypotheses[p].ruling = Other(@)],
                           [c EXCEPT !.hypotheses[p].cites = [d \in DOMAIN @ |-> 0]],
                           [c EXCEPT !.hypotheses = Without(@, p)]}
               \/ x = [c EXCEPT !.hypotheses = Empty]
        <3>1. /\ Shaped(x) /\ Keeps({"hypotheses"})
              /\ x.verdict = c.verdict /\ x.proposal = c.proposal
              /\ x.refusal = c.refusal /\ x.human = c.human
              /\ \/ x.hypotheses = Empty
                 \/ \E p \in DOMAIN c.hypotheses :
                      x.hypotheses \in {[c.hypotheses EXCEPT ![p].ruling = Other(@)],
                                        [c.hypotheses EXCEPT ![p].cites = [d \in DOMAIN @ |-> 0]],
                                        Without(c.hypotheses, p)}
            BY <1>s, <1>f, <2>1 DEF Shaped
        <3>2. Paired(x)
            BY <1>k, <3>1 DEF Paired, Empty, Without
        <3> QED BY <1>3, <1>t, <3>1, <3>2
    <2>2. CASE \E v \in {"conflict", "consistent", "incomplete"} : x = [c EXCEPT !.verdict = v]
        <3>1. /\ Shaped(x) /\ Keeps({"verdict"})
              /\ x.hypotheses = c.hypotheses /\ x.proposal = c.proposal
              /\ x.refusal = c.refusal /\ x.human = c.human
              /\ x.verdict \in {"conflict", "consistent", "incomplete"}
            BY <1>s, <1>f, <2>2 DEF Shaped
        <3> QED BY <1>3, <1>t, <1>k, <3>1 DEF Paired
    <2>3. CASE \E i : x = [c EXCEPT !.impact = i]
        <3>1. Shaped(x) /\ Keeps({"governed", "impact", "context", "authority"})
            BY <1>s, <1>f, <2>3 DEF Shaped
        <3> QED BY <1>2, <3>1
    <2> QED BY <1>8, <2>1, <2>2, <2>3 DEF AlteredRulings
\* What was decided.
<1>9. ASSUME x \in AlteredDecision(c)
      PROVE  Good
    <2>1. CASE \E a : x = [c EXCEPT !.authority = a]
        <3>1. Shaped(x) /\ Keeps({"governed", "impact", "context", "authority"})
            BY <1>s, <1>f, <2>1 DEF Shaped
        <3> QED BY <1>2, <3>1
    <2>2. CASE \E p : p.human \in BOOLEAN /\ x = [c EXCEPT !.proposal = p]
        <3>1. /\ Shaped(x) /\ Keeps({"proposal"}) /\ x.proposal.human \in BOOLEAN
              /\ x.hypotheses = c.hypotheses /\ x.verdict = c.verdict
              /\ x.refusal = c.refusal /\ x.human = c.human
            BY <1>s, <1>f, <2>2 DEF Shaped
        <3> QED BY <1>3, <1>t, <1>k, <3>1 DEF Paired
    <2>3. CASE x \in {[c EXCEPT !.human = ~ @], [c EXCEPT !.refusal = ~ @]}
        <3>1. /\ Shaped(x) /\ Keeps({"refusal", "human"})
              /\ x.hypotheses = c.hypotheses /\ x.verdict = c.verdict /\ x.proposal = c.proposal
              /\ x.refusal \in {c.refusal, ~ c.refusal} /\ x.human \in {c.human, ~ c.human}
            BY <1>s, <1>f, <2>3 DEF Shaped
        <3> QED BY <1>3, <1>t, <1>k, <3>1 DEF Paired
    <2> QED BY <1>9, <2>1, <2>2, <2>3 DEF AlteredDecision
<1> QED BY <1>5, <1>6, <1>7, <1>8, <1>9 DEF Alterations

-----------------------------------------------------------------------------
\* The stages.

\* The order of the stages.
LEMMA StagesInOrder ==
    /\ After("resolve_concept") = "inspect_bindings"
    /\ After("inspect_bindings") = "hypothesize"
    /\ After("hypothesize") = "execute"
    /\ After("execute") = "rank_impact"
    /\ After("rank_impact") = "resolve_authority"
    /\ After("resolve_authority") = "decide"
    /\ After("decide") = "verify"
    /\ After("verify") = "audit"
    /\ {Stages[i] : i \in 1..Len(Stages)} =
         {"resolve_concept", "inspect_bindings", "hypothesize", "execute", "rank_impact",
          "resolve_authority", "decide", "verify", "audit"}
    /\ {Specialists[i] : i \in 1..Len(Specialists)} = {Stages[i] : i \in 1..Len(Stages)}
PROOF
<1>0. Specialists = Stages
    BY DEF Specialists, Stages
<1>1. /\ Len(Stages) = 9
      /\ Stages[1] = "resolve_concept" /\ Stages[2] = "inspect_bindings"
      /\ Stages[3] = "hypothesize" /\ Stages[4] = "execute" /\ Stages[5] = "rank_impact"
      /\ Stages[6] = "resolve_authority" /\ Stages[7] = "decide" /\ Stages[8] = "verify"
      /\ Stages[9] = "audit"
    BY DEF Stages
<1>2. 1..Len(Stages) = {1, 2, 3, 4, 5, 6, 7, 8, 9}
    BY <1>1
<1>3. \A i, j \in 1..Len(Stages) : Stages[i] = Stages[j] => i = j
    BY <1>1, <1>2
<1>4. \A k \in 1..8 : After(Stages[k]) = Stages[k + 1]
    <2> TAKE k \in 1..8
    <2>1. k \in 1..Len(Stages)
        BY <1>1
    <2>2. (CHOOSE i \in 1..Len(Stages) : Stages[i] = Stages[k]) = k
        BY <1>3, <2>1
    <2>3. After(Stages[k]) = Stages[(CHOOSE i \in 1..Len(Stages) : Stages[i] = Stages[k]) + 1]
        BY <1>0, Zenon DEF After
    <2> QED BY <2>2, <2>3
<1>5. /\ After(Stages[1]) = Stages[2] /\ After(Stages[2]) = Stages[3]
      /\ After(Stages[3]) = Stages[4] /\ After(Stages[4]) = Stages[5]
      /\ After(Stages[5]) = Stages[6] /\ After(Stages[6]) = Stages[7]
      /\ After(Stages[7]) = Stages[8] /\ After(Stages[8]) = Stages[9]
    BY <1>4
<1>6. {Stages[i] : i \in 1..Len(Stages)} =
         {"resolve_concept", "inspect_bindings", "hypothesize", "execute", "rank_impact",
          "resolve_authority", "decide", "verify", "audit"}
    BY <1>1, <1>2
<1> QED BY <1>0, <1>1, <1>5, <1>6

\* The inputs of a case stay what they are.
LEMMA WorldSteady ==
    ASSUME UNCHANGED world
    PROVE  /\ mode' = mode /\ concept' = concept /\ data' = data /\ rules' = rules
           /\ canonical' = canonical /\ local' = local
           /\ TrueResults' = TrueResults /\ TrueDecision' = TrueDecision
PROOF
<1>1. /\ mode' = mode /\ concept' = concept /\ data' = data /\ rules' = rules
      /\ canonical' = canonical /\ local' = local
    BY DEF world
<1>2. TrueResults' = TrueResults
    BY <1>1 DEF TrueResults, Governing
<1> QED BY <1>1, <1>2 DEF TrueDecision

\* A step that ends the request, or leaves a case that the next stage expects,
\* keeps the invariant.
LEMMA StepKeeps ==
    ASSUME PipelineInv, UNCHANGED <<world, saved>>, pc # "done",
           Shaped(case'), TypedCase(case'),
           \/ pc' = "done" /\ ended' \in Outcomes
           \/ /\ pc' \in {Stages[i] : i \in 1..Len(Stages)} /\ ended' = ended
              /\ Found(pc', case') /\ damage' = damage
           \/ pc' = "verify" /\ ended' = ended /\ damage' # "none"
              /\ Near(case') /\ Paired(case')
    PROVE  PipelineInv'
PROOF
<1>1. /\ mode' = mode /\ concept' = concept /\ data' = data /\ rules' = rules
      /\ canonical' = canonical /\ local' = local /\ saved' = saved
      /\ TrueResults' = TrueResults /\ TrueDecision' = TrueDecision
    BY WorldSteady
<1>2. WorldOK'
    BY <1>1 DEF WorldOK, PipelineInv
<1>3. saved' = {} /\ ended = "no"
    BY <1>1 DEF PipelineInv, Unfinished
<1>4. TypeOK' /\ Shaped(case)' /\ Unfinished'
    BY <1>1, <1>3, StagesInOrder
       DEF TypeOK, TypedCase, InRange, Shaped, Unfinished, Outcomes, PipelineInv
<1>5. Found(pc, case)'
    <2>1. CASE pc' = "done"
        BY <2>1 DEF Found
    <2>2. CASE Found(pc', case') /\ damage' = damage
        BY <1>1, <2>2
           DEF Found, Bound, Shaped, Executed, Paired, Near, Deviating, Mislabelled, InRange,
               DataNear, DecisionNear, Decided, Faithful, Intact, Truthful, EvidenceShaped,
               ResultsShaped
    <2>3. CASE pc' = "verify" /\ damage' # "none" /\ Near(case') /\ Paired(case')
        BY <1>1, <2>3
           DEF Found, Bound, Shaped, Executed, Paired, Near, Deviating, Mislabelled, InRange,
               DataNear, DecisionNear, Faithful, EvidenceShaped, ResultsShaped
    <2> QED BY <2>1, <2>2, <2>3
<1> QED BY <1>2, <1>3, <1>4, <1>5 DEF PipelineInv, SavedIsReturned

\* A stage that leaves such a case.
LEMMA LeavesKeeps ==
    ASSUME PipelineInv, NEW stage, pc = stage, NEW c, Leaves(stage, c),
           Shaped(c), TypedCase(c), Found(After(stage), c),
           After(stage) \in {Stages[i] : i \in 1..Len(Stages)}, stage # "done"
    PROVE  PipelineInv'
PROOF
<1>1. /\ case' = c /\ UNCHANGED <<world, damage, saved>>
      /\ \/ ended' = "rejected" /\ pc' = "done"
         \/ pc' = After(stage) /\ ended' = ended
    BY DEF Leaves, End
<1>2. "rejected" \in Outcomes
    BY DEF Outcomes
<1> QED BY <1>1, <1>2, StepKeeps

\* The stages before the verifier.
LEMMA EarlyStep ==
    ASSUME PipelineInv,
           ResolveConcept \/ InspectBindings \/ HypothesizeConflicts \/ ExecuteDefinitions
           \/ RankImpact \/ ResolveAuthority \/ ReconcileOrRefuse
    PROVE  PipelineInv'
PROOF
<1>i. /\ WorldOK /\ Shaped(case) /\ Found(pc, case) /\ TypedCase(case)
      /\ concept \in Concepts
    BY DEF PipelineInv, TypeOK, TypedCase, InRange, WorldOK
<1>s. {Stages[i] : i \in 1..Len(Stages)} =
         {"resolve_concept", "inspect_bindings", "hypothesize", "execute", "rank_impact",
          "resolve_authority", "decide", "verify", "audit"}
    BY StagesInOrder
<1>1. CASE ResolveConcept
    <2>1. CASE concept \in Supported
        <3> DEFINE c == [case EXCEPT !.concept = concept, !.candidates = Definitions[concept]]
        <3>1. Leaves("resolve_concept", c) /\ pc = "resolve_concept"
            BY <1>1, <2>1 DEF ResolveConcept
        <3>2. case = NewCase
            BY <1>i, <3>1 DEF Found
        <3>3. /\ Shaped(c) /\ c.concept = concept /\ c.candidates = Definitions[concept]
              /\ c.results = Empty /\ c.evidence = Empty
            BY <3>2 DEF Shaped, NewCase
        <3>4. TypedCase(c)
            <4>1. /\ c.bindings = {} /\ c.results = Empty /\ c.evidence = Empty
                  /\ c.verdict = "incomplete" /\ c.status = "pending" /\ c.attempts = 0
                BY <3>2 DEF NewCase
            <4> QED BY <3>3, <4>1 DEF TypedCase, InRange, Empty
        <3>5. Found("inspect_bindings", c)
            BY <3>3 DEF Found
        <3> HIDE DEF c
        <3> QED BY <1>s, <3>1, <3>3, <3>4, <3>5, StagesInOrder, LeavesKeeps
    <2>2. CASE concept \notin Supported
        <3>1. UNCHANGED <<world, saved>> /\ case' = case /\ pc' = "done" /\ ended' = "unsupported"
            BY <1>1, <2>2 DEF ResolveConcept, End
        <3>2. pc # "done" /\ "unsupported" \in Outcomes
            BY <1>1 DEF ResolveConcept, Outcomes
        <3>3. Shaped(case') /\ TypedCase(case')
            BY <1>i, <3>1, WorldSteady DEF Shaped, TypedCase, InRange
        <3> QED BY <3>1, <3>2, <3>3, StepKeeps
    <2> QED BY <2>1, <2>2
<1>2. CASE InspectBindings
    <2> DEFINE c == Bind(case)
    <2>1. pc = "inspect_bindings" /\ Leaves("inspect_bindings", c)
        BY <1>2 DEF InspectBindings
    <2>2. Shaped(case) /\ case.concept = concept /\ case.candidates = Definitions[concept]
        BY <1>i, <2>1 DEF Found
    <2>3. /\ Shaped(c) /\ c.concept = concept
          /\ c.bindings = DOMAIN TrueResults /\ c.candidates = DOMAIN TrueResults
          /\ c.results = case.results /\ c.evidence = case.evidence
          /\ c.verdict = case.verdict /\ c.status = case.status /\ c.attempts = case.attempts
        <3>1. CASE canonical = None \/ ~ local
            <4>1. DOMAIN TrueResults = Definitions[concept]
                BY <1>i, <3>1, TrueTyped
            <4>2. c = [case EXCEPT !.bindings = Definitions[concept]]
                BY <3>1 DEF Bind
            <4> QED BY <2>2, <4>1, <4>2 DEF Shaped, NewCase
        <3>2. CASE canonical # None /\ local
            <4>1. DOMAIN TrueResults = {canonical}
                BY <1>i, <3>2, TrueTyped
            <4>2. c = [case EXCEPT !.bindings = {canonical}, !.candidates = {canonical},
                                   !.governed = canonical]
                BY <3>2 DEF Bind
            <4> QED BY <2>2, <4>1, <4>2 DEF Shaped, NewCase
        <3> QED BY <1>i, <3>1, <3>2 DEF WorldOK
    <2>4. Bound(c) /\ Found("hypothesize", c)
        BY <2>3 DEF Found, Bound
    <2>5. TypedCase(c)
        <3>1. case.results = Empty /\ case.evidence = Empty
            BY <1>i, <2>1 DEF Found
        <3> QED BY <1>i, <2>3, <3>1, TrueTyped DEF TypedCase, InRange, Empty
    <2> HIDE DEF c
    <2> QED BY <1>s, <2>1, <2>4, <2>5, StagesInOrder, LeavesKeeps DEF Bound
<1>3. CASE HypothesizeConflicts
    <2> DEFINE hs == [p \in Pairs(case.bindings) |-> [ruling |-> "open", cites |-> Empty]]
               c  == [case EXCEPT !.hypotheses = hs]
    <2>1. pc = "hypothesize" /\ Leaves("hypothesize", c)
        BY <1>3 DEF HypothesizeConflicts
    <2>2. Bound(case)
        BY <1>i, <2>1 DEF Found
    <2>3. /\ Shaped(c) /\ c.concept = case.concept /\ c.hypotheses = hs
          /\ c.bindings = case.bindings /\ c.candidates = case.candidates
          /\ c.results = case.results /\ c.evidence = case.evidence
          /\ c.verdict = case.verdict /\ c.status = case.status /\ c.attempts = case.attempts
        <3> HIDE DEF hs
        <3> QED BY <1>i DEF Shaped, NewCase
    <2>4. Bound(c) /\ TypedCase(c)
        BY <1>i, <2>2, <2>3 DEF Bound, TypedCase, InRange
    <2>5. Found("execute", c)
        BY <2>3, <2>4 DEF Found
    <2> HIDE DEF c, hs
    <2> QED BY <1>s, <2>1, <2>3, <2>4, <2>5, StagesInOrder, LeavesKeeps
<1>4. CASE ExecuteDefinitions
    <2> DEFINE c == Execute(case)
    <2>1. pc = "execute" /\ Leaves("execute", c)
        BY <1>4 DEF ExecuteDefinitions
    <2>2. /\ Bound(case)
          /\ case.hypotheses = [p \in Pairs(case.bindings) |-> [ruling |-> "open", cites |-> Empty]]
        BY <1>i, <2>1 DEF Found
    <2>3. Bound(c) /\ Executed(c)
          /\ c.hypotheses = Rule(case.hypotheses, TrueResults, EvidenceOf(TrueResults))
          /\ c.status = case.status /\ c.attempts = case.attempts
        BY <1>i, <2>2, ExecuteBound
    <2>4. Paired(c)
        <3>1. \A p \in DOMAIN case.hypotheses : Cardinality(p) = 2
            BY <2>2 DEF Pairs
        <3> QED BY <2>3, <3>1, RuledPaired DEF Paired
    <2>5. TypedCase(c)
        <3>1. DOMAIN EvidenceOf(TrueResults) = DOMAIN TrueResults
            BY DEF EvidenceOf
        <3> QED BY <1>i, <2>3, <3>1, TrueTyped, ConflictDecided DEF TypedCase, InRange, Bound, Executed
    <2>6. Found("rank_impact", c)
        BY <2>3, <2>4 DEF Found
    <2> HIDE DEF c
    <2> QED BY <1>s, <2>1, <2>3, <2>5, <2>6, StagesInOrder, LeavesKeeps DEF Bound
<1>5. CASE RankImpact
    <2> DEFINE i == Impact(case.concept, case.results)
               c == [case EXCEPT !.impact = i]
    <2>1. pc = "rank_impact" /\ Leaves("rank_impact", c)
        BY <1>5 DEF RankImpact, Rank
    <2>2. Bound(case) /\ Executed(case) /\ Paired(case)
        BY <1>i, <2>1 DEF Found
    <2>3. /\ Shaped(c) /\ c.concept = case.concept /\ c.hypotheses = case.hypotheses
          /\ c.bindings = case.bindings /\ c.candidates = case.candidates
          /\ c.results = case.results /\ c.evidence = case.evidence
          /\ c.verdict = case.verdict /\ c.status = case.status /\ c.attempts = case.attempts
        <3> HIDE DEF i
        <3> QED BY <1>i DEF Shaped, NewCase
    <2>4. Bound(c) /\ TypedCase(c) /\ Executed(c) /\ Paired(c)
        BY <1>i, <2>2, <2>3 DEF Bound, TypedCase, InRange, Executed, Paired
    <2>5. Found("resolve_authority", c)
        BY <2>4 DEF Found
    <2> HIDE DEF c, i
    <2> QED BY <1>s, <2>1, <2>3, <2>4, <2>5, StagesInOrder, LeavesKeeps
<1>6. CASE ResolveAuthority
    <2> DEFINE c == [case EXCEPT !.authority = Authority(rules), !.context = TRUE]
    <2>1. pc = "resolve_authority" /\ Leaves("resolve_authority", c)
        BY <1>6 DEF ResolveAuthority, Authorize
    <2>2. Bound(case) /\ Executed(case) /\ Paired(case)
        BY <1>i, <2>1 DEF Found
    <2>3. /\ Shaped(c) /\ c.concept = case.concept /\ c.hypotheses = case.hypotheses
          /\ c.bindings = case.bindings /\ c.candidates = case.candidates
          /\ c.results = case.results /\ c.evidence = case.evidence
          /\ c.verdict = case.verdict /\ c.status = case.status /\ c.attempts = case.attempts
          /\ c.authority = Authority(rules)
        BY <1>i DEF Shaped, NewCase
    <2>4. Bound(c) /\ TypedCase(c) /\ Executed(c) /\ Paired(c)
        BY <1>i, <2>2, <2>3 DEF Bound, TypedCase, InRange, Executed, Paired
    <2>5. Found("decide", c)
        BY <2>3, <2>4 DEF Found
    <2> HIDE DEF c
    <2> QED BY <1>s, <2>1, <2>3, <2>4, <2>5, StagesInOrder, LeavesKeeps
<1>7. CASE ReconcileOrRefuse
    <2> DEFINE d == Decision(case.concept, case.verdict, case.bindings, case.authority, case.evidence)
               c == [case EXCEPT !.proposal = d.proposal, !.refusal = d.refusal, !.human = d.human]
    <2>1. pc = "decide" /\ Leaves("decide", c)
        BY <1>7 DEF ReconcileOrRefuse, Decide
    <2>2. Bound(case) /\ Executed(case) /\ Paired(case) /\ case.authority = Authority(rules)
        BY <1>i, <2>1 DEF Found
    <2>3. /\ Shaped(c) /\ c.concept = case.concept /\ c.hypotheses = case.hypotheses
          /\ c.bindings = case.bindings /\ c.candidates = case.candidates
          /\ c.results = case.results /\ c.evidence = case.evidence
          /\ c.verdict = case.verdict /\ c.status = case.status /\ c.attempts = case.attempts
          /\ c.authority = case.authority
          /\ c.proposal = d.proposal /\ c.refusal = d.refusal /\ c.human = d.human
        <3> HIDE DEF d
        <3> QED BY <1>i DEF Shaped, NewCase
    <2>4. Bound(c) /\ TypedCase(c) /\ Executed(c) /\ Paired(c)
        BY <1>i, <2>2, <2>3 DEF Bound, TypedCase, InRange, Executed, Paired
    <2>5. d = TrueDecision
        BY <2>2 DEF Bound, Executed, TrueDecision
    <2>6. Intact(c)
        BY <2>2, <2>3, <2>4, <2>5 DEF Intact, Decided
    <2>7. Near(c)
        <3>1. EvidenceShaped(EvidenceOf(TrueResults))
            BY DEF EvidenceShaped, EvidenceOf
        <3>2. DataNear(c) /\ DecisionNear(c)
            BY <2>6, <3>1 DEF DataNear, DecisionNear, Intact, Executed
        <3> QED BY <1>i, <2>6, <3>2, ConflictDecided DEF Near, Deviating, Intact, Executed, Decided
    <2>8. Found("verify", c)
        BY <2>4, <2>6, <2>7 DEF Found
    <2> HIDE DEF c, d
    <2> QED BY <1>s, <2>1, <2>3, <2>4, <2>8, StagesInOrder, LeavesKeeps
<1> QED BY <1>1, <1>2, <1>3, <1>4, <1>5, <1>6, <1>7

\* What the verifier writes into a case.
LEMMA Finalized ==
    ASSUME WorldOK, NEW c, Shaped(c), InRange(c), NEW n, n \in 1..2
    PROVE  /\ Shaped(Finalize(c, n)) /\ TypedCase(Finalize(c, n))
           /\ \A f \in DOMAIN NewCase \ {"passed", "attempts", "status", "verdict"} :
                Finalize(c, n)[f] = c[f]
           /\ Finalize(c, n).passed <=> Passes(c)
           /\ Passes(c) => Finalize(c, n).verdict = c.verdict
PROOF
<1> DEFINE e == Finalize(c, n)
           Fields == DOMAIN NewCase
<1>f. Fields = {"concept", "candidates", "bindings", "governed", "hypotheses", "results",
                "evidence", "verdict", "impact", "authority", "context", "proposal", "refusal",
                "human", "passed", "attempts", "recovery", "status"}
    BY DEF NewCase
<1>1. /\ DOMAIN e = Fields
      /\ \A f \in Fields \ {"passed", "attempts", "status", "verdict"} : e[f] = c[f]
      /\ e.attempts = n /\ e.status \in {"passed", "blocked", "needs_review"}
      /\ e.passed <=> Passes(c)
      /\ e.verdict = IF Passes(c) THEN c.verdict ELSE "incomplete"
    <2>1. DOMAIN c = Fields
        BY DEF Shaped
    <2>2. CASE Passes(c)
        <3>1. e = [c EXCEPT !.passed = TRUE, !.attempts = n, !.status = "passed"]
            BY <2>2 DEF Finalize
        <3> HIDE DEF e, Fields
        <3> QED BY <1>f, <2>1, <2>2, <3>1
    <2>3. CASE ~ Passes(c)
        <3>1. e = [c EXCEPT !.passed = FALSE, !.attempts = n,
                            !.status = IF c.recovery = "none" THEN "blocked" ELSE "needs_review",
                            !.verdict = "incomplete"]
            BY <2>3 DEF Finalize
        <3> HIDE DEF e, Fields
        <3> QED BY <1>f, <2>1, <2>3, <3>1
    <2> QED BY <2>2, <2>3
<1>2. /\ e.bindings = c.bindings /\ e.candidates = c.candidates
      /\ e.results = c.results /\ e.evidence = c.evidence
    <2> HIDE DEF e, Fields
    <2> QED BY <1>f, <1>1
<1>3. e.verdict \in {"conflict", "consistent", "incomplete"}
    <2>1. Passes(c) => c.verdict \in {"conflict", "consistent"}
        BY DEF Passes, VerdictOf
    <2> QED BY <1>1, <2>1
<1>4. TypedCase(e)
    <2> HIDE DEF e
    <2> QED BY <1>1, <1>2, <1>3 DEF TypedCase, InRange
<1> QED BY <1>1, <1>4 DEF Shaped

\* In fast mode the nodes accept what the verifier passed and the registry takes.
LEMMA NodesAcceptPassed ==
    ASSUME WorldOK, NEW c, Near(c), Paired(c), Passes(c), Saveable(Finalize(c, 1))
    PROVE  NodesAccept(Finalize(c, 1))
PROOF
<1> DEFINE e == Finalize(c, 1)
<1>1. /\ e.passed
      /\ e.concept = c.concept /\ e.governed = c.governed /\ e.hypotheses = c.hypotheses
      /\ e.bindings = c.bindings /\ e.results = c.results /\ e.evidence = c.evidence
      /\ e.authority = c.authority /\ e.proposal = c.proposal /\ e.refusal = c.refusal
      /\ e.verdict = c.verdict
    <2>1. Finalize(c, 1) = [c EXCEPT !.passed = TRUE, !.attempts = 1, !.status = "passed"]
        BY DEF Finalize
    <2>2. DOMAIN c = DOMAIN NewCase
        BY NearTyped DEF Shaped
    <2> QED BY <2>1, <2>2 DEF NewCase
<1>2. e.impact # None /\ e.authority # None
    BY DEF Saveable
<1>3. /\ c.concept # None /\ c.bindings # {} /\ c.results # Empty /\ c.evidence # Empty
      /\ DOMAIN c.results = c.bindings
    BY DEF Passes, EvidenceMatches
<1>4. c.hypotheses # Empty \/ (c.governed # None /\ Cardinality(DOMAIN c.results) = 1)
    BY DEF Passes, RulingsMatch
<1>5. \A p \in DOMAIN c.hypotheses :
        c.hypotheses[p].ruling # "open" /\ Cardinality(DOMAIN c.hypotheses[p].cites) = 2
    <2>1. ASSUME NEW p \in DOMAIN c.hypotheses
          PROVE  c.hypotheses[p].ruling # "open"
        <3>1. c.hypotheses # Empty
            BY <2>1 DEF Empty
        <3>2. c.hypotheses[p].ruling = Ruling(c.results, p)
            BY <2>1, <3>1 DEF Passes, RulingsMatch
        <3> QED BY <3>2 DEF Ruling
    <2> QED BY <2>1 DEF Paired
<1>6. c.proposal # None \/ c.refusal \/ c.verdict = "consistent"
    <2>1. DecisionConsistent(c) /\ c.verdict \in {"conflict", "consistent"}
        BY DEF Passes, VerdictOf
    <2>2. CASE c.verdict = "conflict" /\ c.authority.status = "clear" /\ c.authority.owner # None
        BY <2>1, <2>2 DEF DecisionConsistent
    <2>3. CASE c.verdict = "conflict" /\ ~ (c.authority.status = "clear" /\ c.authority.owner # None)
        BY <2>1, <2>3 DEF DecisionConsistent
    <2> QED BY <2>1, <2>2, <2>3
<1>7. Ruled(e)
    BY <1>1, <1>3, <1>4, <1>5 DEF Ruled
<1> HIDE DEF e
<1>8. ASSUME NEW s \in {Stages[i] : i \in 1..Len(Stages)}
      PROVE  Accepts(s, e)
    <2>1. CASE s = "resolve_concept"
        BY <1>1, <1>3, <2>1 DEF Accepts
    <2>2. CASE s = "inspect_bindings"
        BY <1>1, <1>3, <2>2 DEF Accepts
    <2>3. CASE s = "hypothesize"
        BY <1>1, <1>3, <1>4, <2>3 DEF Accepts
    <2>4. CASE s = "execute"
        BY <1>7, <2>4 DEF Accepts
    <2>5. CASE s = "rank_impact"
        BY <1>2, <2>5 DEF Accepts
    <2>6. CASE s = "resolve_authority"
        BY <1>2, <2>6 DEF Accepts
    <2>7. CASE s = "decide"
        BY <1>1, <1>6, <2>7 DEF Accepts
    <2>8. CASE s = "verify"
        BY <1>1, <2>8 DEF Accepts
    <2>9. CASE s = "audit"
        BY <2>9 DEF Accepts
    <2> QED BY <1>8, <2>1, <2>2, <2>3, <2>4, <2>5, <2>6, <2>7, <2>8, <2>9, StagesInOrder
<1> QED BY <1>8, StagesInOrder DEF NodesAccept, e

\* The verifier, in either mode.
LEMMA VerifyStep ==
    ASSUME PipelineInv, Verify \/ VerifyStrict
    PROVE  PipelineInv'
PROOF
<1>i. /\ WorldOK /\ Near(case) /\ Paired(case) /\ pc = "verify"
      /\ Shaped(case) /\ InRange(case)
    BY NearTyped DEF PipelineInv, Found, Verify, VerifyStrict
<1>s. After("verify") = "audit" /\ "audit" \in {Stages[i] : i \in 1..Len(Stages)}
    BY StagesInOrder
<1>n. 1 \in 1..2 /\ 2 \in 1..2
    OBVIOUS
\* A true case stays true as it is finalized.
<1>t. ASSUME NEW c, NEW n \in 1..2, Shaped(c), InRange(c), Passes(c) => Truthful(c)
      PROVE  Finalize(c, n).passed => Truthful(Finalize(c, n))
    <2> DEFINE e == Finalize(c, n)
    <2>1. e.passed => /\ e.results = c.results /\ e.evidence = c.evidence
                      /\ e.verdict = c.verdict /\ e.proposal = c.proposal
                      /\ e.refusal = c.refusal /\ e.human = c.human
                      /\ e.authority = c.authority
        <3>1. /\ e.passed <=> Passes(c)
              /\ \A f \in DOMAIN NewCase \ {"passed", "attempts", "status", "verdict"} : e[f] = c[f]
              /\ Passes(c) => e.verdict = c.verdict
            BY <1>i, <1>t, Finalized
        <3> HIDE DEF e
        <3> QED BY <3>1 DEF NewCase
    <2>2. e.passed <=> Passes(c)
        BY <1>i, <1>t, Finalized
    <2> QED BY <1>t, <2>1, <2>2 DEF Truthful, Executed, Faithful, DecisionConsistent
<1>1. CASE Verify
    <2> DEFINE c == Finalize(case, 1)
    <2>1. /\ mode = "fast"
          /\ IF c.passed THEN Leaves("verify", c)
             ELSE /\ case' = c /\ ended' = "verification_failed" /\ pc' = "done"
                  /\ UNCHANGED <<world, damage, saved>>
        BY <1>1 DEF Verify, End
    <2>2. Shaped(c) /\ TypedCase(c) /\ (c.passed <=> Passes(case))
        BY <1>i, <1>n, Finalized
    <2>3. c.passed => Truthful(c)
        BY <1>i, <1>n, <1>t, PassesTruthful
    <2>4. c.passed /\ Saveable(c) => NodesAccept(c)
        BY <1>i, <2>2, NodesAcceptPassed
    <2> HIDE DEF c
    <2>5. CASE c.passed
        <3>1. Found("audit", c)
            BY <2>3, <2>4 DEF Found
        <3> QED BY <1>i, <1>s, <2>1, <2>2, <2>5, <3>1, LeavesKeeps
    <2>6. CASE ~ c.passed
        <3>1. /\ Shaped(case') /\ TypedCase(case') /\ "verification_failed" \in Outcomes
              /\ UNCHANGED <<world, saved>> /\ pc # "done"
              /\ pc' = "done" /\ ended' = "verification_failed"
            BY <1>i, <2>1, <2>2, <2>6, WorldSteady DEF Outcomes, TypedCase, InRange, Shaped
        <3> QED BY <3>1, StepKeeps
    <2> QED BY <2>5, <2>6
<1>2. CASE VerifyStrict
    <2> DEFINE stage == RecoveryStage(case)
               r == Recover(stage, [case EXCEPT !.recovery = stage])
               c == IF Passes(case) \/ stage = "none" THEN Finalize(case, 1) ELSE Finalize(r, 2)
    <2>1. mode = "strict" /\ Leaves("verify", c)
        BY <1>2 DEF VerifyStrict
    <2>2. Shaped(c) /\ TypedCase(c) /\ (c.passed => Truthful(c))
        <3>1. CASE Passes(case) \/ stage = "none"
            <4>1. Passes(case) => Truthful(case)
                BY <1>i, PassesTruthful
            <4> QED BY <1>i, <1>n, <1>t, <3>1, <4>1, Finalized
        <3>2. CASE ~ (Passes(case) \/ stage = "none")
            <4>1. Shaped(r) /\ InRange(r) /\ (Passes(r) => Truthful(r))
                BY <1>i, <3>2, RecoveryTruthful
            <4> HIDE DEF r, stage
            <4> QED BY <1>i, <1>n, <1>t, <3>2, <4>1, Finalized
        <3> QED BY <3>1, <3>2
    <2> HIDE DEF c
    <2>3. Found("audit", c)
        BY <2>1, <2>2 DEF Found
    <2> QED BY <1>i, <1>s, <2>1, <2>2, <2>3, LeavesKeeps
<1> QED BY <1>1, <1>2

\* What is lost or altered.
LEMMA DamageStep ==
    ASSUME PipelineInv, Damage
    PROVE  PipelineInv'
PROOF
<1>1. /\ WorldOK /\ Intact(case) /\ TypedCase(case) /\ pc = "verify"
      /\ UNCHANGED <<world, saved>> /\ pc' = pc /\ ended' = ended
    BY DEF PipelineInv, Found, Damage, TypeOK, TypedCase, InRange
<1>2. \/ \E l \in Losses(case) : case' = l[2]
      \/ case' \in Alterations(case)
    BY DEF Damage
<1>3. Near(case') /\ Paired(case') /\ case'.status = case.status /\ case'.attempts = case.attempts
    BY <1>1, <1>2, DamageNear
<1>4. damage' # "none"
    <2>1. \A l \in Losses(case) : l[1] # "none"
        BY DEF Losses
    <2> QED BY <2>1 DEF Damage
<1>5. Shaped(case') /\ TypedCase(case')
    BY <1>1, <1>3, NearTyped DEF TypedCase
<1> QED BY <1>1, <1>3, <1>4, <1>5, StepKeeps

\* The registry takes a passed case, or refuses it; a provider raises.
LEMMA LastStep ==
    ASSUME PipelineInv, Audit \/ Fails
    PROVE  PipelineInv'
PROOF
<1>1. /\ UNCHANGED world /\ case' = case /\ pc' = "done" /\ ended' \in Outcomes
      /\ pc # "done"
    BY DEF Audit, Fails, End, Outcomes
<1>2. Shaped(case') /\ TypedCase(case')
    BY <1>1, WorldSteady DEF PipelineInv, TypeOK, Shaped, TypedCase, InRange
<1>3. CASE saved' = saved
    BY <1>1, <1>2, <1>3, StepKeeps
<1>4. CASE saved' # saved
    <2>1. /\ pc = "audit" /\ case.passed /\ Saveable(case) /\ saved' = {case}
          /\ ended' = IF mode = "strict" \/ NodesAccept(case) THEN "returned" ELSE "rejected"
        BY <1>4 DEF Audit, Fails, End
    <2>2. Truthful(case) /\ (mode = "fast" => NodesAccept(case))
        BY <2>1 DEF PipelineInv, Found
    <2>3. ended' = "returned"
        BY <2>1, <2>2 DEF PipelineInv, WorldOK
    <2>4. /\ mode' = mode /\ concept' = concept /\ data' = data /\ rules' = rules
          /\ canonical' = canonical /\ local' = local
          /\ TrueResults' = TrueResults /\ TrueDecision' = TrueDecision
        BY <1>1, WorldSteady
    <2>5. WorldOK' /\ Shaped(case)' /\ Found(pc, case)' /\ Unfinished' /\ SavedIsReturned'
        BY <1>1, <1>2, <2>3, <2>4
           DEF PipelineInv, WorldOK, Shaped, Found, Unfinished, SavedIsReturned
    <2>6. TypeOK'
        BY <1>1, <1>2, <2>1, <2>4 DEF TypeOK, TypedCase, InRange, Outcomes
    <2>7. (\A c \in saved : Truthful(c))'
        BY <2>1, <2>2, <2>4 DEF Truthful, Executed, Faithful
    <2> QED BY <2>5, <2>6, <2>7 DEF PipelineInv
<1> QED BY <1>3, <1>4

-----------------------------------------------------------------------------
\* The theorems.

\* Every reachable state has the invariant: what a stage finds is what the
\* stages before it leave, but for one loss or one alteration.
THEOREM PipelineInvariance == Spec => []PipelineInv
PROOF
<1>1. Init => PipelineInv
    <2> SUFFICES ASSUME Init PROVE PipelineInv
        OBVIOUS
    <2>1. WorldOK /\ Found(pc, case) /\ Unfinished /\ SavedIsReturned /\ saved = {}
        BY DEF Init, WorldOK, Found, Unfinished, SavedIsReturned
    <2>2. Shaped(case)
        BY DEF Init, Shaped
    <2>3. TypeOK
        <3>1. /\ case.bindings = {} /\ case.candidates = {}
              /\ DOMAIN case.results = {} /\ DOMAIN case.evidence = {}
              /\ case.verdict = "incomplete" /\ case.status = "pending" /\ case.attempts = 0
            BY DEF Init, NewCase, Empty
        <3>2. pc = "resolve_concept" /\ ended = "no" /\ saved = {}
            BY DEF Init
        <3>3. pc \in {Stages[i] : i \in 1..Len(Stages)} \cup {"done"}
            BY <3>2, StagesInOrder
        <3>4. ended \in Outcomes
            BY <3>2 DEF Outcomes
        <3> QED BY <3>1, <3>2, <3>3, <3>4 DEF TypeOK
    <2> QED BY <2>1, <2>2, <2>3 DEF PipelineInv
<1>2. PipelineInv /\ [Next]_vars => PipelineInv'
    <2> SUFFICES ASSUME PipelineInv, [Next]_vars PROVE PipelineInv'
        OBVIOUS
    <2>1. CASE Next
        BY <2>1, EarlyStep, VerifyStep, DamageStep, LastStep DEF Next, Stage
    <2>2. CASE UNCHANGED vars
        <3>1. UNCHANGED <<world, pc, case, damage, saved, ended>>
            BY <2>2 DEF vars
        <3>2. /\ mode' = mode /\ concept' = concept /\ data' = data /\ rules' = rules
              /\ canonical' = canonical /\ local' = local
              /\ TrueResults' = TrueResults /\ TrueDecision' = TrueDecision
            BY <3>1, WorldSteady
        <3>3. WorldOK' /\ TypeOK' /\ Shaped(case)' /\ Unfinished' /\ SavedIsReturned'
            BY <3>1, <3>2 DEF PipelineInv, WorldOK, TypeOK, Shaped, Unfinished, SavedIsReturned
        <3>4. Found(pc, case)'
            BY <3>1, <3>2
               DEF PipelineInv, Found, Bound, Shaped, Executed, Paired, Near, Deviating,
                   Mislabelled, InRange, DataNear, DecisionNear, Decided, Faithful, Intact,
                   Truthful, EvidenceShaped, ResultsShaped
        <3>5. (\A c \in saved : Truthful(c))'
            BY <3>1, <3>2 DEF PipelineInv, Truthful, Executed, Faithful
        <3> QED BY <3>3, <3>4, <3>5 DEF PipelineInv
    <2> QED BY <2>1, <2>2
<1> QED BY <1>1, <1>2, PTL DEF Spec

\* The blackboard holds what ReconciliationCase's fields may.
THEOREM PipelineTypes == Spec => []TypeOK
PROOF
<1>1. PipelineInv => TypeOK
    BY DEF PipelineInv
<1> QED BY <1>1, PipelineInvariance, PTL

\* Whatever one loss or alteration of a case precedes the skeptical verifier, and
\* whatever it recovers, a case that _persist_and_audit saves has the provider's
\* results and evidence, the verdict that follows, and the refusal, or the
\* proposal's owner, evidence and need of approval, that the configured
\* authority asks for.
THEOREM SavedTruth == Spec => []SavedIsTrue
PROOF
<1>1. PipelineInv => SavedIsTrue
    BY DEF PipelineInv, SavedIsTrue, Truthful, Executed, Faithful
<1> QED BY <1>1, PipelineInvariance, PTL

\* A case that _persist_and_audit saved is returned by both workflow modes.
THEOREM SavedReturned == Spec => []SavedIsReturned
PROOF
<1>1. PipelineInv => SavedIsReturned
    BY DEF PipelineInv
<1> QED BY <1>1, PipelineInvariance, PTL

\* The verdict of a saved case is the one its results show, its proposal or
\* refusal the one its authority asks for, and a governed term has no proposal.
THEOREM DecisionsStand == Spec => []SavedDecisionStands
PROOF
<1>1. ASSUME PipelineInv, NEW c \in saved
      PROVE  c.verdict = "conflict" <=>
               \E d, e \in DOMAIN c.results : c.results[d].ids # c.results[e].ids
    <2>1. c.results = TrueResults /\ c.verdict = VerdictOf(c.results)
        BY <1>1 DEF PipelineInv, Truthful, Executed
    <2> DEFINE S == EntitySets(c.results)
    <2>2. IsFiniteSet(S)
        <3>1. IsFiniteSet(Definitions[concept])
            BY <1>1, PipelineAssumption DEF PipelineInv, WorldOK
        <3>2. IsFiniteSet(DOMAIN c.results)
            BY <1>1, <2>1, <3>1, TrueTyped, FS_Subset DEF PipelineInv
        <3> DEFINE f == [d \in DOMAIN c.results |-> c.results[d].ids]
        <3>3. f \in Surjection(DOMAIN c.results, S)
            BY DEF EntitySets, Surjection
        <3> HIDE DEF f, S
        <3> QED BY <3>2, <3>3, FS_Surjection
    <2>3. S # {}
        BY <1>1, <2>1, TrueTyped DEF PipelineInv, EntitySets
    <2>4. Cardinality(S) > 1 <=> \E x, y \in S : x # y
        <3>1. PICK x : x \in S
            BY <2>3
        <3> HIDE DEF S
        <3>2. Cardinality(S) \in Nat
            BY <2>2, FS_CardinalityType
        <3>3. Cardinality({x}) = 1 /\ IsFiniteSet({x})
            BY FS_Singleton
        <3>4. {x} \in SUBSET S
            BY <3>1
        <3>5. /\ Cardinality({x}) <= Cardinality(S)
              /\ Cardinality({x}) = Cardinality(S) => {x} = S
            BY <2>2, <3>4, FS_Subset
        <3> QED BY <3>1, <3>2, <3>3, <3>5
    <2>5. (\E x, y \in S : x # y) <=>
             \E d, e \in DOMAIN c.results : c.results[d].ids # c.results[e].ids
        BY DEF EntitySets
    <2> QED BY <2>1, <2>4, <2>5 DEF VerdictOf
<1>2. ASSUME PipelineInv, NEW c \in saved, c.verdict = "conflict"
      PROVE  Governing = None
    <2>1. PICK d, e \in DOMAIN c.results : c.results[d].ids # c.results[e].ids
        BY <1>1, <1>2
    <2>2. d \in DOMAIN TrueResults /\ e \in DOMAIN TrueResults /\ d # e
        BY <1>2, <2>1 DEF PipelineInv, Truthful, Executed
    <2> QED BY <1>2, <2>2, TrueTyped DEF PipelineInv, Governing
<1>3. PipelineInv => SavedDecisionStands
    <2> SUFFICES ASSUME PipelineInv, NEW c \in saved
                 PROVE  /\ c.proposal # None <=> c.verdict = "conflict" /\ c.authority.owner # None
                        /\ c.refusal <=> c.verdict = "conflict" /\ c.authority.owner = None
                        /\ c.proposal # None => c.proposal.owner = c.authority.owner
        BY <1>1, <1>2 DEF SavedDecisionStands
    <2>1. DecisionConsistent(c) /\ Executed(c)
        BY DEF PipelineInv, Truthful
    <2>2. c.verdict \in {"conflict", "consistent"}
        BY <2>1 DEF Executed, VerdictOf
    <2> QED BY <2>1, <2>2 DEF DecisionConsistent
<1> QED BY <1>3, PipelineInvariance, PTL

-----------------------------------------------------------------------------
\* What an undamaged run leaves, stage by stage, and what one loss leaves.

Resolved == [NewCase EXCEPT !.concept = concept, !.candidates = Definitions[concept]]

Open == [p \in Pairs(DOMAIN TrueResults) |-> [ruling |-> "open", cites |-> Empty]]

Hypothesized == [Bind(Resolved) EXCEPT !.hypotheses = Open]

\* The case that stage l finds undamaged.
Undamaged(l, c) ==
    /\ l = "resolve_concept" => c = NewCase
    /\ l = "inspect_bindings" => c = Resolved
    /\ l = "hypothesize" => c = Bind(Resolved)
    /\ l = "execute" => c = Hypothesized
    /\ l = "rank_impact" => c = Execute(Hypothesized)
    /\ l = "resolve_authority" => c = Rank(Execute(Hypothesized))
    /\ l = "decide" => c = Authorize(Rank(Execute(Hypothesized)))
    /\ l = "verify" => c = Reference
    /\ l = "audit" =>
         /\ c.passed <=> Passes(Reference)
         /\ c.passed => Saveable(c) /\ c.attempts = 1

\* A loss that OneLossIsRepaired speaks of.
Repairable ==
    /\ mode = "strict" /\ Passes(Reference)
    /\ damage \in {"execute_definitions", "rank_impact", "resolve_authority",
                    "reconcile_or_refuse"}

RepairInv ==
    /\ damage = "none" => Undamaged(pc, case)
    /\ Repairable =>
         /\ pc = "verify" => \E l \in Losses(Reference) : damage = l[1] /\ case = l[2]
         /\ pc = "audit" => case.passed
    /\ pc \notin {"verify", "audit", "done"} => damage = "none"
    /\ ModesAgree /\ OneLossIsRepaired

\* A finite nonempty set of integers has a largest and a smallest element: a
\* smallest set without one would have one.
LEMMA Extremes ==
    ASSUME NEW S \in SUBSET Int, S # {}, IsFiniteSet(S)
    PROVE  Max(S) \in S /\ Min(S) \in S
PROOF
<1> DEFINE Bounded(T) == /\ \E m \in T : \A n \in T : m >= n
                         /\ \E m \in T : \A n \in T : m <= n
           Bad == {T \in SUBSET S : T # {} /\ ~ Bounded(T)}
           Smaller == StrictSubsetOrdering(S)
<1>1. ASSUME Bad # {} PROVE FALSE
    <2>1. Bad \subseteq FiniteSubsetsOf(S)
        BY FS_Subset DEF FiniteSubsetsOf
    <2>2. IsWellFoundedOn(Smaller, FiniteSubsetsOf(S))
        BY FS_StrictSubsetOrderingWellFounded
    <2>3. PICK T \in Bad : \A U \in Bad : ~ (<<U, T>> \in Smaller)
        <3> HIDE DEF Bad, Smaller
        <3> QED BY <1>1, <2>1, <2>2, WFMin
    <2>4. PICK x \in T : TRUE
        BY <2>3
    <2> DEFINE U == T \ {x}
    <2>5. U \subseteq S /\ U # T /\ U \subseteq T
        BY <2>3, <2>4
    <2>6. U \notin Bad
        BY <2>3, <2>5 DEF StrictSubsetOrdering
    <2>7. CASE U = {}
        <3>1. T = {x} /\ x \in Int
            BY <2>3, <2>4, <2>7
        <3>2. Bounded(T)
            BY <3>1
        <3> QED BY <2>3, <3>2
    <2>8. CASE U # {}
        <3>1. Bounded(U)
            BY <2>5, <2>6, <2>8
        <3>2. PICK m \in U : \A n \in U : m >= n
            BY <3>1
        <3>3. PICK k \in U : \A n \in U : k <= n
            BY <3>1
        <3>4. x \in Int /\ m \in Int /\ k \in Int /\ T \subseteq Int /\ T = U \cup {x}
            BY <2>3, <2>4
        <3>5. \E a \in T : \A n \in T : a >= n
            <4>1. CASE x >= m
                <5>1. \A n \in T : x >= n
                    BY <3>2, <3>4, <4>1
                <5> QED BY <2>4, <5>1
            <4>2. CASE ~ (x >= m)
                <5>1. \A n \in T : m >= n
                    BY <3>2, <3>4, <4>2
                <5> QED BY <3>4, <5>1
            <4> QED BY <4>1, <4>2
        <3>6. \E a \in T : \A n \in T : a <= n
            <4>1. CASE x <= k
                <5>1. \A n \in T : x <= n
                    BY <3>3, <3>4, <4>1
                <5> QED BY <2>4, <5>1
            <4>2. CASE ~ (x <= k)
                <5>1. \A n \in T : k <= n
                    BY <3>3, <3>4, <4>2
                <5> QED BY <3>4, <5>1
            <4> QED BY <4>1, <4>2
        <3> QED BY <2>3, <3>5, <3>6
    <2> QED BY <2>7, <2>8
<1>2. Bounded(S)
    BY <1>1
<1> HIDE DEF Bad, Smaller
<1> QED BY <1>2 DEF Max, Min

\* The impact of the true results is one.
LEMMA ImpactTyped ==
    ASSUME WorldOK
    PROVE  Impact(concept, TrueResults) # None
PROOF
<1> DEFINE rs == TrueResults
           D  == DOMAIN TrueResults
<1>1. /\ IsFiniteSet(D) /\ D # {}
      /\ \A d \in D : IsFiniteSet(rs[d].ids) /\ rs[d].total \in Int
    <2>1. IsFiniteSet(Definitions[concept])
        BY PipelineAssumption DEF WorldOK
    <2> QED BY <2>1, TrueTyped, PipelineAssumption, FS_Subset
<1>2. \A d \in D : Cardinality(rs[d].ids) \in Int
    BY <1>1, FS_CardinalityType
<1>3. /\ Count(rs) \in SUBSET Int /\ Totals(rs) \in SUBSET Int
      /\ Count(rs) # {} /\ Totals(rs) # {}
    BY <1>1, <1>2 DEF Count, Totals
<1>4. IsFiniteSet(Count(rs)) /\ IsFiniteSet(Totals(rs))
    <2>1. [d \in D |-> Cardinality(rs[d].ids)] \in Surjection(D, Count(rs))
        BY DEF Count, Surjection
    <2>2. [d \in D |-> rs[d].total] \in Surjection(D, Totals(rs))
        BY DEF Totals, Surjection
    <2> QED BY <1>1, <2>1, <2>2, FS_Surjection
<1>5. Spread(Count(rs)) \in Int /\ Spread(Totals(rs)) \in Int
    <2> HIDE DEF rs
    <2> QED BY <1>3, <1>4, Extremes DEF Spread
<1>r. \A s \in {"low", "medium", "high"}, n, v, f \in Int :
        [severity |-> s, delta |-> n, value |-> v, falseReady |-> f] # None
    BY PipelineAssumption
<1>6. CASE Spread(Count(rs)) = 0 /\ Spread(Totals(rs)) = 0
    <2>1. Impact(concept, rs) = [severity |-> "low", delta |-> 0, value |-> 0, falseReady |-> 0]
        BY <1>6 DEF Impact
    <2> QED BY <2>1, <1>r
<1>7. CASE ~ (Spread(Count(rs)) = 0 /\ Spread(Totals(rs)) = 0) /\ concept # "certification_ready"
    <2> DEFINE s == IF Spread(Count(rs)) >= HighCount \/ Spread(Totals(rs)) >= HighValue
                    THEN "high" ELSE "medium"
    <2>1. Impact(concept, rs) = [severity |-> s, delta |-> Spread(Count(rs)),
                                 value |-> Spread(Totals(rs)), falseReady |-> 0]
        BY <1>7 DEF Impact
    <2>2. s \in {"low", "medium", "high"}
        OBVIOUS
    <2> HIDE DEF s
    <2> QED BY <1>5, <1>r, <2>1, <2>2
<1>8. CASE ~ (Spread(Count(rs)) = 0 /\ Spread(Totals(rs)) = 0) /\ concept = "certification_ready"
    <2> DEFINE n == Cardinality(rs[Lenient].ids \ rs[Anchor].ids)
    <2>1. Impact(concept, rs) = [severity |-> "high", delta |-> Spread(Count(rs)),
                                 value |-> n, falseReady |-> n]
        BY <1>8 DEF Impact
    <2>2. D = Definitions[concept]
        <3>1. ASSUME NEW x, D = {x} PROVE FALSE
            <4>1. Count(rs) = {Cardinality(rs[x].ids)} /\ Totals(rs) = {rs[x].total}
                BY <3>1 DEF Count, Totals
            <4>2. \A T \in SUBSET Int, y \in Int : T = {y} => Max(T) = y /\ Min(T) = y
                BY DEF Max, Min
            <4>3. Spread(Count(rs)) = 0 /\ Spread(Totals(rs)) = 0
                BY <1>1, <1>2, <1>3, <3>1, <4>1, <4>2 DEF Spread
            <4> QED BY <1>8, <4>3
        <3> QED BY <3>1, TrueTyped
    <2>3. Lenient \in D
        BY <1>8, <2>2, PipelineAssumption
    <2>4. n \in Int
        <3>1. IsFiniteSet(rs[Lenient].ids \ rs[Anchor].ids)
            BY <1>1, <2>3, FS_Difference
        <3> QED BY <3>1, FS_CardinalityType
    <2> HIDE DEF n
    <2> QED BY <1>5, <1>r, <2>1, <2>4
<1> QED BY <1>6, <1>7, <1>8

\* What a stage leaves alone.
LEMMA StageFields ==
    ASSUME NEW c, Shaped(c)
    PROVE  /\ /\ Shaped(Execute(c))
              /\ \A f \in DOMAIN NewCase \ {"results", "evidence", "verdict", "hypotheses"} :
                   Execute(c)[f] = c[f]
           /\ /\ Shaped(Rank(c)) /\ Rank(c).impact = Impact(c.concept, c.results)
              /\ \A f \in DOMAIN NewCase \ {"impact"} : Rank(c)[f] = c[f]
           /\ /\ Shaped(Authorize(c)) /\ Authorize(c).authority = Authority(rules)
              /\ Authorize(c).context = TRUE
              /\ \A f \in DOMAIN NewCase \ {"authority", "context"} : Authorize(c)[f] = c[f]
           /\ LET d == Decision(c.concept, c.verdict, c.bindings, c.authority, c.evidence) IN
              /\ Shaped(Decide(c)) /\ Decide(c).proposal = d.proposal
              /\ Decide(c).refusal = d.refusal /\ Decide(c).human = d.human
              /\ \A f \in DOMAIN NewCase \ {"proposal", "refusal", "human"} : Decide(c)[f] = c[f]
PROOF
<1>1. /\ Shaped(Execute(c))
      /\ \A f \in DOMAIN NewCase \ {"results", "evidence", "verdict", "hypotheses"} :
           Execute(c)[f] = c[f]
    <2> DEFINE rs == [d \in c.bindings |-> data[d]]
               ev == EvidenceOf(rs)
               hs == Rule(c.hypotheses, rs, ev)
    <2>1. Execute(c) = [c EXCEPT !.results = rs, !.evidence = ev, !.verdict = VerdictOf(rs),
                                 !.hypotheses = hs]
        BY DEF Execute
    <2> HIDE DEF rs, ev, hs
    <2> QED BY <2>1 DEF Shaped
<1>2. /\ Shaped(Rank(c)) /\ Rank(c).impact = Impact(c.concept, c.results)
      /\ \A f \in DOMAIN NewCase \ {"impact"} : Rank(c)[f] = c[f]
    BY DEF Rank, Shaped, NewCase
<1>3. /\ Shaped(Authorize(c)) /\ Authorize(c).authority = Authority(rules)
      /\ Authorize(c).context = TRUE
      /\ \A f \in DOMAIN NewCase \ {"authority", "context"} : Authorize(c)[f] = c[f]
    BY DEF Authorize, Shaped, NewCase
<1>4. LET d == Decision(c.concept, c.verdict, c.bindings, c.authority, c.evidence) IN
      /\ Shaped(Decide(c)) /\ Decide(c).proposal = d.proposal
      /\ Decide(c).refusal = d.refusal /\ Decide(c).human = d.human
      /\ \A f \in DOMAIN NewCase \ {"proposal", "refusal", "human"} : Decide(c)[f] = c[f]
    <2> DEFINE d == Decision(c.concept, c.verdict, c.bindings, c.authority, c.evidence)
    <2>1. Decide(c) = [c EXCEPT !.proposal = d.proposal, !.refusal = d.refusal,
                                !.human = d.human]
        BY DEF Decide
    <2> HIDE DEF d
    <2>2. /\ Shaped(Decide(c)) /\ Decide(c).proposal = d.proposal
          /\ Decide(c).refusal = d.refusal /\ Decide(c).human = d.human
          /\ \A f \in DOMAIN NewCase \ {"proposal", "refusal", "human"} : Decide(c)[f] = c[f]
        BY <2>1 DEF Shaped, NewCase
    <2> QED BY <2>2 DEF d
<1> QED BY <1>1, <1>2, <1>3, <1>4

\* The case before anything is executed.
LEMMA HypothesizedFields ==
    ASSUME WorldOK
    PROVE  /\ Bound(Bind(Resolved)) /\ Bound(Hypothesized)
           /\ Hypothesized.hypotheses = Open
           /\ \A f \in DOMAIN NewCase \ {"hypotheses"} : Hypothesized[f] = Bind(Resolved)[f]
           /\ \A f \in DOMAIN NewCase \ {"concept", "candidates", "bindings", "governed", "hypotheses"} :
                Hypothesized[f] = NewCase[f]
           /\ Hypothesized.governed = Governing
           /\ Hypothesized =
                [NewCase EXCEPT
                   !.concept = concept, !.candidates = DOMAIN TrueResults,
                   !.bindings = DOMAIN TrueResults, !.governed = Governing,
                   !.hypotheses = [p \in Pairs(DOMAIN TrueResults) |->
                                      [ruling |-> "open", cites |-> Empty]]]
PROOF
<1> DEFINE D == DOMAIN TrueResults
           B == [NewCase EXCEPT !.concept = concept, !.candidates = D, !.bindings = D,
                                !.governed = Governing]
<1>1. Bind(Resolved) = B
    <2>1. CASE canonical = None \/ ~ local
        <3>1. D = Definitions[concept] /\ Governing = None
            BY <2>1, TrueTyped DEF Governing, WorldOK
        <3>2. Bind(Resolved) = [Resolved EXCEPT !.bindings = Definitions[concept]]
            BY <2>1 DEF Bind
        <3> DEFINE S == Definitions[concept]
        <3>3. B = [NewCase EXCEPT !.concept = concept, !.candidates = S, !.bindings = S,
                                  !.governed = None]
            BY <3>1
        <3>4. Bind(Resolved) = [Resolved EXCEPT !.bindings = S]
                /\ Resolved = [NewCase EXCEPT !.concept = concept, !.candidates = S]
            BY <3>2 DEF Resolved
        <3> DEFINE X == Bind(Resolved)
        <3> HIDE DEF B, D, S
        <3>5. \A f \in DOMAIN NewCase : B[f] = X[f]
            <4> DEFINE named == {"concept", "candidates", "bindings", "governed"}
            <4>1. /\ B.concept = concept /\ B.candidates = S /\ B.bindings = S
                  /\ B.governed = None
                  /\ \A f \in DOMAIN NewCase \ named : B[f] = NewCase[f]
                BY <3>3 DEF NewCase
            <4>2. /\ Resolved.concept = concept /\ Resolved.candidates = S
                  /\ Resolved.governed = None /\ DOMAIN Resolved = DOMAIN NewCase
                  /\ \A f \in DOMAIN NewCase \ named : Resolved[f] = NewCase[f]
                BY <3>4 DEF NewCase
            <4>3. /\ X.concept = concept /\ X.candidates = S /\ X.bindings = S
                  /\ X.governed = None
                  /\ \A f \in DOMAIN NewCase \ named : X[f] = NewCase[f]
                <5>1. named \subseteq DOMAIN NewCase
                    BY DEF NewCase
                <5>2. X = [Resolved EXCEPT !.bindings = S]
                    BY <3>4
                <5> HIDE DEF X
                <5> QED BY <4>2, <5>1, <5>2
            <4> HIDE DEF X
            <4> QED BY <4>1, <4>3
        <3>6. /\ DOMAIN B = DOMAIN NewCase /\ DOMAIN X = DOMAIN NewCase
              /\ B = [f \in DOMAIN B |-> B[f]] /\ X = [f \in DOMAIN X |-> X[f]]
            BY <3>3, <3>4 DEF NewCase
        <3> HIDE DEF X
        <3>7. B = X
            BY <3>5, <3>6
        <3> QED BY <3>7 DEF X
    <2>2. CASE canonical # None /\ local
        <3>1. D = {canonical} /\ Governing = canonical
            BY <2>2, TrueTyped DEF Governing
        <3>2. Bind(Resolved) = [Resolved EXCEPT !.bindings = {canonical},
                                                !.candidates = {canonical}, !.governed = canonical]
            BY <2>2 DEF Bind
        <3> DEFINE S == {canonical}
        <3>3. B = [NewCase EXCEPT !.concept = concept, !.candidates = S, !.bindings = S,
                                  !.governed = canonical]
            BY <3>1
        <3>4. Bind(Resolved) = [Resolved EXCEPT !.bindings = S, !.candidates = S,
                                                !.governed = canonical]
            BY <3>2
        <3> HIDE DEF B, D, S
        <3> QED BY <3>3, <3>4 DEF Resolved, NewCase
    <2> QED BY <2>1, <2>2 DEF WorldOK
<1>2. /\ Shaped(B) /\ B.concept = concept /\ B.candidates = D /\ B.bindings = D
      /\ B.governed = Governing
      /\ \A f \in DOMAIN NewCase \ {"concept", "candidates", "bindings", "governed"} :
           B[f] = NewCase[f]
    <2> HIDE DEF D
    <2> QED BY DEF Shaped, NewCase
<1>3. Hypothesized = [B EXCEPT !.hypotheses = Open]
    BY <1>1 DEF Hypothesized
<1>4. Hypothesized = [NewCase EXCEPT !.concept = concept, !.candidates = D, !.bindings = D,
                                     !.governed = Governing, !.hypotheses = Open]
    <2> HIDE DEF D
    <2> QED BY <1>3 DEF NewCase
<1> HIDE DEF B, D
<1>5. /\ Shaped(Hypothesized) /\ Hypothesized.hypotheses = Open
      /\ \A f \in DOMAIN NewCase \ {"hypotheses"} : Hypothesized[f] = B[f]
    BY <1>2, <1>3 DEF Shaped, NewCase
<1>6. /\ Hypothesized.concept = B.concept /\ Hypothesized.candidates = B.candidates
      /\ Hypothesized.bindings = B.bindings /\ Hypothesized.governed = B.governed
    BY <1>5 DEF NewCase
<1>7. Bound(B) /\ Bound(Hypothesized)
    BY <1>2, <1>5, <1>6 DEF Bound, D
<1> QED BY <1>1, <1>2, <1>4, <1>5, <1>6, <1>7 DEF Open, D

\* The case that reaches the verifier when nothing happens to it.
LEMMA ReferenceFields ==
    ASSUME WorldOK
    PROVE  /\ Reference = Decide(Authorize(Rank(Execute(Hypothesized))))
           /\ Shaped(Execute(Hypothesized)) /\ Shaped(Rank(Execute(Hypothesized)))
           /\ Shaped(Authorize(Rank(Execute(Hypothesized))))
           /\ Executed(Execute(Hypothesized))
           /\ Execute(Hypothesized).hypotheses = Rule(Open, TrueResults, EvidenceOf(TrueResults))
           /\ Rank(Execute(Hypothesized)).impact = Impact(concept, TrueResults)
           /\ Bound(Reference) /\ Executed(Reference) /\ Decided(Reference)
           /\ Reference.hypotheses = Rule(Open, TrueResults, EvidenceOf(TrueResults))
           /\ Reference.governed = Governing
           /\ Reference.impact = Impact(concept, TrueResults)
           /\ Reference.authority = Authority(rules) /\ Reference.context = TRUE
PROOF
<1> DEFINE E == Execute(Hypothesized)
           K == Rank(E)
           A == Authorize(K)
<1>1. Reference = Decide(A)
    BY HypothesizedFields DEF Reference
<1>2. /\ Bound(E) /\ Executed(E)
      /\ E.hypotheses = Rule(Open, TrueResults, EvidenceOf(TrueResults))
      /\ E.governed = Governing
    <2>1. /\ Bound(E) /\ Executed(E)
          /\ E.hypotheses = Rule(Open, TrueResults, EvidenceOf(TrueResults))
        BY HypothesizedFields, ExecuteBound
    <2>2. Shaped(Hypothesized)
        BY HypothesizedFields DEF Bound
    <2>3. E.governed = Hypothesized.governed
        <3>1. "governed" \in DOMAIN NewCase \ {"results", "evidence", "verdict", "hypotheses"}
            BY DEF NewCase
        <3> QED BY <2>2, <3>1, StageFields
    <2> QED BY <2>1, <2>3, HypothesizedFields
<1> HIDE DEF E
<1>3. /\ Shaped(E) /\ E.concept = concept /\ E.results = TrueResults
      /\ E.evidence = EvidenceOf(TrueResults) /\ E.verdict = VerdictOf(TrueResults)
      /\ E.bindings = DOMAIN TrueResults /\ E.candidates = DOMAIN TrueResults
    BY <1>2 DEF Bound, Executed
<1>4. /\ Shaped(K) /\ K.impact = Impact(concept, TrueResults) /\ K.concept = E.concept
      /\ K.results = E.results /\ K.evidence = E.evidence /\ K.verdict = E.verdict
      /\ K.bindings = E.bindings /\ K.candidates = E.candidates /\ K.governed = E.governed
      /\ K.hypotheses = E.hypotheses
    <2>1. /\ Shaped(K) /\ K.impact = Impact(E.concept, E.results)
          /\ \A f \in DOMAIN NewCase \ {"impact"} : K[f] = E[f]
        BY <1>3, StageFields
    <2> HIDE DEF K
    <2> QED BY <1>3, <2>1 DEF NewCase
<1> HIDE DEF K
<1>5. /\ Shaped(A) /\ A.authority = Authority(rules) /\ A.context = TRUE
      /\ A.concept = K.concept /\ A.impact = K.impact
      /\ A.results = K.results /\ A.evidence = K.evidence /\ A.verdict = K.verdict
      /\ A.bindings = K.bindings /\ A.candidates = K.candidates /\ A.governed = K.governed
      /\ A.hypotheses = K.hypotheses
    <2>1. /\ Shaped(A) /\ A.authority = Authority(rules) /\ A.context = TRUE
          /\ \A f \in DOMAIN NewCase \ {"authority", "context"} : A[f] = K[f]
        BY <1>4, StageFields
    <2> HIDE DEF A
    <2> QED BY <2>1 DEF NewCase
<1> HIDE DEF A
<1> DEFINE d == Decision(A.concept, A.verdict, A.bindings, A.authority, A.evidence)
           R == Decide(A)
<1>6. d = TrueDecision
    BY <1>3, <1>4, <1>5 DEF TrueDecision
<1>7. /\ Shaped(R) /\ R.proposal = d.proposal /\ R.refusal = d.refusal /\ R.human = d.human
      /\ R.authority = A.authority /\ R.context = A.context
      /\ R.concept = A.concept /\ R.impact = A.impact
      /\ R.results = A.results /\ R.evidence = A.evidence /\ R.verdict = A.verdict
      /\ R.bindings = A.bindings /\ R.candidates = A.candidates /\ R.governed = A.governed
      /\ R.hypotheses = A.hypotheses
    <2>1. /\ Shaped(R) /\ R.proposal = d.proposal /\ R.refusal = d.refusal /\ R.human = d.human
          /\ \A f \in DOMAIN NewCase \ {"proposal", "refusal", "human"} : R[f] = A[f]
        BY <1>5, StageFields
    <2> HIDE DEF R, d
    <2> QED BY <2>1 DEF NewCase
<1> HIDE DEF R, d
<1>8. Bound(R) /\ Executed(R) /\ Decided(R)
    BY <1>3, <1>4, <1>5, <1>6, <1>7 DEF Bound, Executed, Decided
<1> QED BY <1>1, <1>2, <1>3, <1>4, <1>5, <1>7, <1>8 DEF E, K, A, R

\* The verifier does not read how often it was asked, nor what it recovered.
LEMMA PassesAlike ==
    ASSUME NEW c, NEW e,
           \A f \in {"concept", "candidates", "bindings", "governed", "hypotheses", "results",
                     "evidence", "verdict", "impact", "authority", "proposal", "refusal",
                     "human"} : c[f] = e[f],
           Passes(c)
    PROVE  Passes(e)
PROOF
<1>1. /\ e.concept = c.concept /\ e.candidates = c.candidates /\ e.bindings = c.bindings
      /\ e.governed = c.governed /\ e.hypotheses = c.hypotheses /\ e.results = c.results
      /\ e.evidence = c.evidence /\ e.verdict = c.verdict /\ e.impact = c.impact
      /\ e.authority = c.authority /\ e.proposal = c.proposal /\ e.refusal = c.refusal
      /\ e.human = c.human
    OBVIOUS
<1>2. EvidenceMatches(e)
    BY <1>1 DEF Passes, EvidenceMatches
<1>3. RulingsMatch(e)
    BY <1>1 DEF Passes, RulingsMatch
<1>4. DecisionConsistent(e)
    BY <1>1, Zenon DEF Passes, DecisionConsistent
<1>5. ProposalCites(e)
    BY <1>1, Zenon DEF Passes, ProposalCites
<1>6. c.governed # None => GovernedChecks(e)
    BY <1>1 DEF Passes, GovernedChecks
<1>7. c.governed = None => ScenarioChecks(e)
    BY <1>1 DEF Passes, ScenarioChecks
<1> QED BY <1>1, <1>2, <1>3, <1>4, <1>5, <1>6, <1>7 DEF Passes

\* Recomputing what was lost gives back the case that passes.
LEMMA LossRecovered ==
    ASSUME WorldOK, Passes(Reference), NEW l \in Losses(Reference), l[1] # "context",
           ~ Passes(l[2]), NEW s, s = RecoveryStage(l[2]), NEW e,
           e = Recover(s, [l[2] EXCEPT !.recovery = s])
    PROVE  s # "none" /\ Passes(e)
PROOF
<1> DEFINE R == Reference
           c == l[2]
           r == [c EXCEPT !.recovery = s]
           Read == {"concept", "candidates", "bindings", "governed", "hypotheses", "results",
                    "evidence", "verdict", "impact", "authority", "proposal", "refusal", "human"}
<1>1. /\ Bound(R) /\ Executed(R) /\ Decided(R)
      /\ R.hypotheses = Rule(Open, TrueResults, EvidenceOf(TrueResults))
      /\ R.impact = Impact(concept, TrueResults) /\ R.authority = Authority(rules)
      /\ R.context = TRUE /\ Passes(R)
    BY ReferenceFields
<1>2. \/ l = <<"execute_definitions", [R EXCEPT !.evidence = Empty]>>
      \/ l = <<"execute_definitions", [R EXCEPT !.results = Empty, !.evidence = Empty]>>
      \/ l = <<"rank_impact", [R EXCEPT !.impact = None]>>
      \/ l = <<"resolve_authority", [R EXCEPT !.authority = None]>>
      \/ l = <<"reconcile_or_refuse", [R EXCEPT !.proposal = None, !.refusal = FALSE]>>
    BY DEF Losses
<1> HIDE DEF R
<1>3. /\ R.bindings # {} /\ R.results # Empty /\ R.evidence # Empty
      /\ R.impact # None /\ R.authority # None
      /\ ~ (R.verdict = "conflict" /\ R.proposal = None /\ ~ R.refusal)
    <2>1. R.bindings # {} /\ DOMAIN R.results # {} /\ DOMAIN R.evidence # {}
        BY <1>1, TrueTyped DEF Bound, Executed, EvidenceOf
    <2>2. R.results # Empty /\ R.evidence # Empty
        BY <2>1 DEF Empty
    <2>3. R.impact # None
        BY <1>1, ImpactTyped
    <2>4. R.authority # None
        BY <1>1 DEF Passes, DecisionConsistent
    <2>5. ~ (R.verdict = "conflict" /\ R.proposal = None /\ ~ R.refusal)
        BY <1>1, ConflictDecided DEF Executed, Decided
    <2> QED BY <2>1, <2>2, <2>3, <2>4, <2>5
<1>r. /\ Shaped(c) => Shaped(r)
      /\ Shaped(c) => \A f \in Read : r[f] = c[f]
    BY DEF Shaped, NewCase
<1>4. CASE l[1] = "execute_definitions"
    <2>1. /\ Shaped(c) /\ c.evidence = Empty /\ c.context = TRUE
          /\ \A f \in Read \ {"results", "evidence"} : c[f] = R[f]
        <3>1. CASE c = [R EXCEPT !.evidence = Empty]
            BY <1>1, <3>1 DEF Shaped, NewCase, Bound
        <3>2. CASE c = [R EXCEPT !.results = Empty, !.evidence = Empty]
            BY <1>1, <3>2 DEF Shaped, NewCase, Bound
        <3>3. c = [R EXCEPT !.evidence = Empty]
              \/ c = [R EXCEPT !.results = Empty, !.evidence = Empty]
            BY <1>2, <1>4
        <3> HIDE DEF c
        <3> QED BY <3>1, <3>2, <3>3
    <2> HIDE DEF c
    <2>2. s = "execute_definitions"
        <3>1. /\ c.bindings # {} /\ c.impact # None /\ c.authority # None
              /\ ~ (c.verdict = "conflict" /\ c.proposal = None /\ ~ c.refusal)
            BY <1>3, <2>1
        <3> QED BY <2>1, <3>1, Zenon DEF RecoveryStage, c
    <2>3. /\ Shaped(r) /\ \A f \in Read \ {"results", "evidence"} : r[f] = R[f]
        BY <1>r, <2>1
    <2>4. e = Execute(r)
        BY <2>2 DEF Recover, c
    <2> HIDE DEF r
    <2>5. Bound(r) /\ r.hypotheses = R.hypotheses
        BY <1>1, <2>3 DEF Bound
    <2>6. /\ Executed(e) /\ Bound(e)
          /\ e.authority = r.authority /\ e.proposal = r.proposal /\ e.refusal = r.refusal
          /\ e.human = r.human
          /\ e.hypotheses = Rule(r.hypotheses, TrueResults, EvidenceOf(TrueResults))
        BY <2>4, <2>5, ExecuteBound
    <2>7. e.governed = r.governed /\ e.impact = r.impact
        <3>1. {"governed", "impact"} \subseteq
                DOMAIN NewCase \ {"results", "evidence", "verdict", "hypotheses"}
            BY DEF NewCase
        <3>2. \A f \in DOMAIN NewCase \ {"results", "evidence", "verdict", "hypotheses"} :
                Execute(r)[f] = r[f]
            BY <2>3, StageFields
        <3> QED BY <2>4, <3>1, <3>2
    <2>8. e.hypotheses = R.hypotheses
        <3> DEFINE ev == EvidenceOf(TrueResults)
                   hs == Rule(Open, TrueResults, ev)
        <3>1. \A h, g : DOMAIN h = DOMAIN g => Rule(h, TrueResults, ev) = Rule(g, TrueResults, ev)
            BY DEF Rule
        <3>2. DOMAIN hs = DOMAIN Open
            BY DEF Rule
        <3> HIDE DEF hs, ev
        <3>3. Rule(hs, TrueResults, ev) = Rule(Open, TrueResults, ev)
            BY <3>1, <3>2
        <3> QED BY <1>1, <2>5, <2>6, <3>3 DEF hs, ev
    <2>9. \A f \in Read : R[f] = e[f]
        <3>1. R.results = e.results /\ R.evidence = e.evidence /\ R.verdict = e.verdict
              /\ R.concept = e.concept /\ R.bindings = e.bindings /\ R.candidates = e.candidates
            BY <1>1, <2>6 DEF Executed, Bound
        <3>2. R.authority = e.authority /\ R.proposal = e.proposal /\ R.refusal = e.refusal
              /\ R.human = e.human /\ R.governed = e.governed /\ R.impact = e.impact
            BY <2>3, <2>6, <2>7
        <3> QED BY <2>8, <3>1, <3>2
    <2> QED BY <1>1, <2>2, <2>9, PassesAlike
<1>5. CASE l[1] = "rank_impact"
    <2>1. /\ Shaped(c) /\ c.impact = None /\ c.context = TRUE
          /\ \A f \in Read \ {"impact"} : c[f] = R[f]
        <3>1. c = [R EXCEPT !.impact = None]
            BY <1>2, <1>5
        <3> QED BY <1>1, <3>1 DEF Shaped, NewCase, Bound
    <2> HIDE DEF c
    <2>2. s = "rank_impact"
        <3>1. /\ c.results # Empty /\ c.evidence # Empty /\ c.authority # None
              /\ ~ (c.verdict = "conflict" /\ c.proposal = None /\ ~ c.refusal)
            BY <1>3, <2>1
        <3> QED BY <2>1, <3>1, Zenon DEF RecoveryStage, c
    <2>3. /\ Shaped(r) /\ \A f \in Read \ {"impact"} : r[f] = R[f]
        BY <1>r, <2>1
    <2>4. e = Rank(r)
        BY <2>2 DEF Recover, c
    <2> HIDE DEF r
    <2>5. /\ e.impact = Impact(r.concept, r.results)
          /\ \A f \in DOMAIN NewCase \ {"impact"} : e[f] = r[f]
        <3>1. /\ Rank(r).impact = Impact(r.concept, r.results)
              /\ \A f \in DOMAIN NewCase \ {"impact"} : Rank(r)[f] = r[f]
            BY <2>3, StageFields
        <3> QED BY <2>4, <3>1
    <2>6. e.impact = R.impact
        BY <1>1, <2>3, <2>5 DEF Bound, Executed
    <2>7. \A f \in Read : R[f] = e[f]
        <3>1. Read \subseteq DOMAIN NewCase
            BY DEF NewCase
        <3> QED BY <2>3, <2>5, <2>6, <3>1
    <2> QED BY <1>1, <2>2, <2>7, PassesAlike
<1>6. CASE l[1] = "resolve_authority"
    <2>1. /\ Shaped(c) /\ c.authority = None /\ c.context = TRUE
          /\ \A f \in Read \ {"authority"} : c[f] = R[f]
        <3>1. c = [R EXCEPT !.authority = None]
            BY <1>2, <1>6
        <3> QED BY <1>1, <3>1 DEF Shaped, NewCase, Bound
    <2> HIDE DEF c
    <2>2. s = "resolve_authority"
        <3>1. c.results # Empty /\ c.evidence # Empty /\ c.impact # None
            BY <1>3, <2>1
        <3> QED BY <2>1, <3>1, Zenon DEF RecoveryStage, c
    <2>3. /\ Shaped(r) /\ \A f \in Read \ {"authority"} : r[f] = R[f]
        BY <1>r, <2>1
    <2>4. e = Authorize(r)
        BY <2>2 DEF Recover, c
    <2> HIDE DEF r
    <2>5. /\ e.authority = Authority(rules)
          /\ \A f \in DOMAIN NewCase \ {"authority", "context"} : e[f] = r[f]
        <3>1. /\ Authorize(r).authority = Authority(rules)
              /\ \A f \in DOMAIN NewCase \ {"authority", "context"} : Authorize(r)[f] = r[f]
            BY <2>3, StageFields
        <3> QED BY <2>4, <3>1
    <2>7. \A f \in Read : R[f] = e[f]
        <3>1. Read \ {"authority"} \subseteq DOMAIN NewCase \ {"authority", "context"}
            BY DEF NewCase
        <3> QED BY <1>1, <2>3, <2>5, <3>1
    <2> QED BY <1>1, <2>2, <2>7, PassesAlike
<1>7. CASE l[1] = "reconcile_or_refuse"
    <2>1. /\ Shaped(c) /\ c.proposal = None /\ c.refusal = FALSE /\ c.context = TRUE
          /\ \A f \in Read \ {"proposal", "refusal"} : c[f] = R[f]
        <3>1. c = [R EXCEPT !.proposal = None, !.refusal = FALSE]
            BY <1>2, <1>7
        <3> QED BY <1>1, <3>1 DEF Shaped, NewCase, Bound
    <2>2. R.verdict = "conflict"
        <3>1. R.verdict \in {"conflict", "consistent"}
            BY <1>1, ConflictDecided DEF Executed
        <3>2. ASSUME R.verdict = "consistent" PROVE FALSE
            <4>1. R.proposal = None /\ R.refusal = FALSE
                BY <1>1, <3>2 DEF Executed, Decided, TrueDecision, Decision
            <4>2. \A f \in Read : R[f] = c[f]
                BY <2>1, <4>1
            <4> HIDE DEF c
            <4>3. Passes(c)
                BY <1>1, <4>2, PassesAlike
            <4> QED BY <4>3 DEF c
        <3> QED BY <3>1, <3>2
    <2> HIDE DEF c
    <2>3. s = "reconcile_or_refuse"
        <3>1. /\ c.results # Empty /\ c.evidence # Empty /\ c.impact # None
              /\ c.authority # None /\ c.verdict = "conflict"
            BY <1>3, <2>1, <2>2
        <3> QED BY <2>1, <3>1, Zenon DEF RecoveryStage, c
    <2>4. /\ Shaped(r) /\ \A f \in Read \ {"proposal", "refusal"} : r[f] = R[f]
        BY <1>r, <2>1
    <2>5. e = Decide(r)
        BY <2>3 DEF Recover, c
    <2> HIDE DEF r
    <2> DEFINE d == Decision(r.concept, r.verdict, r.bindings, r.authority, r.evidence)
    <2>6. d = TrueDecision
        BY <1>1, <2>4 DEF Bound, Executed, TrueDecision
    <2>7. /\ e.proposal = d.proposal /\ e.refusal = d.refusal /\ e.human = d.human
          /\ \A f \in DOMAIN NewCase \ {"proposal", "refusal", "human"} : e[f] = r[f]
        <3>1. /\ Decide(r).proposal = d.proposal /\ Decide(r).refusal = d.refusal
              /\ Decide(r).human = d.human
              /\ \A f \in DOMAIN NewCase \ {"proposal", "refusal", "human"} :
                   Decide(r)[f] = r[f]
            BY <2>4, StageFields
        <3> QED BY <2>5, <3>1
    <2> HIDE DEF d
    <2>8. \A f \in Read : R[f] = e[f]
        <3>1. Read \ {"proposal", "refusal", "human"}
                \subseteq DOMAIN NewCase \ {"proposal", "refusal", "human"}
            BY DEF NewCase
        <3>2. R.proposal = e.proposal /\ R.refusal = e.refusal /\ R.human = e.human
            BY <1>1, <2>6, <2>7 DEF Decided
        <3> QED BY <2>4, <2>7, <3>1, <3>2
    <2> QED BY <1>1, <2>3, <2>8, PassesAlike
<1> QED BY <1>2, <1>4, <1>5, <1>6, <1>7

\* No node refuses the case of an undamaged run that would pass.
LEMMA UndamagedAccepted ==
    ASSUME WorldOK
    PROVE  /\ Accepts("resolve_concept", Resolved)
           /\ Accepts("inspect_bindings", Bind(Resolved))
           /\ Accepts("hypothesize", Hypothesized)
           /\ Accepts("execute", Execute(Hypothesized))
           /\ Accepts("rank_impact", Rank(Execute(Hypothesized)))
           /\ Accepts("resolve_authority", Authorize(Rank(Execute(Hypothesized))))
                \/ ~ Passes(Reference)
           /\ Accepts("decide", Reference)
PROOF
<1> DEFINE D == DOMAIN TrueResults
           H == Hypothesized
           E == Execute(Hypothesized)
<1>1. Resolved.concept # None
    <2>1. Resolved.concept = concept
        BY DEF Resolved, NewCase
    <2> QED BY <2>1, PipelineAssumption DEF WorldOK
<1>2. D # {} /\ Bind(Resolved).bindings = D /\ H.bindings = D
    BY TrueTyped, HypothesizedFields DEF Bound
<1>3. Open # Empty \/ (Governing # None /\ Cardinality(D) = 1)
    <2>1. CASE local /\ canonical # None
        BY <2>1, TrueTyped, FS_Singleton DEF Governing
    <2>2. CASE ~ (local /\ canonical # None)
        <3>1. D = Definitions[concept]
            BY <2>2, TrueTyped
        <3>2. IsFiniteSet(D) /\ Cardinality(D) \in {2, 3}
            BY <3>1, PipelineAssumption DEF WorldOK
        <3>3. PICK x \in D : TRUE
            BY <1>2
        <3>4. PICK y \in D : y # x
            <4>1. D # {x}
                BY <3>2, FS_Singleton
            <4> HIDE DEF D
            <4> QED BY <3>3, <4>1
        <3>5. Cardinality({x, y}) = 2
            <4>1. IsFiniteSet({x}) /\ Cardinality({x}) = 1
                BY FS_Singleton
            <4>2. {x, y} = {x} \cup {y} /\ y \notin {x}
                BY <3>4
            <4> QED BY <4>1, <4>2, FS_AddElement
        <3>6. {x, y} \in DOMAIN Open
            BY <3>3, <3>4, <3>5 DEF Open, Pairs
        <3> QED BY <3>6 DEF Empty
    <2> QED BY <2>1, <2>2
<1>4. Accepts("hypothesize", H)
    <2>1. H.hypotheses = Open /\ H.governed = Governing
        BY HypothesizedFields
    <2> HIDE DEF D, H
    <2> QED BY <1>2, <1>3, <2>1 DEF Accepts
<1>5. Ruled(E)
    <2>1. /\ E.results = TrueResults /\ E.evidence = EvidenceOf(TrueResults)
          /\ E.hypotheses = Rule(Open, TrueResults, EvidenceOf(TrueResults))
          /\ E.governed = Governing
        <3>1. Executed(E) /\ E.hypotheses = Rule(Open, TrueResults, EvidenceOf(TrueResults))
            BY ReferenceFields
        <3>2. E.governed = H.governed
            <4>1. "governed" \in DOMAIN NewCase \ {"results", "evidence", "verdict", "hypotheses"}
                BY DEF NewCase
            <4>2. Shaped(H)
                BY HypothesizedFields DEF Bound
            <4> QED BY <4>1, <4>2, StageFields
        <3> QED BY <3>1, <3>2, HypothesizedFields DEF Executed
    <2>2. E.results # Empty /\ E.evidence # Empty
        <3>1. DOMAIN E.results # {} /\ DOMAIN E.evidence # {}
            BY <1>2, <2>1 DEF EvidenceOf
        <3> HIDE DEF E
        <3> QED BY <3>1 DEF Empty
    <2>3. DOMAIN E.hypotheses = DOMAIN Open
        BY <2>1 DEF Rule
    <2>4. E.hypotheses # Empty \/ (E.governed # None /\ Cardinality(DOMAIN E.results) = 1)
        <3>1. Open # Empty => DOMAIN Open # {}
            BY DEF Open, Empty
        <3>2. DOMAIN Empty = {}
            BY DEF Empty
        <3> HIDE DEF E
        <3> QED BY <1>3, <2>1, <2>3, <3>1, <3>2
    <2>5. \A p \in DOMAIN E.hypotheses :
            E.hypotheses[p].ruling # "open" /\ Cardinality(DOMAIN E.hypotheses[p].cites) = 2
        <3> DEFINE ev == EvidenceOf(TrueResults)
                   hs == Rule(Open, TrueResults, ev)
        <3>1. \A p \in DOMAIN Open : Cardinality(p) = 2
            BY DEF Open, Pairs
        <3>2. \A p \in DOMAIN hs : Cardinality(DOMAIN hs[p].cites) = 2
            <4> HIDE DEF ev
            <4> QED BY <3>1, RuledPaired
        <3>3. \A p \in DOMAIN hs : hs[p].ruling # "open"
            BY DEF Rule, Ruling
        <3> HIDE DEF hs, ev
        <3>4. E.hypotheses = hs
            BY <2>1 DEF hs, ev
        <3> QED BY <3>2, <3>3, <3>4
    <2> HIDE DEF E
    <2> QED BY <2>2, <2>4, <2>5 DEF Ruled
<1>6. Accepts("resolve_concept", Resolved)
    BY <1>1 DEF Accepts
<1>7. Accepts("inspect_bindings", Bind(Resolved))
    BY <1>2 DEF Accepts
<1>8. Accepts("execute", E)
    <2> HIDE DEF E
    <2> QED BY <1>5 DEF Accepts
<1>9. Accepts("rank_impact", Rank(E))
    <2>1. Rank(E).impact # None
        BY ReferenceFields, ImpactTyped
    <2> QED BY <2>1 DEF Accepts
<1>10. Accepts("resolve_authority", Authorize(Rank(E))) \/ ~ Passes(Reference)
    <2> SUFFICES ASSUME Passes(Reference)
                 PROVE  Accepts("resolve_authority", Authorize(Rank(E)))
        OBVIOUS
    <2>1. Reference.authority # None
        BY DEF Passes, DecisionConsistent
    <2>2. Authorize(Rank(E)).authority = Authority(rules) /\ Reference.authority = Authority(rules)
        BY ReferenceFields, StageFields
    <2> HIDE DEF E
    <2> QED BY <2>1, <2>2 DEF Accepts
<1>11. Accepts("decide", Reference)
    <2>1. Reference.proposal # None \/ Reference.refusal \/ Reference.verdict = "consistent"
        BY ReferenceFields, ConflictDecided DEF Executed, Decided
    <2> QED BY <2>1 DEF Accepts
<1> QED BY <1>4, <1>6, <1>7, <1>8, <1>9, <1>10, <1>11

\* What depends on the world alone is the same after a step.
LEMMA WorldFixed ==
    ASSUME UNCHANGED world
    PROVE  /\ Resolved' = Resolved /\ Bind(Resolved)' = Bind(Resolved)
           /\ Hypothesized' = Hypothesized
           /\ Execute(Hypothesized)' = Execute(Hypothesized)
           /\ Rank(Execute(Hypothesized))' = Rank(Execute(Hypothesized))
           /\ Authorize(Rank(Execute(Hypothesized)))' = Authorize(Rank(Execute(Hypothesized)))
           /\ Reference' = Reference /\ (Passes(Reference)' <=> Passes(Reference))
           /\ Losses(Reference)' = Losses(Reference)
PROOF
<1>1. /\ mode' = mode /\ concept' = concept /\ data' = data /\ rules' = rules
      /\ canonical' = canonical /\ local' = local /\ TrueResults' = TrueResults
    BY WorldSteady
<1>2. Resolved' = Resolved
    BY <1>1 DEF Resolved
<1>3. Bind(Resolved)' = Bind(Resolved)
    BY <1>1, <1>2 DEF Bind
<1>4. Open' = Open
    BY <1>1 DEF Open
<1>5. Hypothesized' = Hypothesized
    BY <1>3, <1>4 DEF Hypothesized
<1>6. Execute(Hypothesized)' = Execute(Hypothesized)
    BY <1>1, <1>5 DEF Execute
<1>7. Rank(Execute(Hypothesized))' = Rank(Execute(Hypothesized))
    BY <1>6 DEF Rank
<1>8. Authorize(Rank(Execute(Hypothesized)))' = Authorize(Rank(Execute(Hypothesized)))
    BY <1>1, <1>7 DEF Authorize
<1>9. Reference' = Reference
    BY <1>1 DEF Reference, Decide, Authorize, Rank, Execute, Governing
<1>10. Passes(Reference)' <=> Passes(Reference)
    BY <1>9
<1>11. Losses(Reference)' = Losses(Reference)
    BY <1>9
<1> QED BY <1>2, <1>3, <1>5, <1>6, <1>7, <1>8, <1>9, <1>10, <1>11

\* The authority resolver always answers with a record.
LEMMA AuthorityIsOne ==
    ASSUME WorldOK
    PROVE  Authority(rules) # None
PROOF
<1> DEFINE clear  == {r \in rules : r.status = "clear" /\ r.owner # None}
           naming == {r \in clear : r.canonical}
           statuses == {r.status : r \in rules}
           whose == Authority(rules).owner
           states == {"clear", "ambiguous", "shared", "missing"}
<1>1. \E s \in states : Authority(rules) = [status |-> s, owner |-> whose]
    <2>1. CASE naming # {}
        <3>1. Authority(rules) = [status |-> "clear", owner |-> (CHOOSE r \in naming : TRUE).owner]
            BY <2>1 DEF Authority
        <3> QED BY <3>1
    <2>2. CASE /\ naming = {}
               /\ rules # {} /\ statuses = {"clear"} /\ Cardinality({r.owner : r \in clear}) = 1
        <3>1. Authority(rules) = [status |-> "clear", owner |-> (CHOOSE r \in clear : TRUE).owner]
            BY <2>2 DEF Authority
        <3> QED BY <3>1
    <2>3. CASE /\ naming = {}
               /\ ~ (rules # {} /\ statuses = {"clear"} /\ Cardinality({r.owner : r \in clear}) = 1)
        <3> DEFINE s == CASE "ambiguous" \in statuses -> "ambiguous"
                          [] "shared" \in statuses -> "shared"
                          [] OTHER -> "missing"
        <3>1. Authority(rules) = [status |-> s, owner |-> None]
            BY <2>3 DEF Authority
        <3>2. s \in states
            <4> HIDE DEF statuses
            <4> QED OBVIOUS
        <3> HIDE DEF s, statuses
        <3> QED BY <3>1, <3>2
    <2> QED BY <2>1, <2>2, <2>3
<1>2. whose \in Owners \cup {None}
    BY AuthorityTyped
<1> HIDE DEF whose
<1>3. Authority(rules) \in [status: states, owner: Owners \cup {None}]
    BY <1>1, <1>2
<1> QED BY <1>3, PipelineAssumption

\* An undamaged run goes on, or ends without saving a case that could not pass.
LEMMA UndamagedGoesOn ==
    ASSUME PipelineInv, RepairInv, UNCHANGED <<world, saved, damage>>, damage = "none",
           pc # "done",
           \/ pc' # "done" /\ Undamaged(pc', case')
           \/ pc' = "done" /\ ended' \in {"unsupported", "failed"}
           \/ pc' = "done" /\ ~ Passes(Reference)
    PROVE  RepairInv'
PROOF
<1>1. /\ saved' = {} /\ damage' = "none"
    BY DEF PipelineInv, Unfinished
<1>2. ~ Repairable' /\ OneLossIsRepaired'
    BY <1>1 DEF Repairable, OneLossIsRepaired
<1>3. ModesAgree'
    <2>1. Passes(Reference)' <=> Passes(Reference)
        BY WorldFixed
    <2> QED BY <1>1, <2>1 DEF ModesAgree
<1>4. Undamaged(pc, case)'
    <2>1. CASE pc' = "done"
        BY <2>1 DEF Undamaged
    <2>2. CASE Undamaged(pc', case')
        <3> USE WorldFixed
        <3>1. /\ (pc = "resolve_concept" => case = NewCase)'
              /\ (pc = "inspect_bindings" => case = Resolved)'
              /\ (pc = "hypothesize" => case = Bind(Resolved))'
              /\ (pc = "execute" => case = Hypothesized)'
              /\ (pc = "rank_impact" => case = Execute(Hypothesized))'
              /\ (pc = "resolve_authority" => case = Rank(Execute(Hypothesized)))'
              /\ (pc = "decide" => case = Authorize(Rank(Execute(Hypothesized))))'
              /\ (pc = "verify" => case = Reference)'
            BY <2>2 DEF Undamaged
        <3>2. (pc = "audit" => /\ case.passed <=> Passes(Reference)
                               /\ case.passed => Saveable(case) /\ case.attempts = 1)'
            BY <2>2 DEF Undamaged
        <3> QED BY <3>1, <3>2 DEF Undamaged
    <2> QED BY <2>1, <2>2
<1> QED BY <1>1, <1>2, <1>3, <1>4 DEF RepairInv

\* A stage that leaves the undamaged case.
LEMMA UndamagedLeaves ==
    ASSUME PipelineInv, RepairInv, damage = "none", pc # "done", NEW stage, NEW c,
           Leaves(stage, c), After(stage) # "done", Undamaged(After(stage), c),
           Accepts(stage, c) \/ ~ Passes(Reference)
    PROVE  RepairInv'
PROOF
<1>1. case' = c /\ UNCHANGED <<world, damage, saved>>
    BY DEF Leaves
<1>2. CASE pc' = After(stage)
    BY <1>1, <1>2, UndamagedGoesOn
<1>3. CASE pc' # After(stage)
    <2>1. pc' = "done" /\ ~ Accepts(stage, c)
        BY <1>3 DEF Leaves, End
    <2> QED BY <1>1, <2>1, UndamagedGoesOn
<1> QED BY <1>2, <1>3

\* The stages before the verifier.
LEMMA UndamagedStep ==
    ASSUME PipelineInv, RepairInv,
           ResolveConcept \/ InspectBindings \/ HypothesizeConflicts \/ ExecuteDefinitions
           \/ RankImpact \/ ResolveAuthority \/ ReconcileOrRefuse
    PROVE  RepairInv'
PROOF
<1>i. /\ WorldOK /\ pc \notin {"verify", "audit", "done"} /\ damage = "none"
      /\ Undamaged(pc, case) /\ pc # "done"
    BY DEF PipelineInv, RepairInv, ResolveConcept, InspectBindings, HypothesizeConflicts,
           ExecuteDefinitions, RankImpact, ResolveAuthority, ReconcileOrRefuse
<1>1. CASE ResolveConcept
    <2>1. CASE concept \in Supported
        <3>1. case = NewCase /\ Leaves("resolve_concept", Resolved)
            BY <1>i, <1>1, <2>1 DEF ResolveConcept, Undamaged, Resolved
        <3>2. Undamaged(After("resolve_concept"), Resolved) /\ After("resolve_concept") # "done"
            BY StagesInOrder DEF Undamaged
        <3> QED BY <1>i, <3>1, <3>2, UndamagedAccepted, UndamagedLeaves
    <2>2. CASE concept \notin Supported
        <3>1. UNCHANGED <<world, damage, saved>> /\ pc' = "done" /\ ended' = "unsupported"
            BY <1>1, <2>2 DEF ResolveConcept, End
        <3> QED BY <1>i, <3>1, UndamagedGoesOn
    <2> QED BY <2>1, <2>2
<1>2. CASE InspectBindings
    <2>1. Leaves("inspect_bindings", Bind(Resolved))
        BY <1>i, <1>2 DEF InspectBindings, Undamaged
    <2>2. /\ Undamaged(After("inspect_bindings"), Bind(Resolved))
          /\ After("inspect_bindings") # "done"
        BY StagesInOrder DEF Undamaged
    <2> QED BY <1>i, <2>1, <2>2, UndamagedAccepted, UndamagedLeaves
<1>3. CASE HypothesizeConflicts
    <2>1. case = Bind(Resolved) /\ case.bindings = DOMAIN TrueResults
        BY <1>i, <1>3, HypothesizedFields DEF HypothesizeConflicts, Undamaged, Bound
    <2>2. Leaves("hypothesize", Hypothesized)
        BY <1>3, <2>1 DEF HypothesizeConflicts, Hypothesized, Open
    <2>3. Undamaged(After("hypothesize"), Hypothesized) /\ After("hypothesize") # "done"
        BY StagesInOrder DEF Undamaged
    <2> QED BY <1>i, <2>2, <2>3, UndamagedAccepted, UndamagedLeaves
<1>4. CASE ExecuteDefinitions
    <2>1. Leaves("execute", Execute(Hypothesized))
        BY <1>i, <1>4 DEF ExecuteDefinitions, Undamaged
    <2>2. Undamaged(After("execute"), Execute(Hypothesized)) /\ After("execute") # "done"
        BY StagesInOrder DEF Undamaged
    <2> QED BY <1>i, <2>1, <2>2, UndamagedAccepted, UndamagedLeaves
<1>5. CASE RankImpact
    <2> DEFINE K == Rank(Execute(Hypothesized))
    <2>1. Leaves("rank_impact", K)
        BY <1>i, <1>5 DEF RankImpact, Undamaged
    <2>2. Undamaged(After("rank_impact"), K) /\ After("rank_impact") # "done"
        BY StagesInOrder DEF Undamaged
    <2> QED BY <1>i, <2>1, <2>2, UndamagedAccepted, UndamagedLeaves
<1>6. CASE ResolveAuthority
    <2> DEFINE A == Authorize(Rank(Execute(Hypothesized)))
    <2>1. Leaves("resolve_authority", A)
        BY <1>i, <1>6 DEF ResolveAuthority, Undamaged
    <2>2. Undamaged(After("resolve_authority"), A) /\ After("resolve_authority") # "done"
        BY StagesInOrder DEF Undamaged
    <2> QED BY <1>i, <2>1, <2>2, UndamagedAccepted, UndamagedLeaves
<1>7. CASE ReconcileOrRefuse
    <2>1. Leaves("decide", Reference)
        BY <1>i, <1>7, ReferenceFields DEF ReconcileOrRefuse, Undamaged
    <2>2. Undamaged(After("decide"), Reference) /\ After("decide") # "done"
        BY StagesInOrder DEF Undamaged
    <2> QED BY <1>i, <2>1, <2>2, UndamagedAccepted, UndamagedLeaves
<1> QED BY <1>1, <1>2, <1>3, <1>4, <1>5, <1>6, <1>7

\* The verifier passes an undamaged case if and only if it passes the reference
\* case, at its first attempt; and one with a loss a check misses, recovered.
LEMMA RepairVerify ==
    ASSUME PipelineInv, RepairInv, Verify \/ VerifyStrict
    PROVE  RepairInv'
PROOF
<1> DEFINE stage == RecoveryStage(case)
           e == Recover(stage, [case EXCEPT !.recovery = stage])
           c == IF mode = "fast" \/ Passes(case) \/ stage = "none"
                THEN Finalize(case, 1) ELSE Finalize(e, 2)
<1>1. /\ WorldOK /\ pc = "verify" /\ case' = c /\ UNCHANGED <<world, damage, saved>>
      /\ saved = {} /\ mode \in {"fast", "strict"}
    BY DEF Verify, VerifyStrict, Leaves, PipelineInv, WorldOK, Unfinished
<1>2. Accepts("verify", c)
    <2>1. c.passed \/ c.status \in {"blocked", "needs_review"}
        <3>1. \A x : Shaped(x) => \A n \in 1..2 :
                 \/ Finalize(x, n).passed
                 \/ Finalize(x, n).status \in {"blocked", "needs_review"}
            <4> SUFFICES ASSUME NEW x, Shaped(x), NEW n \in 1..2
                         PROVE  \/ Finalize(x, n).passed
                                \/ Finalize(x, n).status \in {"blocked", "needs_review"}
                OBVIOUS
            <4>1. CASE Passes(x)
                BY <4>1 DEF Finalize, Shaped, NewCase
            <4>2. CASE ~ Passes(x)
                BY <4>2 DEF Finalize, Shaped, NewCase
            <4> QED BY <4>1, <4>2
        <3>2. CASE mode = "fast" \/ Passes(case) \/ stage = "none"
            BY <3>1, <3>2 DEF PipelineInv
        <3>3. CASE ~ (mode = "fast" \/ Passes(case) \/ stage = "none")
            <4>1. Near(case)
                BY <1>1 DEF PipelineInv, Found
            <4>2. Shaped(e)
                BY <1>1, <3>3, <4>1, RecoveryTruthful
            <4> HIDE DEF e
            <4> QED BY <3>1, <3>3, <4>2
        <3> QED BY <3>2, <3>3
    <2> HIDE DEF c
    <2> QED BY <2>1 DEF Accepts
<1>3. \/ pc' = "audit" /\ ended' = ended
      \/ pc' = "done" /\ ended' = "verification_failed" /\ mode = "fast" /\ ~ Passes(case)
    <2>1. CASE Verify
        <3>1. /\ mode = "fast" /\ c = Finalize(case, 1)
              /\ \/ Finalize(case, 1).passed /\ Leaves("verify", Finalize(case, 1))
                 \/ ~ Finalize(case, 1).passed /\ End("verification_failed")
            BY <2>1 DEF Verify
        <3>2. Near(case)
            BY <1>1 DEF PipelineInv, Found
        <3>3. Finalize(case, 1).passed <=> Passes(case)
            BY <1>1, <3>2, NearTyped, Finalized
        <3> HIDE DEF c
        <3> QED BY <3>1, <3>3, StagesInOrder DEF Leaves, End
    <2>2. CASE VerifyStrict
        <3>1. mode = "strict" /\ Leaves("verify", c)
            BY <2>2 DEF VerifyStrict
        <3> HIDE DEF c
        <3> QED BY <1>2, <3>1, StagesInOrder DEF Leaves
    <2> QED BY <2>1, <2>2
<1>4. CASE damage = "none"
    <2>1. case = Reference
        BY <1>1, <1>4 DEF RepairInv, Undamaged
    <2>2. Shaped(case) /\ InRange(case)
        BY <1>1, NearTyped DEF PipelineInv, Found
    <2>3. CASE Passes(case)
        <3>1. c = [case EXCEPT !.passed = TRUE, !.attempts = 1, !.status = "passed"]
            BY <2>3 DEF Finalize
        <3>2. c.passed = TRUE /\ c.attempts = 1 /\ c.context = case.context
              /\ c.impact = case.impact /\ c.authority = case.authority
            BY <2>2, <3>1 DEF Shaped, NewCase
        <3>3. case.authority # None
            BY <2>3 DEF Passes, DecisionConsistent
        <3>4. Saveable(c)
            BY <1>1, <2>1, <3>2, <3>3, ReferenceFields, ImpactTyped DEF Saveable
        <3> HIDE DEF c
        <3>5. Undamaged("audit", c)
            BY <2>1, <2>3, <3>2, <3>4 DEF Undamaged
        <3> QED BY <1>1, <1>3, <1>4, <2>3, <3>5, UndamagedGoesOn
    <2>4. CASE ~ Passes(case)
        <3>1. stage = "none" \/ mode = "fast"
            <4>1. /\ Bound(case) /\ Executed(case) /\ Decided(case)
                  /\ case.authority = Authority(rules)
                  /\ case.impact = Impact(concept, TrueResults) /\ case.context = TRUE
                BY <1>1, <2>1, ReferenceFields
            <4>2. /\ case.evidence # Empty /\ case.impact # None /\ case.context = TRUE
                  /\ ~ (case.verdict = "conflict" /\ case.proposal = None /\ ~ case.refusal)
                <5>1. DOMAIN case.evidence # {}
                    BY <1>1, <4>1, TrueTyped DEF Executed, EvidenceOf
                <5> QED BY <1>1, <4>1, <5>1, ImpactTyped, ConflictDecided
                        DEF Executed, Decided, Empty
            <4>3. case.authority # None
                BY <1>1, <4>1, AuthorityIsOne
            <4> QED BY <4>2, <4>3, Zenon DEF RecoveryStage
        <3>2. c = Finalize(case, 1)
            BY <3>1
        <3>3. c.passed <=> FALSE
            BY <1>1, <2>2, <2>4, <3>2, Finalized
        <3> HIDE DEF c
        <3>4. Undamaged("audit", c)
            BY <2>1, <2>4, <3>3 DEF Undamaged
        <3> QED BY <1>1, <1>3, <1>4, <2>1, <2>4, <3>4, UndamagedGoesOn
    <2> QED BY <2>3, <2>4
<1>5. CASE damage # "none"
    <2>1. Repairable' => /\ Repairable /\ pc' = "audit" /\ case'.passed
        <3> SUFFICES ASSUME Repairable' PROVE Repairable /\ pc' = "audit" /\ case'.passed
            OBVIOUS
        <3>1. Repairable /\ mode = "strict" /\ Passes(Reference)
            BY <1>1, WorldFixed, WorldSteady DEF Repairable
        <3>2. PICK l \in Losses(Reference) : damage = l[1] /\ case = l[2]
            BY <1>1, <3>1 DEF RepairInv
        <3>3. l[1] # "context"
            BY <3>1, <3>2 DEF Repairable
        <3>4. Near(case)
            BY <1>1 DEF PipelineInv, Found
        <3>5. CASE Passes(case)
            <4>1. Finalize(case, 1).passed
                BY <1>1, <3>4, <3>5, NearTyped, Finalized
            <4>2. c = Finalize(case, 1)
                BY <3>5
            <4> HIDE DEF c
            <4> QED BY <1>1, <1>3, <3>1, <3>5, <4>1, <4>2
        <3>6. CASE ~ Passes(case)
            <4>1. stage # "none" /\ Passes(e)
                BY <1>1, <3>1, <3>2, <3>3, <3>6, LossRecovered
            <4>2. Shaped(e) /\ InRange(e)
                BY <1>1, <3>4, <4>1, RecoveryTruthful
            <4>3. c = Finalize(e, 2)
                BY <3>1, <3>6, <4>1
            <4> HIDE DEF c, e
            <4>4. c.passed
                BY <1>1, <4>1, <4>2, <4>3, Finalized
            <4> QED BY <1>1, <1>3, <3>1, <4>4
        <3> QED BY <3>5, <3>6
    <2>2. damage' # "none" /\ pc' \in {"audit", "done"} /\ damage' = damage
        BY <1>1, <1>3, <1>5
    <2>3. ModesAgree'
        BY <2>2 DEF ModesAgree
    <2>4. OneLossIsRepaired'
        BY <1>3, <1>1 DEF OneLossIsRepaired, PipelineInv, Unfinished
    <2> HIDE DEF c
    <2> QED BY <1>1, <2>1, <2>2, <2>3, <2>4 DEF RepairInv
<1> QED BY <1>4, <1>5

\* What is lost or altered.
LEMMA RepairDamage ==
    ASSUME PipelineInv, RepairInv, Damage
    PROVE  RepairInv'
PROOF
<1>1. /\ UNCHANGED world /\ pc = "verify" /\ pc' = "verify" /\ damage = "none"
      /\ case = Reference /\ ended' = ended /\ ended = "no"
    BY DEF Damage, RepairInv, Undamaged, PipelineInv, Unfinished
<1>2. damage' # "none"
    <2>1. \A l \in Losses(case) : l[1] # "none"
        BY DEF Losses
    <2> QED BY <2>1 DEF Damage
<1>3. Repairable' => \E l \in Losses(Reference) : damage' = l[1] /\ case' = l[2]
    BY <1>1 DEF Damage, Repairable
<1>4. Losses(Reference)' = Losses(Reference)
    BY <1>1, WorldFixed
<1>5. ModesAgree' /\ OneLossIsRepaired'
    BY <1>1, <1>2 DEF ModesAgree, OneLossIsRepaired
<1> QED BY <1>1, <1>2, <1>3, <1>4, <1>5 DEF RepairInv

\* The registry, or a provider that raises.
LEMMA RepairLast ==
    ASSUME PipelineInv, RepairInv, Audit \/ Fails
    PROVE  RepairInv'
PROOF
<1>1. /\ UNCHANGED <<world, damage>> /\ case' = case /\ pc' = "done" /\ pc # "done" /\ saved = {}
    BY DEF Audit, Fails, End, PipelineInv, Unfinished
<1>2. Passes(Reference)' <=> Passes(Reference)
    BY <1>1, WorldFixed
<1>3. CASE Fails
    <2>1. ended' = "failed"
        BY <1>3 DEF Fails, End
    <2> QED BY <1>1, <2>1 DEF RepairInv, ModesAgree, OneLossIsRepaired, Undamaged
<1>4. CASE Audit
    <2>1. /\ pc = "audit"
          /\ \/ ~ case.passed /\ ended' = "returned" /\ saved' = saved
             \/ case.passed /\ ~ Saveable(case) /\ ended' = "value_error" /\ saved' = saved
             \/ case.passed /\ Saveable(case) /\ saved' = {case}
        BY <1>4 DEF Audit, End
    <2>2. ModesAgree'
        <3>1. damage = "none" => /\ case.passed <=> Passes(Reference)
                                 /\ case.passed => Saveable(case) /\ case.attempts = 1
            BY <2>1 DEF RepairInv, Undamaged
        <3> QED BY <1>1, <1>2, <2>1, <3>1 DEF ModesAgree
    <2>3. OneLossIsRepaired'
        <3>1. Repairable => case.passed
            BY <2>1 DEF RepairInv
        <3>2. mode' = mode
            BY <1>1, WorldSteady
        <3> QED BY <1>1, <1>2, <2>1, <3>1, <3>2 DEF OneLossIsRepaired, Repairable
    <2> QED BY <1>1, <2>2, <2>3 DEF RepairInv, Undamaged
<1> QED BY <1>3, <1>4

-----------------------------------------------------------------------------
\* The theorems about runs that are undamaged, or lost one output.

\* In every reachable state an undamaged run has the case its inputs determine,
\* and one lost output is that of the reference case.
THEOREM RepairInvariance == Spec => []RepairInv
PROOF
<1>1. Init => RepairInv
    BY DEF Init, RepairInv, Undamaged, Repairable, ModesAgree, OneLossIsRepaired
<1>2. PipelineInv /\ RepairInv /\ [Next]_vars => RepairInv'
    <2> SUFFICES ASSUME PipelineInv, RepairInv, [Next]_vars PROVE RepairInv'
        OBVIOUS
    <2>1. CASE Next
        BY <2>1, UndamagedStep, RepairVerify, RepairDamage, RepairLast DEF Next, Stage
    <2>2. CASE UNCHANGED vars
        <3>1. UNCHANGED <<world, pc, case, damage, saved, ended>>
            BY <2>2 DEF vars
        <3>2. mode' = mode
            BY <3>1, WorldSteady
        <3>3. Undamaged(pc, case) => Undamaged(pc, case)'
            BY <3>1, WorldFixed DEF Undamaged, Saveable
        <3>4. Repairable' <=> Repairable
            BY <3>1, <3>2, WorldFixed DEF Repairable
        <3>5. ModesAgree' /\ OneLossIsRepaired'
            BY <3>1, <3>2, WorldFixed DEF RepairInv, ModesAgree, OneLossIsRepaired
        <3>6. Losses(Reference)' = Losses(Reference)
            BY <3>1, WorldFixed
        <3> QED BY <3>1, <3>3, <3>4, <3>5, <3>6 DEF RepairInv
    <2> QED BY <2>1, <2>2
<1> QED BY <1>1, <1>2, PipelineInvariance, PTL DEF Spec

\* Fast and strict mode save the same undamaged cases: those whose reference
\* case passes, at the first verification.
THEOREM ModesAlike == Spec => []ModesAgree
PROOF
<1>1. RepairInv => ModesAgree
    BY DEF RepairInv
<1> QED BY <1>1, RepairInvariance, PTL

\* What verify_strict recovers is what was lost: a case that would have been
\* saved is, when the evidence, the impact, the authority or the decision went
\* missing and the request is answered.
THEOREM LossesRepaired == Spec => []OneLossIsRepaired
PROOF
<1>1. RepairInv => OneLossIsRepaired
    BY DEF RepairInv
<1> QED BY <1>1, RepairInvariance, PTL
=============================================================================
