---------------------------- MODULE SemanticCourt ----------------------------
(***************************************************************************)
(* The Semantic Court (court/workflow.py, roles.py, orchestrator.py): an   *)
(* Agent Framework graph over one reconciliation case.  Its executors run  *)
(* one after the other and pass a blackboard along the edges; each adds    *)
(* turns that a language model voices, or reviewed text when it cannot.    *)
(* The audit at the end raises unless the record fits the case.            *)
(*                                                                         *)
(* A case is what the reconciliation pipeline leaves: a binding is a       *)
(* number, its result the sorted sequence of the entities it selected, its *)
(* evidence bears its number.  The framework is not in the repository: it  *)
(* delivers a message along each edge whose condition holds.               *)
(***************************************************************************)
EXTENDS Naturals, Sequences, FiniteSets

CONSTANTS Cases,  \* the cases a hearing may be convened over
          MaxOdd  \* bound: turns of a hearing that a model voices oddly

MaxIterations == 20
NoBinding == 0

\* How a turn came to be voiced.  Without a model the reviewed text is used,
\* and the reason says so.
Reviewed  == [generated |-> FALSE, words |-> "reviewed", reason |-> "plain"]
Generated == [generated |-> TRUE, words |-> "fresh", reason |-> "none"]

\* A model may also fail, with a reason that quotes what failed, or put a
\* tenant's identifier or a word that looks like a credential in the text.
Oddities ==
  {Reviewed, [Reviewed EXCEPT !.reason = "keyword"],
   [Generated EXCEPT !.words = "identifier"], [Generated EXCEPT !.words = "keyword"]}

VARIABLES
  case,   \* the frozen case
  llm,    \* the narrator: disabled, or Ollama
  court,  \* the message under way: the node it is for and the blackboard
  answer, \* what the caller of deliberate_async gets
  odd     \* turns voiced oddly so far

courtVars == <<case, llm, court, answer, odd>>

-----------------------------------------------------------------------------
(* What the roles read in the case                                         *)

Bindings(c) == DOMAIN c.results
EntitySet(c, b) == {c.results[b][i] : i \in DOMAIN c.results[b]}

\* Mutant: an agreement is reported by its verdict.
VerdictAsOutcome(c) ==
  CASE c.verdict = "consistent" -> c.verdict
    [] c.proposal -> "proposal"
    [] OTHER -> "refusal"

EarnedOutcome(c) ==
  CASE c.verdict = "consistent" -> "no_action"
    [] c.verdict # "consistent" /\ c.proposal -> "proposal"
    [] c.verdict # "consistent" /\ ~c.proposal /\ c.refusal -> "refusal"
    [] OTHER -> "no_action"

TruthDigest(c) == [verdict |-> c.verdict, passed |-> c.passed, owner |-> c.owner,
                   proposal |-> <<c.proposal, c.candidate>>, refusal |-> c.refusal,
                   evidence |-> c.results]

\* Mutant: only those are challenged that differ from the candidate.
DifferentFromCandidate(c) ==
  {b \in Bindings(c) : \E o \in Bindings(c) \ {b} :
     /\ EntitySet(c, b) # EntitySet(c, o)
     /\ c.candidate \in {NoBinding, o}}

ChallengeableBindings(c) ==
  {b \in Bindings(c) : \E o \in Bindings(c) \ {b} : EntitySet(c, b) # EntitySet(c, o)}

NeedsTargetedReplan(c) ==
  \E l, r \in Bindings(c) : /\ l < r
                            /\ Len(c.results[l]) = Len(c.results[r])
                            /\ c.results[l] # c.results[r]

\* The view admits entities the candidate excludes, and all of the candidate's.
Admits(c, b) ==
  /\ c.candidate # NoBinding
  /\ EntitySet(c, c.candidate) \subseteq EntitySet(c, b)
  /\ EntitySet(c, c.candidate) # EntitySet(c, b)

ResponseOf(c, b) ==
  CASE ~c.owner -> "reframed"
    [] c.owner /\ b = c.candidate -> "defended"
    [] c.owner /\ b # c.candidate /\ Admits(c, b) -> "narrowed"
    [] OTHER -> "reframed"

-----------------------------------------------------------------------------
(* The turns each executor drafts, before they are voiced                  *)

Draft(round, agent, role, disposition, binding, cites) ==
  [round |-> round, agent |-> agent, role |-> role, disposition |-> disposition,
   binding |-> binding, cites |-> cites]

\* The numbers of S, the smallest first.
Rank(S, b) == Cardinality({o \in S : o <= b})
InOrder(S) == [i \in 1 .. Cardinality(S) |-> CHOOSE b \in S : Rank(S, b) = i]
PerBinding(S, Turn(_)) == [i \in 1 .. Cardinality(S) |-> Turn(InOrder(S)[i])]

Opening == <<Draft(0, "Coordinator", "orchestrator", "asserted", NoBinding, {})>>

StewardTurns(c) ==
  PerBinding(Bindings(c),
    LAMBDA b : Draft(1, "Steward", "steward", "asserted", b, {b}))

PlanTurn == <<Draft(2, "Plan", "investigator", "asserted", NoBinding, {})>>

ReviewTurn(c) ==
  <<Draft(3, "Review", "investigator", "confirmed", NoBinding, Bindings(c))>>

ReplanTurn(c) ==
  <<Draft(4, "Replan", "investigator", "confirmed", NoBinding, Bindings(c))>>

SkepticTurns(c, challenged) ==
  PerBinding(challenged,
    LAMBDA b : Draft(5, "Skeptic", "skeptic", "challenged", b, {b}))

ResponseTurns(c, challenged) ==
  PerBinding(challenged,
    LAMBDA b : Draft(6, "Steward", "steward", ResponseOf(c, b), b, {b}))

ConsensusTurn(c) ==
  <<Draft(5, "Consensus", "skeptic", "confirmed", NoBinding, Bindings(c))>>

ReflectionTurn(c) ==
  <<Draft(7, "Reflection", "skeptic", "confirmed", NoBinding, Bindings(c))>>

AuthorityTurn(c) ==
  <<Draft(8, "Authority", "authority",
          IF c.owner THEN "confirmed" ELSE "refused", NoBinding, {})>>

ClosingTurn(outcome) ==
  <<Draft(9, "Audit", "orchestrator",
          IF outcome = "refusal" THEN "refused" ELSE "confirmed", NoBinding, {})>>

-----------------------------------------------------------------------------
(* The clerk and the graph                                                 *)

NoCourt == [node |-> "none", outcome |-> "no_action", truth |-> <<>>, turns |-> <<>>,
            trace |-> <<>>, replan |-> FALSE, challenged |-> {}]
NoAnswer == [kind |-> "none"]

\* The opening names the run, in reviewed words too.
Wording(draft, said) ==
  IF draft.agent = "Coordinator" /\ said.words = "reviewed"
  THEN [said EXCEPT !.words = "identifier"] ELSE said

\* CourtClerk.emit: the turns are numbered on from those that were heard.
Voiced(drafts, said, heard) ==
  [i \in DOMAIN drafts |-> [no |-> heard + i, draft |-> drafts[i],
                            voice |-> Wording(drafts[i], said[i])]]

\* The narrations that may come of n requests, at most k of them odd.
Usual == IF llm = "disabled" THEN Reviewed ELSE Generated
Narrations(n, k) ==
  {[i \in 1 .. n |-> Usual]} \union
  (IF llm = "disabled" \/ k = 0 THEN {}
   ELSE {[i \in 1 .. n |-> IF i = j THEN o ELSE Usual] : j \in 1 .. n, o \in Oddities})

Edges ==
  {<<"Coordinator", "Panel">>, <<"Panel", "Plan">>, <<"Plan", "Review">>,
   <<"Review", "Replan">>, <<"Review", "Branch">>, <<"Replan", "Branch">>,
   <<"Branch", "Skeptic">>, <<"Branch", "Consensus">>, <<"Skeptic", "Response">>,
   <<"Response", "Reflection">>, <<"Reflection", "Authority">>,
   <<"Consensus", "Authority">>, <<"Authority", "Audit">>}

Open(edge, board) ==
  /\ edge = <<"Review", "Replan">> => board.replan
  /\ edge = <<"Review", "Branch">> => ~board.replan
  /\ edge = <<"Branch", "Skeptic">> => case.verdict = "conflict"
  /\ edge = <<"Branch", "Consensus">> => case.verdict = "consistent"

Successors(node, board) ==
  {n \in {e[2] : e \in Edges} : <<node, n>> \in Edges /\ Open(<<node, n>>, board)}

\* Send the blackboard on; with no edge open the workflow ends silently, and
\* deliberate_async misses its one transcript.
Send(board) ==
  LET next == Successors(court.node, board) IN
  /\ answer' = IF next = {} THEN [kind |-> "failed"] ELSE answer
  /\ \E n \in IF next = {} THEN {"none"} ELSE next : court' = [board EXCEPT !.node = n]

\* state.advanced.
Advanced(drafts, said) ==
  [court EXCEPT !.turns = @ \o Voiced(drafts, said, Len(@)), !.trace = Append(@, court.node)]

\* An executor: the board it sends is Board applied to the advanced one.
Executor(node, drafts, Board(_)) ==
  /\ court.node = node
  /\ \E said \in Narrations(Len(drafts), MaxOdd - odd) :
       /\ Send(Board(Advanced(drafts, said)))
       /\ odd' = odd + Cardinality({i \in DOMAIN said : said[i] # Usual})
  /\ UNCHANGED <<case, llm>>

Same(board) == board

-----------------------------------------------------------------------------

CourtInit ==
  /\ case \in Cases
  /\ llm \in {"disabled", "ollama"}
  /\ court = NoCourt
  /\ answer = NoAnswer
  /\ odd = 0

\* deliberate_async: _require_ready, then the graph over a deep copy.
Ready(c) == /\ c.results # <<>>
            /\ c.verdict # "incomplete"
            /\ c.passed

\* What the pipeline leaves: the results of a definition are ids in order,
\* without repetition; in a case the verifier passed the verdict is that of
\* the results, and a conflict has a proposal if there is an owner and a
\* refusal if not.
CasesAssumption ==
  /\ MaxOdd \in Nat
  /\ \A c \in Cases :
       /\ c.results \in Seq(Seq(Nat))
       /\ \A b \in Bindings(c) : \A i, j \in DOMAIN c.results[b] :
            i < j => c.results[b][i] < c.results[b][j]
       /\ c.verdict \in {"conflict", "consistent", "incomplete"}
       /\ c.passed \in BOOLEAN /\ c.owner \in BOOLEAN
       /\ c.proposal \in BOOLEAN /\ c.refusal \in BOOLEAN
       /\ Ready(c) =>
            /\ c.verdict = IF \E l, r \in Bindings(c) : EntitySet(c, l) # EntitySet(c, r)
                           THEN "conflict" ELSE "consistent"
            /\ c.proposal <=> c.verdict = "conflict" /\ c.owner
            /\ c.refusal <=> c.verdict = "conflict" /\ ~c.owner
ASSUME CasesAssumption

Convene ==
  /\ answer = NoAnswer
  /\ court = NoCourt
  /\ \/ /\ Ready(case)
        /\ court' = [NoCourt EXCEPT !.node = "Coordinator", !.outcome = EarnedOutcome(case),
                                    !.truth = TruthDigest(case)]
        /\ UNCHANGED answer
     \/ /\ ~Ready(case)
        /\ answer' = [kind |-> "not_ready"]
        /\ UNCHANGED court
  /\ UNCHANGED <<case, llm, odd>>

Coordinate == Executor("Coordinator", Opening, Same)

HearStewards == Executor("Panel", StewardTurns(case), Same)

PlanHearing == Executor("Plan", PlanTurn, Same)

ReviewEvidence ==
  Executor("Review", ReviewTurn(case),
           LAMBDA board : [board EXCEPT !.replan = NeedsTargetedReplan(case)])

Replan ==
  Executor("Replan", ReplanTurn(case), LAMBDA board : [board EXCEPT !.replan = FALSE])

RouteVerdict == Executor("Branch", <<>>, Same)

CrossExamine ==
  Executor("Skeptic", SkepticTurns(case, ChallengeableBindings(case)),
           LAMBDA board : [board EXCEPT !.challenged = ChallengeableBindings(case)])

HearResponses == Executor("Response", ResponseTurns(case, court.challenged), Same)

Reflect == Executor("Reflection", ReflectionTurn(case), Same)

ConfirmConsensus == Executor("Consensus", ConsensusTurn(case), Same)

ResolveAuthority == Executor("Authority", AuthorityTurn(case), Same)

\* What CourtAuditAgent insists on.
AuditPasses(board) ==
  LET turns == board.turns
      rulings == {i \in DOMAIN turns : turns[i].draft.agent = "Authority"} IN
  /\ TruthDigest(case) = board.truth
  /\ EarnedOutcome(case) = board.outcome
  /\ UNION {turns[i].draft.cites : i \in DOMAIN turns} = Bindings(case)
  /\ Cardinality(rulings) = 1
  /\ \A i \in rulings :
       turns[i].draft.disposition = IF case.owner THEN "confirmed" ELSE "refused"

\* content_digest covers the meaning and the words, neither mode nor voices.
ContentDigest(t) ==
  [verdict |-> t.verdict, outcome |-> t.outcome, owner |-> t.owner,
   evidence |-> t.evidence, trace |-> t.trace,
   turns |-> [i \in DOMAIN t.turns |-> [no |-> t.turns[i].no, draft |-> t.turns[i].draft,
                                        words |-> t.turns[i].voice.words]]]

Sealed(t) == [t EXCEPT !.digest = ContentDigest(t)]

TranscriptOf(board) ==
  LET turns == board.turns IN
  Sealed([verdict |-> case.verdict, outcome |-> board.outcome, owner |-> case.owner,
          evidence |-> Bindings(case), trace |-> board.trace, turns |-> turns,
          mode |-> IF \E i \in DOMAIN turns : turns[i].voice.generated
                   THEN "live_captured" ELSE "deterministic_fallback",
          rounds |-> 1 + turns[CHOOSE i \in DOMAIN turns : \A j \in DOMAIN turns :
                                 turns[j].draft.round <= turns[i].draft.round].draft.round,
          digest |-> <<>>])

Audit ==
  /\ court.node = "Audit"
  /\ \E said \in Narrations(1, MaxOdd - odd) :
       LET final == Advanced(ClosingTurn(court.outcome), said) IN
       /\ answer' = IF AuditPasses(final)
                    THEN [kind |-> "heard", transcript |-> TranscriptOf(final)]
                    ELSE [kind |-> "failed"]
       /\ odd' = odd + Cardinality({i \in DOMAIN said : said[i] # Usual})
  /\ court' = NoCourt
  /\ UNCHANGED <<case, llm>>

\* The model is silent for longer than the transport waits: the TimeoutError is
\* none of the errors narrate turns into reviewed text, and the hearing ends.
NarratorTimesOut ==
  /\ llm = "ollama"
  /\ court.node \notin {"none", "Branch"}
  /\ answer' = [kind |-> "unvoiced"]
  /\ court' = NoCourt
  /\ UNCHANGED <<case, llm, odd>>

Hearing ==
  \/ Coordinate \/ HearStewards \/ PlanHearing \/ ReviewEvidence \/ Replan
  \/ RouteVerdict \/ CrossExamine \/ HearResponses \/ Reflect \/ ConfirmConsensus
  \/ ResolveAuthority \/ Audit \/ NarratorTimesOut

CourtNext == Convene \/ Hearing

CourtSpec == CourtInit /\ [][CourtNext]_courtVars

-----------------------------------------------------------------------------
(* Properties                                                              *)

Nodes == {"none"} \union {e[1] : e \in Edges} \union {e[2] : e \in Edges}

\* The blackboard, the narrator and the answer have their types.
CourtTypeOK ==
  /\ case \in Cases
  /\ llm \in {"disabled", "ollama"}
  /\ court.node \in Nodes
  /\ court.outcome \in {"proposal", "refusal", "no_action"}
  /\ court.replan \in BOOLEAN
  /\ court.challenged \subseteq Bindings(case)
  /\ \A i \in DOMAIN court.trace : court.trace[i] \in Nodes \ {"none"}
  /\ answer.kind \in {"none", "not_ready", "failed", "unvoiced", "heard"}
  /\ odd \in 0 .. MaxOdd

\* The turns on a binding with a disposition, by their numbers.
On(turns, b, dispositions) ==
  {i \in DOMAIN turns : turns[i].draft.binding = b
                        /\ turns[i].draft.disposition \in dispositions}
Answers == {"defended", "narrowed", "reframed"}

\* Every hearing of a ready case comes to its transcript, unless the narrator
\* times out: no verdict is without a branch and no audit finds fault.  In that
\* transcript the turns are numbered without a gap and in the order of the
\* rounds; every binding was asserted once; in a conflict each was challenged
\* once and answered once, later, in an agreement none was; only the proposed
\* candidate was defended, and only under an owner; the replan was heard once
\* if equal totals hid unequal results, else not at all.
HeardInFull ==
  /\ answer.kind # "failed"
  /\ Len(court.trace) <= MaxIterations
  /\ answer.kind = "heard" =>
       LET t == answer.transcript
           turns == t.turns IN
       /\ \A i \in DOMAIN turns : turns[i].no = i
       /\ \A i, j \in DOMAIN turns : i < j => turns[i].draft.round <= turns[j].draft.round
       /\ \A b \in Bindings(case) :
            LET asserted == On(turns, b, {"asserted"})
                challenged == On(turns, b, {"challenged"})
                answered == On(turns, b, Answers) IN
            /\ Cardinality(asserted) = 1
            /\ Cardinality(challenged) = IF t.verdict = "conflict" THEN 1 ELSE 0
            /\ Cardinality(answered) = Cardinality(challenged)
            /\ \A i \in challenged, j \in answered : i < j
            /\ On(turns, b, {"defended"}) # {} <=>
                 t.verdict = "conflict" /\ case.owner /\ b = case.candidate
            /\ On(turns, b, {"narrowed"}) # {} =>
                 \A o \in Bindings(case) : On(turns, o, {"defended"}) # {} =>
                   /\ EntitySet(case, o) \subseteq EntitySet(case, b)
                   /\ EntitySet(case, o) # EntitySet(case, b)
       /\ Cardinality({i \in DOMAIN t.trace : t.trace[i] = "Replan"}) =
            IF \E l, r \in Bindings(case) :
                 /\ EntitySet(case, l) # EntitySet(case, r)
                 /\ Cardinality(EntitySet(case, l)) = Cardinality(EntitySet(case, r))
            THEN 1 ELSE 0
       /\ t.outcome = "refusal" <=> turns[Len(turns)].draft.disposition = "refused"
       /\ t.outcome = "refusal" <=> t.verdict = "conflict" /\ ~case.owner
=============================================================================
