------------------------------- MODULE MCCourt -------------------------------
(***************************************************************************)
(* The Semantic Court and the record of its deliberations for TLC.  A      *)
(* hearing is convened through the API over any case, or by the capture    *)
(* command over a few of them.                                             *)
(***************************************************************************)
EXTENDS DeliberationRecord, TLC

CONSTANT MaxBindings \* bound: bindings of a case

\* Results of a definition, sorted by entity.
Populations == {<<>>, <<1>>, <<2>>, <<1, 2>>}

Executed(results) ==
  IF Cardinality({{results[b][i] : i \in DOMAIN results[b]} : b \in DOMAIN results}) > 1
  THEN "conflict" ELSE "consistent"

Results == UNION {[1 .. n -> Populations] : n \in 1 .. MaxBindings}

\* What the pipeline leaves of results: a consistent case has neither proposal
\* nor refusal; a conflict has a proposal, with or without a source definition,
\* if one owner may decide, and a refusal if not.
Decided(results) ==
  {c \in [results: {results}, verdict: {Executed(results)}, passed: {TRUE},
          owner: BOOLEAN, proposal: BOOLEAN, candidate: 0 .. Len(results),
          refusal: BOOLEAN] :
     /\ c.proposal <=> c.verdict = "conflict" /\ c.owner
     /\ c.refusal <=> c.verdict = "conflict" /\ ~c.owner
     /\ c.candidate # NoBinding => c.proposal}

Heard == UNION {Decided(r) : r \in Results}

Unready ==
  {[results |-> <<>>, verdict |-> "incomplete", passed |-> FALSE, owner |-> TRUE,
    proposal |-> FALSE, candidate |-> NoBinding, refusal |-> FALSE]}
  \union {[c EXCEPT !.passed = FALSE] : c \in Decided(<<<<1>>, <<2>>>>)}

MCCases == Heard \union Unready

CapturedCases == {c \in MCCases : c.results \in {<<>>, <<<<1>>, <<1>>>>, <<<<1>>, <<1, 2>>>>}}

VARIABLE captures \* a capture command convenes the hearing, not the API

mcCourtVars == <<courtVars, recordVars, captures>>

MCCourtInit ==
  /\ CourtInit /\ RecordInit
  /\ captures \in BOOLEAN
  /\ captures => case \in CapturedCases

MCCourtNext ==
  \/ captures /\ RecordNext /\ UNCHANGED captures
  \/ ~captures /\ CourtNext /\ UNCHANGED <<recordVars, captures>>

MCCourtSpec == MCCourtInit /\ [][MCCourtNext]_mcCourtVars

\* Every variable of the court and of the record has its type.
CourtAndRecordTypeOK == CourtTypeOK /\ RecordTypeOK
=============================================================================
