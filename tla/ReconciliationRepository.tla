---------------------- MODULE ReconciliationRepository ----------------------
(***************************************************************************)
(* The PostgreSQL registry of backend/concord/storage/repositories.py.     *)
(*                                                                         *)
(* Every API request that reaches the registry is served by a thread of    *)
(* its own and runs one method of ReconciliationRepository in one session. *)
(* The engine is created with the default isolation level (READ            *)
(* COMMITTED), so each SQL statement sees what is committed when it        *)
(* starts, and the statements of two sessions interleave.  One action      *)
(* below is one statement; what a transaction writes is invisible until    *)
(* its commit action installs it.  Three things make a statement wait:     *)
(* a row locked FOR UPDATE, a unique key inserted and not yet committed,   *)
(* and nothing else.                                                       *)
(*                                                                         *)
(* A row of metric_definitions gets a fresh uuid4: it is named after the   *)
(* request that inserts it.                                                *)
(***************************************************************************)
EXTENDS Naturals, FiniteSets, FiniteSetsExt

CONSTANTS
    Runs,       \* run ids of verified cases
    Terms,      \* canonical names of business terms
    Owners,     \* authority owners, and the names approvers give
    Slugs,      \* business_units.slug values
    Requests,   \* API requests; each is served once
    Workers,    \* how many requests the server works on at a time
    TermOf,     \* the resolved concept of a run's case
    OwnerOf,    \* authority_owner in a run's proposal
    SlugOf,     \* the slug an owner's name folds to
    Hosted,     \* runs computed by the remote workflow: imported, maybe twice
    Proposing,  \* runs whose case carries a reconciliation proposal
    Stored,     \* runs saved before this history begins
    Ops,        \* the operations clients call
    NoDef       \* SQL NULL in canonical_definition_id

ASSUME ConstantsAssumption ==
    /\ TermOf \in [Runs -> Terms]
    /\ OwnerOf \in [Runs -> Owners]
    /\ SlugOf \in [Owners -> Slugs]
    /\ Hosted \subseteq Runs /\ Proposing \subseteq Runs /\ Stored \subseteq Runs
    /\ Ops \subseteq {"save", "import", "approved", "rejected", "lookup"}
    /\ Workers \in Nat \ {0}
    /\ NoDef \notin Requests
    /\ IsFiniteSet(Requests)

\* What a client asks for.  "lookup" is get_canonical_definition(TermOf[run]);
\* "approved" and "rejected" are decide_proposal's decision.
Jobs == [op: Ops, run: Runs, actor: Owners]

VARIABLES
    terms,       \* committed business_terms
    runs,        \* committed reconciliation_runs
    status,      \* run -> semantic_proposals.status, "none" when there is no row
    link,        \* run -> semantic_proposals.canonical_definition_id
    units,       \* committed business_units, by slug
    defs,        \* committed metric_definitions
    decisions,   \* audit_events of type proposal_decision
    promotions,  \* audit_events of type canonical_promoted
    job,         \* request -> what it asks for
    pc,          \* request -> its next statement
    made,        \* request -> unique keys it has inserted and not committed
    snap,        \* request -> definitions its FOR UPDATE statement will lock
    prior,       \* request -> previous_canonical_ids
    version,     \* request -> version of the row it is about to insert
    found,       \* request -> the canonical row a lookup has read
    outcome      \* request -> how it ended

tables == <<terms, runs, status, link, units, defs, decisions, promotions>>
local  == <<made, snap, prior, version, found>>
vars   == <<tables, job, pc, local, outcome>>

DefRow == [term: Terms, version: Nat, state: {"canonical", "superseded"}]
Rows   == DOMAIN defs
RowsOf(t)      == {i \in Rows : defs[i].term = t}
CanonicalOf(t) == {i \in RowsOf(t) : defs[i].state = "canonical"}

run(q)  == job[q].run
term(q) == TermOf[run(q)]

Deciding(q) == job[q].op \in {"approved", "rejected"}
Active(q)   == pc[q] \notin {"waiting", "done"}

\* Mutants: neither SELECT says FOR UPDATE.
ProposalUnlocked(q)    == FALSE
DefinitionsUnlocked(q) == FALSE

\* Statements after which a decision holds its proposal row, and its term's
\* definition rows, FOR UPDATE.
HoldsProposal(q) ==
    pc[q] \in {"snapshot", "lock_definitions", "select_unit", "insert_unit", "decide"}
HoldsDefinitions(q) ==
    job[q].op = "approved" /\ pc[q] \in {"select_unit", "insert_unit", "decide"}

\* A unique key another transaction inserted and has not committed: the
\* inserter waits for that transaction to end.
KeyFree(q, key) == \A p \in Requests \ {q} : key \notin made[p]

\* Mutant: insert without looking for the row first.
BlindFirstStep(op) ==
    CASE op \in {"save", "import"} -> "insert_term"
      [] op = "lookup"            -> "find_term"
      [] OTHER                    -> "lock_proposal"

FirstStep(op) ==
    CASE op = "save"   -> "select_term"
      [] op = "import" -> "has_run"
      [] op = "lookup" -> "find_term"
      [] OTHER         -> "lock_proposal"

\* Mutants: one version too low; the number of rows in force, not of all rows.
EarlierVersion(rows) == Max({0} \cup {defs[i].version : i \in rows}) - 1
LiveVersion(rows)    == Cardinality({i \in rows : defs[i].state = "canonical"}) + 1

NextVersion(rows) == Max({0} \cup {defs[i].version : i \in rows}) + 1

-----------------------------------------------------------------------------
\* A local run id is a fresh uuid4: one request saves it, and nobody did before.
\* A hosted run keeps the id it arrived with, so it may be imported again.
ClientJobs ==
    {j \in [Requests -> Jobs] :
        \A q \in Requests :
            /\ j[q].op = "save" => j[q].run \notin Hosted \cup Stored
            /\ j[q].op = "import" => j[q].run \in Hosted
            /\ \A p \in Requests \ {q} :
                 j[p].op = "save" /\ j[q].op = "save" => j[p].run # j[q].run}

Init ==
    /\ terms = {TermOf[r] : r \in Stored}
    /\ runs = Stored
    /\ status = [r \in Runs |-> IF r \in Stored \cap Proposing THEN "draft" ELSE "none"]
    /\ link = [r \in Runs |-> NoDef]
    /\ units = {}
    /\ defs = [i \in {} |-> i]
    /\ decisions = {}
    /\ promotions = {}
    /\ job \in ClientJobs
    /\ pc = [q \in Requests |-> "waiting"]
    /\ made = [q \in Requests |-> {}]
    /\ snap = [q \in Requests |-> {}]
    /\ prior = [q \in Requests |-> {}]
    /\ version = [q \in Requests |-> 0]
    /\ found = [q \in Requests |-> NoDef]
    /\ outcome = [q \in Requests |-> "none"]

Goto(q, l) == pc' = [pc EXCEPT ![q] = l]

\* Mutant: the session is closed without a rollback and its keys stay taken.
LeakyAnswer(q, o) ==
    /\ Goto(q, "done")
    /\ outcome' = [outcome EXCEPT ![q] = o]
    /\ UNCHANGED made

\* The request is answered; what its session had not committed is rolled back.
Answer(q, o) ==
    /\ Goto(q, "done")
    /\ outcome' = [outcome EXCEPT ![q] = o]
    /\ made' = [made EXCEPT ![q] = {}]

Start(q) ==
    /\ pc[q] = "waiting"
    /\ Cardinality({p \in Requests : Active(p)}) < Workers
    /\ Goto(q, FirstStep(job[q].op))
    /\ UNCHANGED <<tables, job, local, outcome>>

\* The connection is lost, or the session raises, before the commit.  That only the
\* acknowledgement of a commit is lost is left out: to the tables it is a commit,
\* and its client is told less than here.
Fail(q) ==
    /\ Active(q)
    /\ Answer(q, "failed")
    /\ UNCHANGED <<tables, job, snap, prior, version, found>>

-----------------------------------------------------------------------------
\* save and import_verified_case

HasRun(q) ==
    /\ pc[q] = "has_run"
    /\ IF run(q) \in runs
       THEN Answer(q, "ok")
       ELSE Goto(q, "select_term") /\ UNCHANGED <<outcome, made>>
    /\ UNCHANGED <<tables, job, snap, prior, version, found>>

SelectTerm(q) ==
    /\ pc[q] = "select_term"
    /\ Goto(q, IF term(q) \in terms THEN "insert_run" ELSE "insert_term")
    /\ UNCHANGED <<tables, job, local, outcome>>

\* Mutant: the import does not look again.
RaiseIntegrityError(q) == Answer(q, "integrity_error")

\* An IntegrityError ends a save; an import looks again before it re-raises.
IntegrityError(q) ==
    IF job[q].op = "import"
    THEN /\ Goto(q, "recheck")
         /\ made' = [made EXCEPT ![q] = {}]
         /\ UNCHANGED outcome
    ELSE Answer(q, "integrity_error")

InsertTerm(q) ==
    /\ pc[q] = "insert_term"
    /\ KeyFree(q, <<"term", term(q)>>)
    /\ IF term(q) \in terms
       THEN IntegrityError(q)
       ELSE /\ made' = [made EXCEPT ![q] = @ \cup {<<"term", term(q)>>}]
            /\ Goto(q, "insert_run")
            /\ UNCHANGED outcome
    /\ UNCHANGED <<tables, job, snap, prior, version, found>>

InsertRun(q) ==
    /\ pc[q] = "insert_run"
    /\ KeyFree(q, <<"run", run(q)>>)
    /\ IF run(q) \in runs
       THEN IntegrityError(q)
       ELSE /\ made' = [made EXCEPT ![q] = @ \cup {<<"run", run(q)>>}]
            /\ Goto(q, "commit_save")
            /\ UNCHANGED outcome
    /\ UNCHANGED <<tables, job, snap, prior, version, found>>

\* Run, finding, evidence, draft proposal, audit and trace rows in one commit.
CommitSave(q) ==
    /\ pc[q] = "commit_save"
    /\ terms' = terms \cup {term(q)}
    /\ runs' = runs \cup {run(q)}
    /\ status' = IF run(q) \in Proposing THEN [status EXCEPT ![run(q)] = "draft"] ELSE status
    /\ Answer(q, "ok")
    /\ UNCHANGED <<link, units, defs, decisions, promotions, job, snap, prior, version, found>>

Recheck(q) ==
    /\ pc[q] = "recheck"
    /\ Answer(q, IF run(q) \in runs THEN "ok" ELSE "integrity_error")
    /\ UNCHANGED <<tables, job, snap, prior, version, found>>

-----------------------------------------------------------------------------
\* decide_proposal and _promote_canonical

\* SELECT ... FOR UPDATE of the proposal row, and the three early exits.
LockProposal(q) ==
    /\ pc[q] = "lock_proposal"
    /\ \A p \in Requests \ {q} : HoldsProposal(p) => run(p) # run(q)
    /\ \/ /\ status[run(q)] = "none"
          /\ Answer(q, "not_found")
       \/ /\ status[run(q)] \in {"approved", "rejected"}
          /\ Answer(q, "already_decided")
       \/ /\ status[run(q)] = "draft"
          /\ job[q].actor # OwnerOf[run(q)]
          /\ Answer(q, "unauthorized")
       \/ /\ status[run(q)] = "draft"
          /\ job[q].actor = OwnerOf[run(q)]
          /\ Goto(q, IF job[q].op = "approved" THEN "snapshot" ELSE "decide")
          /\ UNCHANGED <<outcome, made>>
    /\ UNCHANGED <<tables, job, snap, prior, version, found>>

\* The FOR UPDATE over the term's definitions starts: only rows committed by
\* now can be in its result.
SnapshotDefinitions(q) ==
    /\ pc[q] = "snapshot"
    /\ snap' = [snap EXCEPT ![q] = RowsOf(term(q))]
    /\ Goto(q, "lock_definitions")
    /\ UNCHANGED <<tables, job, made, prior, version, found, outcome>>

\* It returns once nobody else holds one of those rows, each row as it is then.
LockDefinitions(q) ==
    /\ pc[q] = "lock_definitions"
    /\ \A p \in Requests \ {q} : HoldsDefinitions(p) => snap[p] \cap snap[q] = {}
    /\ prior' = [prior EXCEPT ![q] = {i \in snap[q] : defs[i].state = "canonical"}]
    /\ version' = [version EXCEPT ![q] = NextVersion(snap[q])]
    /\ Goto(q, "select_unit")
    /\ UNCHANGED <<tables, job, made, snap, found, outcome>>

SelectUnit(q) ==
    /\ pc[q] = "select_unit"
    /\ Goto(q, IF SlugOf[OwnerOf[run(q)]] \in units THEN "decide" ELSE "insert_unit")
    /\ UNCHANGED <<tables, job, local, outcome>>

InsertUnit(q) ==
    LET slug == SlugOf[OwnerOf[run(q)]] IN
    /\ pc[q] = "insert_unit"
    /\ KeyFree(q, <<"unit", slug>>)
    /\ IF slug \in units
       THEN Answer(q, "integrity_error")
       ELSE /\ made' = [made EXCEPT ![q] = @ \cup {<<"unit", slug>>}]
            /\ Goto(q, "decide")
            /\ UNCHANGED outcome
    /\ UNCHANGED <<tables, job, snap, prior, version, found>>

\* Mutants: the row in force is not retired; when there is a row to retire the
\* new one is retired with it; the proposal is not told which row it became.
NotRetired(q) ==
    [i \in Rows \cup {q} |->
        IF i = q THEN [term |-> term(q), version |-> version[q], state |-> "canonical"]
        ELSE defs[i]]
RetiredLast(q) ==
    [i \in Rows \cup {q} |->
        IF i = q THEN [term |-> term(q), version |-> version[q],
                       state |-> IF prior[q] = {} THEN "canonical" ELSE "superseded"]
        ELSE IF i \in prior[q] THEN [defs[i] EXCEPT !.state = "superseded"]
        ELSE defs[i]]
Unlinked(q) == link

\* The rows an approval leaves behind: the locked canonical rows superseded,
\* one new canonical row, and the proposal pointing to it.
Promoted(q) ==
    [i \in Rows \cup {q} |->
        IF i = q THEN [term |-> term(q), version |-> version[q], state |-> "canonical"]
        ELSE IF i \in prior[q] THEN [defs[i] EXCEPT !.state = "superseded"]
        ELSE defs[i]]

Linked(q) == [link EXCEPT ![run(q)] = q]

CommitApproval(q) ==
    /\ pc[q] = "decide"
    /\ job[q].op = "approved"
    /\ defs' = Promoted(q)
    /\ units' = units \cup {SlugOf[OwnerOf[run(q)]]}
    /\ status' = [status EXCEPT ![run(q)] = "approved"]
    /\ link' = Linked(q)
    /\ decisions' = decisions \cup
         {[run |-> run(q), decision |-> "approved", actor |-> job[q].actor, by |-> q]}
    /\ promotions' = promotions \cup
         {[run |-> run(q), actor |-> job[q].actor, row |-> q, previous |-> prior[q]]}
    /\ Answer(q, "ok")
    /\ UNCHANGED <<terms, runs, job, snap, prior, version, found>>

CommitRejection(q) ==
    /\ pc[q] = "decide"
    /\ job[q].op = "rejected"
    /\ status' = [status EXCEPT ![run(q)] = "rejected"]
    /\ decisions' = decisions \cup
         {[run |-> run(q), decision |-> "rejected", actor |-> job[q].actor, by |-> q]}
    /\ Answer(q, "ok")
    /\ UNCHANGED <<terms, runs, link, units, defs, promotions, job, snap, prior, version, found>>

-----------------------------------------------------------------------------
\* get_canonical_definition: four statements, each with its own view

FindTerm(q) ==
    /\ pc[q] = "find_term"
    /\ IF term(q) \in terms
       THEN Goto(q, "find_canonical") /\ UNCHANGED <<outcome, made>>
       ELSE Answer(q, "no_canonical")
    /\ UNCHANGED <<tables, job, snap, prior, version, found>>

\* .order_by(created_at.desc()).first(): when several rows are canonical the
\* clock of the approving threads decides, so any of them may come first.
FindCanonical(q) ==
    /\ pc[q] = "find_canonical"
    /\ \/ /\ CanonicalOf(term(q)) = {}
          /\ Answer(q, "no_canonical")
          /\ UNCHANGED found
       \/ /\ \E i \in CanonicalOf(term(q)) : found' = [found EXCEPT ![q] = i]
          /\ Goto(q, "find_proposal")
          /\ UNCHANGED <<outcome, made>>
    /\ UNCHANGED <<tables, job, snap, prior, version>>

FindProposal(q) ==
    /\ pc[q] = "find_proposal"
    /\ IF \E r \in Runs : link[r] = found[q]
       THEN Goto(q, "find_promotion") /\ UNCHANGED <<outcome, made>>
       ELSE Answer(q, "torn")
    /\ UNCHANGED <<tables, job, snap, prior, version, found>>

FindPromotion(q) ==
    /\ pc[q] = "find_promotion"
    /\ Answer(q, IF \E e \in promotions : link[e.run] = found[q] THEN "ok" ELSE "torn")
    /\ UNCHANGED <<tables, job, snap, prior, version, found>>

-----------------------------------------------------------------------------
Step(q) ==
    \/ HasRun(q) \/ SelectTerm(q) \/ InsertTerm(q) \/ InsertRun(q)
    \/ CommitSave(q) \/ Recheck(q)
    \/ LockProposal(q) \/ SnapshotDefinitions(q) \/ LockDefinitions(q)
    \/ SelectUnit(q) \/ InsertUnit(q) \/ CommitApproval(q) \/ CommitRejection(q)
    \/ FindTerm(q) \/ FindCanonical(q) \/ FindProposal(q) \/ FindPromotion(q)

Next == \E q \in Requests : Start(q) \/ Step(q) \/ Fail(q)

\* The event loop starts a queued request when a worker is free, and the
\* database runs every statement that waits for nobody.
Fairness == \A q \in Requests : WF_vars(Step(q)) /\ WF_vars(Start(q))

Spec == Init /\ [][Next]_vars /\ Fairness
-----------------------------------------------------------------------------
Key == ({"term"} \X Terms) \cup ({"run"} \X Runs) \cup ({"unit"} \X Slugs)

Decision  == [run: Runs, decision: {"approved", "rejected"}, actor: Owners, by: Requests]
Promotion == [run: Runs, actor: Owners, row: Requests, previous: SUBSET Requests]

Statements ==
    {"has_run", "select_term", "insert_term", "insert_run", "commit_save", "recheck",
     "lock_proposal", "snapshot", "lock_definitions", "select_unit", "insert_unit", "decide",
     "find_term", "find_canonical", "find_proposal", "find_promotion"}

Outcomes ==
    {"none", "ok", "failed", "integrity_error", "not_found", "already_decided",
     "unauthorized", "no_canonical", "torn"}

\* The tables and the sessions' locals hold what their columns and variables may.
TypeOK ==
    /\ terms \subseteq Terms
    /\ runs \subseteq Runs
    /\ status \in [Runs -> {"none", "draft", "approved", "rejected"}]
    /\ link \in [Runs -> Requests \cup {NoDef}]
    /\ units \subseteq Slugs
    /\ Rows \subseteq Requests /\ defs \in [Rows -> DefRow]
    /\ decisions \subseteq Decision
    /\ promotions \subseteq Promotion
    /\ job \in [Requests -> Jobs]
    /\ pc \in [Requests -> Statements \cup {"waiting", "done"}]
    /\ made \in [Requests -> SUBSET Key]
    /\ snap \in [Requests -> SUBSET Rows]
    /\ prior \in [Requests -> SUBSET Requests]
    /\ version \in [Requests -> Nat]
    /\ found \in [Requests -> Requests \cup {NoDef}]
    /\ outcome \in [Requests -> Outcomes]

\* decide_proposal: a decided proposal has exactly one decision in the audit
\* trail, the one its status shows, made by the configured owner.
DecisionsAudited ==
    \A r \in Runs :
        LET events == {e \in decisions : e.run = r} IN
        IF status[r] \in {"approved", "rejected"}
        THEN \E e \in events : /\ events = {e}
                               /\ e.decision = status[r]
                               /\ e.actor = OwnerOf[r]
        ELSE events = {}

\* A client told that its decision was recorded is told the truth, for good:
\* of two decisions on one proposal, racing or not, at most one is answered ok.
AnsweredDecisionsHold ==
    \A q \in Requests :
        Deciding(q) /\ outcome[q] = "ok" =>
            /\ status[run(q)] = job[q].op
            /\ \A p \in Requests \ {q} :
                 Deciding(p) /\ run(p) = run(q) => outcome[p] # "ok"

\* _promote_canonical: each definition row was put there by one approved
\* proposal of its term, which points to it and whose promotion is audited;
\* and an approved proposal points to a row.
PromotionAttributed ==
    /\ \A i \in Rows : \E r \in Runs :
         /\ link[r] = i
         /\ status[r] = "approved"
         /\ TermOf[r] = defs[i].term
         /\ \E e \in promotions : e.row = i /\ e.run = r /\ e.actor = OwnerOf[r]
         /\ \A s \in Runs \ {r} : link[s] # i
    /\ \A r \in Runs : status[r] = "approved" <=> link[r] \in Rows

\* previous_canonical_definition_ids: a superseded row is named as previous by
\* exactly one promotion, of the same term and with a larger version; a
\* canonical row by none.  The history of a term can be read off its audit.
SupersededOnce ==
    \A i \in Rows :
        LET after == {e \in promotions : i \in e.previous} IN
        IF defs[i].state = "superseded"
        THEN \E e \in after :
                /\ after = {e}
                /\ e.row \in Rows
                /\ defs[e.row].term = defs[i].term
                /\ defs[e.row].version > defs[i].version
        ELSE after = {}

\* get_canonical_definition never sees half of a promotion: a lookup that finds
\* a canonical row also finds its proposal and its audit event.
LookupNeverTorn == \A q \in Requests : outcome[q] # "torn"

\* import_verified_case: importing the same hosted run twice at once is not an
\* error.  An import that ends in an IntegrityError lost to another run.
DuplicateImportsAgree ==
    \A q \in Requests :
        job[q].op = "import" /\ outcome[q] = "integrity_error" =>
            \E r \in runs \ {run(q)} : TermOf[r] = term(q)

\* Once a term is governed it stays governed: no step leaves it without a
\* canonical row, although each approval retires the row before it.
GovernedStays ==
    [][\A t \in Terms : CanonicalOf(t) # {} => (CanonicalOf(t))' # {}]_vars

\* Row locks and unique keys never make two requests wait for each other:
\* every request is answered.
RequestsEnd == \A q \in Requests : <>(pc[q] = "done")

\* "Return the one active canonical definition for a governed term": the
\* docstring of get_canonical_definition and what
\* test_approval_promotes_exactly_one_canonical_and_audits_it asserts.
OneActiveCanonical == \A t \in Terms : Cardinality(CanonicalOf(t)) <= 1

\* When requests are served one at a time none fails on a unique key.
NoKeyConflict == \A q \in Requests : outcome[q] # "integrity_error"
-----------------------------------------------------------------------------
\* The inductive strengthening of the safety properties, part by part.  It is
\* proved in RepositoryProofs.

StatementsOf(op) ==
    CASE op = "save"     -> {"select_term", "insert_term", "insert_run", "commit_save"}
      [] op = "import"   -> {"has_run", "select_term", "insert_term", "insert_run",
                             "commit_save", "recheck"}
      [] op = "lookup"   -> {"find_term", "find_canonical", "find_proposal", "find_promotion"}
      [] op = "rejected" -> {"lock_proposal", "decide"}
      [] OTHER           -> {"lock_proposal", "snapshot", "lock_definitions", "select_unit",
                             "insert_unit", "decide"}

\* A session runs the statements of its own operation and is answered once.
SessionsInOrder ==
    \A q \in Requests :
        /\ pc[q] \in StatementsOf(job[q].op) \cup {"waiting", "done"}
        /\ pc[q] # "done" => outcome[q] = "none"
        /\ ~ Active(q) => made[q] = {}

\* A run id is in one uncommitted transaction or committed, never both, so the
\* commit of a save never overwrites a proposal's status.
RunKeys ==
    /\ \A q \in Requests, r \in Runs :
         <<"run", r>> \in made[q] =>
            /\ r \notin runs
            /\ \A p \in Requests \ {q} : <<"run", r>> \notin made[p]
    /\ \A q \in Requests : pc[q] = "commit_save" => <<"run", run(q)>> \in made[q]
    /\ \A r \in Runs : status[r] # "none" => r \in runs

\* A proposal locked for a decision is a draft of the approver's, and one
\* decision at a time holds it.
ProposalLocks ==
    \A q \in Requests : HoldsProposal(q) =>
        /\ status[run(q)] = "draft"
        /\ job[q].actor = OwnerOf[run(q)]
        /\ \A p \in Requests \ {q} : HoldsProposal(p) => run(p) # run(q)

\* Rows locked for a promotion are rows of its term, locked by it alone, and
\* what it has read of them stays true.
DefinitionLocks ==
    \A q \in Requests :
        /\ pc[q] = "lock_definitions" \/ HoldsDefinitions(q) => snap[q] \subseteq RowsOf(term(q))
        /\ HoldsDefinitions(q) =>
             /\ prior[q] = {i \in snap[q] : defs[i].state = "canonical"}
             /\ \A i \in snap[q] : defs[i].version < version[q]
             /\ \A p \in Requests \ {q} : HoldsDefinitions(p) => snap[p] \cap snap[q] = {}

\* A row is there because the request it is named after approved its run's
\* proposal and was answered ok.
RowOwnership ==
    /\ \A q \in Requests :
         q \in Rows <=> job[q].op = "approved" /\ outcome[q] = "ok"
    /\ \A i \in Rows :
         /\ link[run(i)] = i
         /\ status[run(i)] = "approved"
         /\ defs[i].term = term(i)
         /\ \E e \in promotions : e.row = i
    /\ \A r \in Runs : link[r] # NoDef => link[r] \in Rows /\ run(link[r]) = r
    /\ \A r \in Runs : status[r] = "approved" => link[r] # NoDef
    /\ \A e \in promotions :
         /\ e.row \in Rows
         /\ e.previous \subseteq Rows
         /\ e.run = run(e.row)
         /\ e.actor = OwnerOf[e.run]

\* A lookup remembers a row that exists.
LookupsFound ==
    \A q \in Requests : pc[q] \in {"find_proposal", "find_promotion"} => found[q] \in Rows

Inv ==
    /\ TypeOK /\ SessionsInOrder /\ RunKeys /\ ProposalLocks /\ DefinitionLocks
    /\ RowOwnership /\ LookupsFound
    /\ DecisionsAudited /\ AnsweredDecisionsHold /\ SupersededOnce /\ LookupNeverTorn

-----------------------------------------------------------------------------
\* What decide_proposal would promise if requests came one at a time: each
\* approval replaces the one current meaning and takes the next version.
Governance == INSTANCE GovernedTerms WITH
    Ungoverned <- NoDef,
    proposal <- status,
    current <- [t \in Terms |->
                  IF CanonicalOf(t) = {} THEN NoDef
                  ELSE CHOOSE r \in Runs : link[r] \in CanonicalOf(t)],
    latest <- [t \in Terms |-> Max({0} \cup {defs[i].version : i \in RowsOf(t)})]

GovernsTerms == Governance!GSpec
=============================================================================
