# Concord IQ: TLA+ models and proofs

Concord IQ settles what a business term means when departments define it
differently. A reviewer asks about a term; specialist agents resolve it, run
every candidate definition on the data, decide whether the definitions conflict,
find who has authority, and draft a proposal or refuse. A skeptical verifier
checks the case before it is stored; the configured owner may then approve the
proposal, which makes its definition the canonical one.

This directory holds TLA+ modules of the parts of that program whose behaviour
depends on order, interleaving or failure, the TLC configurations that check
them, and TLAPS proofs of the safety properties: of the registry, the pipeline,
the cloud session, the reviewer runtime, the court and its record, the Fabric
bootstrap, the table scripts and the launcher. Paths are relative to
`backend/concord/` unless they start with `tests/` or `scripts/`.

## 1. Inventory

| Component | State it keeps | Operations | Talks to |
|---|---|---|---|
| Registry (`storage/`) | PostgreSQL tables: terms, units, metric definitions, runs, findings, proposals, audit events | `save`, `import_verified_case`, `decide_proposal`, `get_canonical_definition`, three plain reads | called by the pipeline's audit stage, the approve and reject routes, the runtime |
| Pipeline (`orchestration/runner.py`, `casefile.py`) | one blackboard per case | nine stages from `resolve_concept` to `audit`, one recovery | a provider, the agents, the registry |
| Specialist agents (`agents/`) | none | one `run` each | called by the stages |
| Agent workflow (`ms_agent/workflow.py`, `agents.py`) | a fresh graph per run | fast: one call and ten inspections; strict: a stage and an inspection per node | runs stages with `asyncio.to_thread` |
| Runtime manager (`runtime.py`) | selected context, profile and pack; the cache of verified cases; a lock | `activate`, `remember_case`, `cached_case`, `local_workflow`, `state` | used by every route |
| API routes (`api/routes.py`) | copies of the context in `app.state` | async routes on the event loop (analyze, ask, court, governed-rerun), sync routes in threads (select, approve, reject, reads) | all of the above |
| Cloud providers (`providers/cloud.py`, `cloud_snapshot.py`, `fabric_iq.py`, `foundry_iq.py`, `work_iq.py`) | call count, MCP session id, tools, semantic proofs, three caches | `resolve_concept`, `nl_query`, reads of the cache | an HTTP service, through the call guard |
| Other providers (`local.py`, `replay.py`, `foundry_hosted.py`) | none that changes | evaluate a definition, read bindings and authority | DuckDB, JSON artifacts, a hosted agent |
| Semantic Court (`court/workflow.py`, `roles.py`, `orchestrator.py`) | a frozen case and the turns so far | twelve executors in a conditional graph | an LLM for wording; the cache |
| Deliberation record (`court/capture.py`, `replay.py`, `deliberation_check.py`) | a disposable database schema, one JSON file | capture, replay, check | the pipeline, the court, people who edit the file |
| Fabric bootstrap (`fabric_bootstrap.py`) | a report; the ids in `.env`; workspaces, lakehouses, ontologies in the cloud | list, create or reuse, poll, update, upload | Fabric REST, OneLake |
| Table and ontology scripts (`scripts/*fabric*.py`) | CSV files, Delta tables, backups; tables and an ontology in the cloud | seed, build and upload, load and wait, register, back up and apply | OneLake, the load API, Livy, the same tenant as the bootstrap |
| Launcher (`dev_launcher.py`, `cloud_auth.py`) | two child processes, a state file with their pids | start, wait, shutdown, stop | the operating system, other launchers through the file |
| Portfolio, what-if, evals, exports, LLM narration, hosted agent, front end, infrastructure | none that the above read back | pure functions, generators, views | |

What is hard, and what makes each component correct:

* **Registry.** Requests are served by threads, each with its own session; the
  engine uses the default READ COMMITTED, so sessions interleave statement by
  statement and only `FOR UPDATE` and unique keys hold anything back. Correct
  means: a draft is decided once, by its owner, and the audit says so; a client
  told `ok` was told the truth; a term's definitions form a history in which
  each row supersedes named earlier ones; a governed term stays governed; a
  lookup never sees half of an approval; nobody waits for ever.
* **Pipeline, agents, workflow.** An output may be lost or altered between the
  decision and the verifier. Correct means: the results, the evidence, the verdict
  and the refusal or the proposal's owner, evidence and need of approval that
  reach the registry are what the provider's data and the authority rules imply,
  in both modes; and in strict mode the loss of the evidence, the impact, the
  authority or the decision is repaired. The definition a proposal starts from is
  not claimed: nothing checks it.
* **Runtime and routes.** The event loop switches between coroutines at awaits,
  and a selection runs in a thread at the same time. Correct means: the three
  fields of a selection change together under the lock, what can be reopened is
  in the registry, the cache forgets the least recently used first, a live
  runtime sees only the term it covers, the lock is always released.
* **Cloud session.** Threads share a provider without a lock and every call may
  fail. Correct means: the budget is kept as well as a test and a later count
  can keep it, a proof is recorded only for what the service matched, and, with
  one caller at a time, a tool is called only in a session that was told it is
  initialized.
* **Court.** Branches are conditions on edges, and a language model that may fail
  or say anything voices every turn. Correct means: a ready case is always heard
  to the end, each binding asserted, challenged and answered as the verdict asks,
  the ruling the one the case earned, whoever voices it.
* **Deliberation record.** The words are redacted after the debate, written to a
  file, edited by people and replayed. Correct means: what the check accepts has
  the verdict, the outcome, the turns and the words of the debate that was heard
  (mode and voices it does not protect), a replay never passes for a capture, and
  the schema of a capture is gone unless making it ready or dropping it failed or
  the command was killed.
* **Bootstrap.** Any request may fail, time out or lose its answer, and Fabric goes
  on with what it accepted; the operator starts again, and between two commands
  edits `.env` or deletes a workspace. Correct means: running it again creates
  nothing twice, except where a search by name cannot see the first; what it says
  it created or found by name exists, in the workspace it prints. A configured id
  it repeats without asking.
* **Table scripts.** Each is a sequence of deletions, uploads and loads that may die
  anywhere, while Fabric goes on with the loads it accepted. Correct means: a
  remote table is from one build, and a script that ends by itself has done what
  it reports, until a load that outlived an earlier script replaces it.
* **Launcher.** It may be killed at any point, and several share one state file.
  Correct means: while stacks follow one another, a child that outlives its
  launcher is in the state file, or was asked to end, or was lost between its
  spawn and the writing of the file; and none is started with a token or a budget
  its mode does not give it. Of stacks that overlap only the second is claimed.

`PROJECT.json` lists, under "hazards", the places in the code where these can go
wrong, with the properties that would show it.

## 2. Modules

| Module | Models | Checked by | Proved in |
|---|---|---|---|
| `GovernedTerms` | what the registry promises, without tables or sessions | `GovernsTerms` of the registry | `RepositoryProofs` |
| `ReconciliationRepository` | the registry and its sessions | `MCRepository` | `RepositoryProofs` |
| `ReconciliationPipeline` | pipeline, agents, both workflow modes | `MCPipeline` | `PipelineProofs` |
| `ReviewerRuntime` | runtime manager and the routes that use it | `MCRuntime` | `RuntimeProofs` |
| `CloudSession` | call guard, MCP handshake, snapshot cache | `MCSession` | `SessionProofs` |
| `SemanticCourt` | the court's graph, roles, clerk and audit | `MCCourt` | `CourtProofs` |
| `DeliberationRecord` | capture, replay and check of a debate; extends `SemanticCourt` | `MCCourt` | `CourtProofs` |
| `FabricBootstrap` | the bootstrap command, the ontology script, the tenant | `MCOperations` | `BootstrapProofs` |
| `FabricTables` | the seed, upload, load and Livy scripts | `MCOperations` | `OperationsProofs` |
| `DevLauncher` | launchers, their children, the state file, `make stop` | `MCOperations` | `LauncherProofs` |

The modules meet where the components do. A run that `ReconciliationPipeline`
saves is the `save` job of `ReconciliationRepository`; `canonical` in the
pipeline is the answer of the registry's lookup; a `CaseVerified` step of
`ReviewerRuntime` stands for a whole pipeline run and its `ImportCase` for the
registry's `import`; a resolution in `CloudSession` is the first provider call of
a pipeline run whose context is `fabric_live`. They are composed by these
assumptions rather than in one state space: each hazard involves one of them,
and the product of four would be out of reach for TLC. The case of
`SemanticCourt` is what `ReconciliationPipeline` leaves (`MCCourt!Decided`; the
pipeline's property `SavedDecisionStands` is what `CasesAssumption` says of ready
cases);
`DeliberationRecord` composes the court with the capture command in one state
space, and `FabricBootstrap` the bootstrap with the ontology script, since both
write the same tenant and read the same `.env`. The launcher's environment is
what the budget and the tokens of `CloudSession` start from.

### ReconciliationRepository

One action is one SQL statement, or the commit of a transaction.

| Model | Code |
|---|---|
| `terms`, `runs`, `units` | the tables with a unique key, by that key |
| `status`, `link` | `semantic_proposals.status`, `.canonical_definition_id` |
| `defs` | `metric_definitions`; a row's uuid4 is the request that inserts it |
| `decisions`, `promotions` | `audit_events` of the two governance types |
| `made` | keys inserted in a transaction that has not ended |
| `snap`, `prior`, `version`, `found` | locals of `_promote_canonical` and `get_canonical_definition` |
| `HasRun`, `SelectTerm`, `InsertTerm`, `InsertRun`, `CommitSave`, `Recheck` | `import_verified_case`, `save` |
| `LockProposal` ... `CommitApproval`, `CommitRejection` | `decide_proposal`, `_promote_canonical` |
| `FindTerm` ... `FindPromotion` | `get_canonical_definition` |
| `Start`, `Fail` | a thread of the pool takes the request; the connection is lost |

A `FOR UPDATE` is two steps, `SnapshotDefinitions` and `LockDefinitions`: under
READ COMMITTED the rows are found when the statement starts, and read again when
their locks are free. An INSERT of a key that another transaction has inserted
and not committed waits for that transaction (`KeyFree`). The rows of one
statement are locked in one step; they are found by the same scan in every
session, so two such statements do not wait for each other. `created_at` is
abstracted: when several rows are canonical, `FindCanonical` may return any.
A proposal always carries its JSON text, an owner and a source definition,
because `save` writes them, so the `ValueError` exits of `_promote_canonical`
are not taken. `Workers` is how many requests the server works on at a time:
the thread pool, or one.

`GovernedTerms` is the abstract specification: a draft is published, approved or
rejected once, and each approval gives its term a new current meaning and the
next number. With `Workers = 1` the registry implements it under the mapping at
the end of the module. With more it does not, as `registry_two_approvals` shows.

### ReconciliationPipeline

One action is one stage; `Leaves` adds what a strict node does afterwards. The
blackboard `case` keeps what the verifier, the validators and `save` read.
Results are the set of entities and the metric total of a definition, which is
what verdict, impact and evidence are computed from. `local` tells a
`LocalProvider`, whose bindings the registry's canonical definition replaces,
from the others, for which `inspect_bindings` ignores it. `Damage` is the fault the
tests inject (`tests/test_verifier_guards.py`, `tests/test_deliberation.py`)
between the decision and the verifier: one output lost, or one value altered, at
most once. Anything of the case may be altered: its concept, candidates and
bindings, a result, a piece of evidence, a ruling, the impact, the authority,
and every field of the proposal. What no check reads is then saved as it is: the
impact figures, a concept exchanged for another with the same demands, the
definition a proposal starts from. `SavedIsTrue` claims the rest.
`Stages` and `Specialists` are the order of the stages as it is written down
twice, in the calls of `ReconciliationRunner.run` and in the strict graph.
`Passes` is the conjunction of the blocking checks. `VerifyStrict` includes the
recovery and the second verification, as `verify_strict` does.

### ReviewerRuntime

`loop` is the coroutine the event loop is running: a coroutine that has not
awaited keeps it. `lock` is `RuntimeManager._lock`; a coroutine that needs it
blocks the loop, as `with self._lock` does. `activate` builds its context and
writes three fields inside the lock, three steps here because the other routes
read them without it. `running` is the reconciliation in its worker thread.
`newer`, `moved` and `overtaken` record history for the properties and are read
by no guard. `run_demo_scenario` is `analyze` with a looked-up term.

### CloudSession

Every HTTP call is three steps: the budget test, the count with the sending, and
the response. The increment itself is one step; a thread can be switched between
the test and the increment, with the endpoint check in between. `opened` and
`ready` are the service's side of the MCP handshake; only the response to an
`initialize` carries a new session id. Any response may be an error. A snapshot
is cached under the names it bears itself, `names`, and not under the term that
was asked for, so a term asked by another word is paid for again. A list of
tools without a usable one is taken for an empty list. One behaviour is one selection of the live runtime: a new one has a new provider
with a count of zero.

### SemanticCourt

One action is one executor; `Executor` does what each does with the blackboard:
draft, voice, append, send along the edges whose condition holds. A case keeps
its verdict, owner, proposal, refusal, candidate and, per binding, the sorted
sequence of the entities selected; equal lengths with unequal content are the
equal totals that ask for a re-plan. The words of a turn are one of five kinds:
reviewed, fresh, with a tenant's identifier, with a word that looks like a
credential, or edited later; the opening names the run, so that even its
reviewed words hold an identifier. `Narrations` lets a model voice any turn oddly, at
most `MaxOdd` of one hearing. `NarratorTimesOut` is the `TimeoutError` that
`llm/ollama.py:37` does not turn into reviewed text. The digest is modelled as the content
it covers, that is, as free of collisions. The Agent Framework delivers a
message along each edge whose condition holds, and ends when there is none.

### DeliberationRecord

One action is one effect of `capture_deliberation` outside the process: create
the schema, make it ready, run, hear, drop, empty the file, write it. `SetUp` may fail before the
`try` whose `finally` drops the schema; `CaptureDies` may happen anywhere.
`EditFile` and `SaveReplay` are what people do with the file afterwards: an edit
changes the words of a turn, how it is said to be voiced, the outcome or the mode,
any number of times, and leaves the digest as it was.
`Accepted` is `validate_deliberation_artifact`.

### FabricBootstrap

One action is one request with its answer, or a configured id taken instead of
one. `attempt` is the running `bootstrap` call with the kind it resolves,
`tenant` what Fabric holds, `dotenv` the ids in `.env`: each that of any existing
resource of its kind, or none, or one that names nothing (`Elsewhere`). Between two
commands `EditDotenv` changes one of them and `DeleteWorkspace` removes a
workspace with all it holds, as `docs/cost-controls.md` step 6 tells the operator
to. A request that names something missing is refused (`Exists`, `PlaceExists`); a
configured id is taken without a request. Fabric gives no id out twice (`NewIds`).
`Create` and `DefineOntology` include the ways an answer can come: refused, done, accepted
with and without an operation to poll, lost. `FinishCreation` and `FinishUpdate`
are Fabric, at its own time. `far` are kinds whose listing exceeds the ten pages
`_list` reads. `loose` is history: kinds of which something exists, or will, that
a search by name misses, because an attempt ended while Fabric still created it
or the ontology script renamed it (its `.platform` part has another display
name). Nothing reads `loose` but the properties.

### FabricTables

One action is one file or one request of a script. A file is the run that wrote
it and whether it is whole, since two seedings may differ in every row. Each load
script has an operation of its own per table (`load`), and Fabric goes on with
those of several scripts in any order: `ReadStaged` takes the CSV file as it is
then, `EndLoad` replaces the rows or fails, either perhaps long after the script
has given up (`left`) and after a later load. `rows` remembers whose load filled a
table, from which file. `cut` remembers that a seeding stopped halfway.

### DevLauncher

One action is one effect on the system: a child spawned, the state file written
or removed, the signals of a shutdown or a stop. `Environment` is `build_runtime_environment`: what a child
gets from the mode, the acquired tokens and the inherited settings. Every process has
its own pid; a child may ignore SIGTERM, and nobody kills it then. `unrecorded`
and `overlapped` are history for `OrphansAreExplained`: pids whose launcher ended
before its file was whole, and whether two stacks ever ran at once.

## 3. Runs

| Run | Instance | Shows |
|---|---|---|
| `registry_governance` | 3 stored runs of one term, 2 owners with one slug, 3 requests, 3 at a time, failures anywhere | types, audit, answers, attribution, succession, whole lookups, governed terms stay governed |
| `registry_imports` | 5 runs: 3 stored of one term, one hosted and one fresh of another; 3 requests, 3 at a time: imports, saves, approvals | duplicate imports agree; under fairness every request ends, also two approvals that wait for each other's rows and keys |
| `registry_serial` | 4 requests one at a time: imports, approvals, rejections of 3 runs of one term, 2 of them stored | the registry implements `GovernedTerms`, up to a third version of a term; one canonical row; no key conflicts |
| `registry_two_approvals` | 2 approvals at a time | violation: two canonical rows |
| `pipeline` | 8 concepts, 2 or 3 definitions, 4 results, 4 rule sets, both modes, with and without a canonical definition and a local provider, every single loss or alteration | types; what is saved is true, its decision stands, and it is returned; both modes agree; one loss is repaired |
| `pipeline_passed` | the same | violation: a case passed in strict mode that cannot be saved |
| `runtime_selection` | 5 workloads of 4 requests, 2 under way, cache of 2, 4 selectable contexts, 2 initial ones | types, selection, cache, labels, routing; under fairness every request is answered |
| `runtime_label` | the two workloads with re-runs | violation: a case with the label of another pack |
| `cloud_session` | 3 requests about 2 terms, 1 or 2 threads, budget of 5 | types, overshoot, proofs, capture budget, sessions |
| `cloud_budget` | the same, budget of 1 | violation: two calls |
| `operations` | bootstrap: 4 resources, 3 commands, 2 polls, a short or a long list of workspaces, any `.env`; tables: 2 tables, 4 scripts, 2 polls; launcher: 2 terminals, 4 processes | types; duplicates explained, results coherent; scripts do what they report; orphans explained, no child badly equipped |
| `court` | cases of up to 3 bindings over 4 populations, with every decision the pipeline may leave, and cases that are not ready; with and without a model, 1 odd turn; through the API, or captured, edited any number of times and replayed | types; every ready case heard in full; an accepted file has the verdict, outcome, turns and words that were heard; schemas dropped unless their set-up or drop fails |

Why the bounds are enough. Three requests are a racing pair and an observer or a
third generation of a definition; the failures of locks and keys found while
building the models took two. In `registry_imports` the three stored runs of
one term let three approvals meet, each past its proposal's lock and waiting for
the others' rows or keys, and the hosted and the fresh run share a term whose key
an import and a save both insert. Four requests in `registry_serial` import the
hosted run and approve it and the two stored ones: three versions of one term. One damage is what the verifier claims to
handle. Four requests and a cache of two make an eviction, a reopened run and a
selection between two uses. Three requests of up to four calls exceed a budget of
five, and leave room for a whole handshake, a failed one and a second.
`operations` checks three components that share no state: in each behaviour one
of them moves (`scene`), which decides every property of one component with the
sum of their states instead of the product. Three commands and four resources
make an attempt that fails, a second that creates a duplicate or is given ids, and
a third that mixes them, or the ontology script between two attempts, with an
edit of `.env` or a deletion anywhere between; a list of workspaces that is too long
is followed for two commands (`FarBound`), which make a duplicate; two polls are the
least with which one is waited for and the next runs out. Four scripts over two
tables make a seeding, a load that gives up, a second seeding, and a load whose
rows the first one replaces, read before or after the second seeding; an upload or
a Livy session is among three (`LastLoads`), which make a seeding, one that stops
between the two tables, and an upload that meets both. At most one load outlives
its script (`LeftBound`): a second one takes the same steps. The proofs have none of
these bounds. Four processes are two stacks in turn;
two side by side are followed until the third process (`OverlapBound`), since
after that `OrphansAreExplained` no longer speaks of them and
`ChildrenAreEquipped` depends on each spawn alone. Three bindings are the least
with which two differ and a third agrees with one of them; the four populations
give empty, equal, disjoint and nested results, and equal totals.
Deadlock checking is off: every request is served once, so every history ends.

Fairness. The registry's `Step` is weakly fair per request: PostgreSQL executes
a statement nobody blocks, and threads run. `Fail` is not fair: connections need
not break. In `ReviewerRuntime` a cloud call ends because its transport has a
timeout, and the event loop runs every ready coroutine. The other models
state no fairness and no liveness: an operator need not run a command again, a
person need not stop a stack, and a hearing ends or is cut by a time-out.

Every property of a passing run has a mutant: a plausible bug in one definition
of the model (the `Mutant:` comments) under which TLC finds the property
violated.

## 4. Where the code and its documents differ

1. **Two canonical definitions.** `decide_proposal` locks existing rows; a term's
   first approval finds none. Two overlapping approvals for one term both insert
   version 1. The docstring at `storage/repositories.py:293` and the assertion at
   `tests/test_canonical_promotion.py:81` say there is one. The application is
   documented as single-user, so it takes two tabs or a retried click.
2. **A passed case that cannot be saved.** In strict mode too, no check reads the
   context packet, and recovery is consulted only after a failed check. The
   docstring of `verify_strict` (`orchestration/runner.py:341`) says it retries one
   missing stage and returns a safe status.
3. **The label of a cached case.** `remember_case` reads the selected pack after
   the case was computed. `LabelFollowsSelection` bounds it: only a selection
   made in between, or a re-run of such a case, gives a wrong label.
4. **The hard budget.** It is exceeded by at most one call per further thread
   (`OvershootBounded`).

Met while modelling, without a run of their own, because the models include what
the code does or leave the matter out:

* `dev_launcher.py` says it stops only its own pids; a pid from an old state file
  may be another process's by then. The model gives every process its own.
* The defaults of the ontology script's options are read before `load_dotenv()`,
  and its listing reads `data` where Fabric answers `value`.
* A read that times out raises `TimeoutError`, which is no `FabricBootstrapError`:
  it escapes, and the report on disk still says dry run (`Die`). In the same way
  it escapes `narrate`, and the hearing ends (`NarratorTimesOut`).
* `needs_targeted_replan` compares ordered results, the verdict sets. The local
  queries are ordered, so the model keeps results sorted.
* The words of a debate are redacted by patterns other than those the check
  refuses: a debate about "password resets" is captured and then refused
  (`ReplayKeepsTheRecord` says so).
* `FabricApiClient` calls itself a "Minimal idempotent client"
  (`fabric_bootstrap.py:262`). It is not where its search by name misses what is
  there, as `DuplicateIsExplained` lists: a listing of more than ten pages, an
  attempt that ends while Fabric still creates, and an ontology the ontology
  script has renamed: the next bootstrap creates a second one.
* The check of a deliberation calls itself one of "secret hygiene, structure,
  provenance, and digest integrity" (`court/deliberation_check.py:30`). It does not
  cover mode and voices, which the digest leaves out: a file whose mode or voices
  were edited is accepted. `ReplayKeepsTheRecord` claims provenance only of a file
  nobody has edited.
* A configured id is taken without a request (`fabric_bootstrap.py:344`, `:399`,
  `:428`). After the deletion of the workspace that `docs/cost-controls.md` step 6
  asks for, a bootstrap with the old ids in `.env` completes and prints them;
  `ResultIsCoherent` says nothing of an id that was configured.
* No check of the verifier reads which definition a proposal starts from.
* The skeptic's reviewed text (`court/roles.py:313`) says "your population differs
  from the proposed candidate" also to a binding that equals it.

## 5. Proofs

`RepositoryProofs` proves, for every number of runs, terms, owners, requests and
workers, and every assignment of jobs to requests, that the registry keeps
`TypeOK`, `DecisionsAudited`, `AnsweredDecisionsHold`, `PromotionAttributed`,
`SupersededOnce`, `LookupNeverTorn`, `DuplicateImportsAgree` and `GovernedStays`. The only assumption is
`ConstantsAssumption`, which says the constants have their types and there are
finitely many requests; TLC evaluates it in every registry run.

None of the properties is inductive alone. The invariant `Inv` of
`ReconciliationRepository` adds:

* `SessionsInOrder`: a session is at a statement of its own operation, answered
  at the end only, and holds no keys when it is not active;
* `RunKeys`: a run id is in one open transaction or committed, so the commit of
  a save cannot overwrite the status of a decided proposal;
* `ProposalLocks`: a proposal locked for a decision is a draft of the approver's
  and locked once; this is what makes a decision unique;
* `DefinitionLocks`: rows locked for a promotion stay as they were read, with
  smaller versions; this is what makes succession unique;
* `RowOwnership`: a row exists because the request it is named after approved its
  run's proposal and was answered; this ties rows, links, status and audit;
* `LookupsFound`: a lookup remembers an existing row.

Each part has a lemma that every step preserves it, by cases on the actions that
touch its variables and from the other parts it needs; `InvStep` puts them
together. That `_next_version` returns a larger number needs a maximum of a
finite set of naturals to exist, which is proved by well-founded induction on
subsets (`LargestExists`). For the imports `ImportsInv` adds that a committed term
has a run, and that an import looks again only for a row that was there.

The second half of `RepositoryProofs` proves what needs `Workers = 1`, for every number of the rest:
`OneActiveCanonical`, `NoKeyConflict`, and `GovernsTerms`, that the registry
implements `GovernedTerms`. `SerialInv` adds to `Inv`:

* `Alone`: one request is under way, so nobody commits between its statements
  (`Solo`), from which all the rest follows;
* `ReadWhole`: what an approval locked is every row of its term, and its version is
  the one after their largest (`Top`);
* `OneInForce`: a term has one canonical row, since an approval retires all it
  read;
* `StillAbsent`, `RunsSaved`: a row a request did not find is absent when it
  inserts, and a fresh run id was never saved.

In the refinement a commit is one abstract step and any other step a stutter. The
mapping picks the run whose link is canonical with `CHOOSE`; `CurrentIs` shows it
is the run of the one canonical row, and `TopIsNext` that an approval moves the
largest version up by one.

`SessionProofs` proves about `CloudSession`, for every budget, every number of
requests and threads, and every set of terms: `TypeOK`; `OvershootBounded`, that
n threads exceed the budget by at most n - 1 calls, and from it that one thread
keeps `HardBudget`; `ProofsAreEarned`; `CallsInReadySession`. The assumption is
`SessionAssumption`: a positive budget, finitely many requests, at least one
thread. The invariant `Inv` adds:

* `BudgetKept`: the calls counted and the requests that have passed the test and
  are not counted yet are together at most the budget plus n - 1. The sum is
  needed, as a bound on the count alone says nothing of those about to be
  counted. It holds because only requests under way have passed a test, and
  the last of them did so below the budget;
* `ProvesMatched`: a request about to record a proof has had its match;
* `SessionReady`: alone, a request with tools is in a ready session, and one that
  shakes hands has no tools; this is why an initialize that fails halfway, but
  has replaced the session, cannot lead to a call in it;
* `CallsTyped`, `SessionOpened`: what typing needs; the term a request asks for is
  among the names of its snapshot.

The second half of `SessionProofs` proves `CaptureWithinBudget`: one caller at a time,
with no failure, sends at most three calls plus one per term and one per query,
and a budget of as many is never found exhausted. It needs only
`SessionAssumption`. `CaptureInv` adds, for the executions of one caller in which
nothing has failed, which includes that a snapshot bears the name that was asked
for (`MatchNames`):

* `Exhaustion`: only who has ended has an outcome, and nobody finds the budget
  exhausted before it is;
* `HandshakeOnce`: each call of the handshake is sent at most once. While the
  budget lasts, `Stages` says which of them have been sent at each step, and that
  none has before somebody begins; afterwards nothing is sent at all, so the
  order no longer matters;
* `CallsPaid`: the calls for snapshots are at most the terms `Paid` for (cached, or
  about to be) and the queries that have `Asked`. A request on its way to a call
  seeks a term that is not cached, so the call pays for a new one; the terms are
  among the requested ones, which is the bound;
* `NobodyExhausted`: a request that tests the budget has its own call still to
  come, so what has been sent is short of the total by at least one.

`PipelineProofs` proves about `ReconciliationPipeline`, for any concepts,
definitions, data, authority rules and thresholds, in both modes and under any one
loss or alteration, every invariant of the run `pipeline`: `TypeOK`, `SavedIsTrue`,
`SavedDecisionStands`, `SavedIsReturned`, `ModesAgree` and `OneLossIsRepaired`. The
assumption is `PipelineAssumption`: beyond the sizes of the definitions it says that
results are pairs of finitely many entities and a total, that owners are owners, and
that a missing value (`None`) is no owner, concept, proposal, authority or impact.
The invariant `PipelineInv` says in `Found` what each stage finds in the case. Before
the verifier it grows stage by stage (`Bound`, `Executed`, the authority) to
`Intact`, the case to which nothing happened; at the verifier the case is only
`Near` it. Either it is `Mislabelled`, its concept, candidates or bindings
altered and the rest as it was; or it is `Deviating`:

* `DataNear`: results and evidence are not both wrong, though both may be missing.
  The verifier compares them record by record, so when it passes them the right
  one vouches for the other (`PassesExecuted`); altered together they would pass;
* `DecisionNear`: either the authority is the configured one, and then
  `DecisionConsistent` and `ProposalCites` fix whatever of the decision was altered,
  but for the source of the proposal (`ConsistentFaithful`); or the verdict is right
  and the decision is `Faithful`, right but for that source, whatever the authority
  has become;
* `RecoveryTruthful`: recomputing the first missing output leaves a case near
  the intact one that is `Truthful`, or does not pass. For a decision recomputed from an altered
  verdict the check of the verdict decides; from an altered authority it is never
  recomputed, since the decision is then still there (`ConflictDecided`);
* `Paired`, with `NodesAcceptPassed`: what the verifier passes in fast mode
  satisfies every workflow node, so that no case is saved and then refused.

`SavedDecisionStands` is where the pipeline meets the court: it says of a saved case
what `CasesAssumption` says of a ready one, but for the order in a result.
`SavedIsTrue` does not imply it, since the authority may have been altered after the
decision was drawn from it; it follows as `Truthful` includes what the verifier
checked of the authority.

That a smallest population exists, from which a generic proposal starts, is proved
by well-founded induction on subsets (`Least`, `SmallestIsOne`).

`PipelineInv` says what is saved is true; `ModesAgree` and `OneLossIsRepaired` say
when a case is saved, and need `RepairInv`:

* `Undamaged`: while nothing has happened, the case each stage finds is the one
  the reference run has there, up to the reference case at the verifier. Every
  node accepts what it finds, so that both modes end alike;
* `Repairable`: in strict mode, the case the verifier finds after one loss is the
  reference case without one output; the recovery recomputes that output from
  the others, and the audit finds a case that has passed.

`RuntimeProofs` proves about `ReviewerRuntime`, for any requests, workloads,
selectable contexts and cache size, every invariant its run checks: `TypeOK`,
`SelectionWhole`, `CachedIsGoverned`, `LabelFollowsSelection`, `LiveCoversHero`
and `RecentlyUsedStay`. The assumption is `RuntimeAssumption`. The parts of `Inv`:

* `Types`: with the types, `InOrder`: each request is at a step of its own
  operation and has what the step needs;
* `Locking`: the lock is held exactly while a selection is half written, by the
  request that writes it, and how far it is says which fields are new;
* `Governing`: what is about to be cached is in the registry already;
* `Labelling`: while nobody selects, a request whose context is not of the
  selected pack counts as moved, unless it is a re-run;
* `Routed`: while a request that no selection overtook chooses its runtime nobody
  holds the lock, and past the test for live profiles its term is one they cover;
* `Cache`: the cached runs are different, of answered requests, at most `Limit`;
* `Recency`: if one cached run stands before another, the later one was
  remembered or reopened since. That is why an eviction means `Limit` other runs
  were used since: the runs behind the evicted one are as many as the cache
  holds, and each is in the set the property counts (`LimitDifferent`).

`CourtProofs` proves about `SemanticCourt` and `DeliberationRecord`, for any set of
cases, any number of bindings and any number of oddly voiced turns, every invariant
of the run `court`: `CourtAndRecordTypeOK`, `HeardInFull`, `ReplayKeepsTheRecord` and
`CaptureCleansUp`. The assumption is `CasesAssumption`, evaluated in that run. It says
of a case what the pipeline leaves: the ids of a result are sorted and distinct (the
queries order them, by `SELECT DISTINCT` or `GROUP BY`), and in a verified case the
verdict follows from the results and a conflict has a proposal if it has an owner
and a refusal if it has none. A case that is not ready is
arbitrary. `CourtInv` gives each node a `Stage` and says in
`HeardSoFar` what has been heard before it:

* `Numbered`: turns are numbered as they come, their rounds never fall and are
  below the stage, and what they cite is evidence of the case;
* `Debated`: each binding has been asserted, challenged and answered exactly once,
  or not yet, by the stage and the verdict, and its challenge precedes its answer;
* `Recorded`, `Closed`: the roles heard so far, one ruling and the one the owner
  implies, and the closing turn the outcome the case earned;
* `Traced`: the re-plan is in the trace once exactly if the case needs it;
* `Sitting`, `Answered`: a hearing that sits is of a ready case, and what ends it
  is a full transcript, a narrator's timeout or a refusal to begin; never an audit
  that fails (`AuditFindsNoFault`).

The executors add one draft per binding with `PerBinding`. That each binding gets
exactly one needs `InOrder` to list a set without gaps or repetitions: `Ranked` and
`Listed` show ranks to be a bijection, by the cardinalities of finite sets. The
`Growth` lemmas say what a sequence of fresh turns does to the parts above, and one
`Heard...` lemma per executor applies them. The verdict compares the sets of
entities and the steward their sorted lists; `SameIncreasing` makes them agree.
For the record, `RecordInv` adds `Filed`: however often it was edited or replayed, the
file has the parts of a transcript and the digest of the sanitized one. When the
check accepts it, its own content has that digest, and `DigestCovers` shows that
transcripts of one digest are the `SameDebate`: all but mode, rounds and voices. The
digest is modelled as the content it digests, so this says nothing about
collisions.

`LauncherProofs` proves about `DevLauncher`, for any number of terminals and
processes and any surroundings: `ChildrenAreEquipped` and `OrphansAreExplained`.
The assumption is `LauncherAssumption`. The invariant `LauncherInv` adds:
`ModesConfigured`, a launcher that passed the token step has what its mode needs;
`Stages`, which children a launcher has at which step; `OneStack`, without an
overlap at most one launcher has children, and all others were asked to end;
`Recorded`, the children of a running launcher are asked or in the file, those of
one that shuts down are asked; `Stopping`, a stop that is about to remove the
file has asked all it holds, and no launcher is about to write it.

`BootstrapProofs` proves about `FabricBootstrap`, for any number of commands,
resources and polls, and whichever listings are too long: `DuplicateIsExplained`
and `ResultIsCoherent`. The assumption is `BootstrapAssumption`. The parts of
`BootstrapInv`, besides types:

* `Tenancy`: ids are unique and every item is in a finished workspace;
* `IdsHeld`: what the script works on and what Fabric updates exists; nothing is
  said of the ids in `.env` or of the configured ones of an attempt;
* `InTurn`: workspace, lakehouse and ontology are resolved in this order;
* `Placed`: the workspace whose items an attempt has listed exists until it ends;
* `Hidden`: what a search by name misses is in `loose`, or it is what the running
  attempt still polls for;
* `Searched`: when an attempt is about to create, everything of that name is of a
  kind in `far` or `loose`. A duplicate can only come from a creation, and no other
  step may put a resource of the name between the search and the creation, so
  this gives `DuplicateIsExplained`;
* `Joined`: what the attempt found by name or created exists, in its workspace. It
  gives `ResultIsCoherent`, as deletions happen between commands only;
* `Uploaded`: the report of an upload is about content that is whole.

`OperationsProofs` proves about `FabricTables`, for any number of tables, runs and
polls, `ScriptsDoWhatTheyReport`, whichever script was stopped at whichever
request; and that the operator's side as a whole keeps its types
(`OperationsTypeOK`), from the theorems about its three components, whose
variables are disjoint. The assumption is `TablesAssumption`. `TablesInv` says:

* `OneAtATime`: the operator runs one script at a time, so a script's files
  change only by its own hand;
* `CsvKept`, `StagedKept`, `BuiltKept`: files are of one run and whole, unless a
  seeding was `cut`; while a script writes them this holds of the tables before
  the one under way;
* `FolderKept`: no table's folder mixes the parts of two uploads
  (`FolderUnmixed`), as the folder is deleted first, and the parts before the
  current one are written, those after it absent;
* `LoadsKept`, with `Own` for each table: an operation of the running script reads
  the file staged while it runs; once it is done the table holds its rows, or
  those of an operation of an earlier script in `left` (`Older`);
* `LoadsNumbered`: an operation belongs to a script that ran, none later than the
  last loader, so that what replaces a loader's rows is older than it;
* `LoadsLeft`: a load that still runs when its script does not is in `left`. Only
  such a load may have read half a file, when no seeding was cut;
* `SessionsClosed`: a Livy session that remains has been warned about.

Only model-checked: the liveness properties `RequestsEnd` and `RequestsAnswered`,
which need fairness and ENABLED, out of the prover's reach. Every invariant and
every action property of a passing run is a theorem.

## 6. Not modelled

* Wording, traces and timelines, prompts, parsing and schema validation, the
  validation of what a language model says.
* What the verifier does not check of a case: the definition a proposal starts from,
  impact figures, and a concept exchanged for one with the same demands. They may
  be altered in the model, and no property claims them.
* A commit that succeeds although its acknowledgement is lost: in the registry's
  model a lost connection rolls back.
* Edits of `.env` and deletions in Fabric while a command runs; people who edit a
  transcript and recompute its digest, which no key protects; the reuse of a pid.
* Stateless providers and analytics: portfolio, what-if, scorecard, evals; the
  hosted agent's protocol adapter; Foundry IQ and Work IQ, which use the call
  guard and the cache as Fabric IQ does.
* The rows the seed script generates, the parts of the ontology definition, the
  scripts that only list.
* The back end reads `.env` itself once more when it starts; `ChildrenAreEquipped`
  is about the environment it is given.
* How a token is acquired, beyond that it succeeds or fails; exports, the front
  end and the infrastructure descriptions; `state()` of the runtime, which reads
  without the lock, and the wording of the routes' errors.

Reasons per component are in `PROJECT.json`.

## 7. Plan

Order of work, most important behaviour first; 1 to 9 are done.

1. Registry with its sessions; abstract specification; invariants; proofs.
2. Pipeline with damage and recovery.
3. Runtime manager and routes.
4. Cloud session.
5. Proofs about the registry's and the cloud session's safety.
6. `FabricBootstrap`, and with it the table scripts and the launcher.
7. `SemanticCourt` and the record of its deliberations.
8. Proofs about the runtime, the launcher, the bootstrap, the budget of a capture
   and the pipeline, and of the refinement.
9. Proofs about the repair of a case, the table scripts, and the court and its
   record.
10. Left: an abstract specification of the runtime (a selection and a cache that
    change in one step) and of the court (a hearing that answers at once), with
    the detailed ones shown to implement them.
