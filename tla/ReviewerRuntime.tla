--------------------------- MODULE ReviewerRuntime ---------------------------
(***************************************************************************)
(* The process-local runtime of backend/concord/runtime.py and the routes  *)
(* of backend/concord/api/routes.py that use it: the selected context, the *)
(* selection the reviewer sees, and the cache of verified cases.           *)
(*                                                                         *)
(* Routes written async run on the event loop, one at a time between their *)
(* awaits; a reconciliation itself runs in a worker thread, and so does    *)
(* the one sync route that writes, select_runtime.  Its writes are under   *)
(* RuntimeManager._lock, as are the accesses to the cache; what the other  *)
(* routes read of the selection they read without the lock, one attribute  *)
(* at a time.  One action below is one such read, write or locked block.   *)
(*                                                                         *)
(* A run has a fresh uuid4: it is named after the request that makes it.   *)
(***************************************************************************)
EXTENDS Naturals, FiniteSets, Sequences, SequencesExt

CONSTANTS
    Requests,   \* API requests; each is served once
    Workloads,  \* what the requests may ask for, a set of functions on Requests
    PackOf,     \* term -> the scenario pack whose provider resolves it
    Hero,       \* the term the live runtimes cover, "certification ready"
    Selectable, \* contexts _validate_selection accepts
    Defaults,   \* contexts the process may start with
    Limit,      \* RuntimeManager.case_cache_limit
    Clients,    \* how many requests are under way at a time
    None

Packs    == {"learning", "business"}
Profiles == {"fabric_live", "fabric_replay", "foundry_live", "local"}
Live     == {"fabric_live", "foundry_live"}
Contexts == [profile: Profiles, pack: Packs]
Terms    == DOMAIN PackOf

\* POST /analyze, /ask, /runtime/select, /runs/{run}/governed-rerun and
\* /runs/{run}/court.
Calls == [op: {"analyze", "ask"}, term: Terms]
         \cup [op: {"select"}, to: Contexts]
         \cup [op: {"rerun", "court"}, run: Requests]

ASSUME RuntimeAssumption ==
    /\ Workloads \subseteq [Requests -> Calls]
    /\ PackOf \in [Terms -> Packs] /\ PackOf[Hero] = "learning"
    /\ Selectable \subseteq Contexts /\ Defaults \subseteq Selectable
    /\ \A c \in Selectable : c.profile \in Live => c.pack = "learning"
    /\ Limit \in Nat \ {0} /\ Clients \in Nat \ {0}
    /\ None \notin Requests

VARIABLES
    context,    \* RuntimeManager.context, by the profile and pack it was built for
    profile,    \* RuntimeManager.runtime_profile
    pack,       \* RuntimeManager.scenario_pack
    lock,       \* who holds RuntimeManager._lock
    published,  \* the context select_runtime copied to app.state
    cases,      \* RuntimeManager._cases, least recently used first
    registry,   \* runs the registry holds
    job,        \* request -> what it asks for
    pc,         \* request -> its next step
    loop,       \* the request whose coroutine the event loop is running
    uses,       \* request -> the context it reconciles with or publishes
    asked,      \* request -> the term it reconciles
    answer,     \* request -> its HTTP status, 0 before
    \* Three histories, for the properties alone.
    newer,      \* run -> the runs cached or read since it was
    moved,      \* requests under way when the selected pack was written
    overtaken   \* requests that chose a runtime while a selection was written

manager == <<context, profile, pack, lock>>
served  == <<job, uses, asked>>
history == <<newer, moved, overtaken>>
vars == <<manager, published, cases, registry, served, pc, loop, answer, history>>

Coroutine(q) == job[q].op # "select"
Routing == {"read_pack", "read_profile", "read_local_pack", "read_hosted", "read_workflow"}
UnderWay == {q \in Requests : pc[q] \notin {"waiting", "done"}}

FirstStep(op) ==
    CASE op = "analyze" -> "read_pack"
      [] op = "ask"     -> "ask_hosted"
      [] op = "select"  -> "activate"
      [] OTHER          -> "find_case"

Init ==
    /\ \E c \in Defaults :
         context = c /\ profile = c.profile /\ pack = c.pack /\ published = c
    /\ lock = None
    /\ cases = <<>>
    /\ registry = {}
    /\ job \in Workloads
    /\ pc = [q \in Requests |-> "waiting"]
    /\ loop = None
    /\ uses = [q \in Requests |-> None]
    /\ asked = [q \in Requests |-> IF job[q].op \in {"analyze", "ask"} THEN job[q].term ELSE None]
    /\ answer = [q \in Requests |-> 0]
    /\ newer = [r \in {} |-> {}]
    /\ moved = {}
    /\ overtaken = {}

Goto(q, l) == pc' = [pc EXCEPT ![q] = l]

Answer(q, status) ==
    /\ Goto(q, "done")
    /\ answer' = [answer EXCEPT ![q] = status]
    /\ loop' = IF loop = q THEN None ELSE loop

\* The coroutine goes on to a later step, or awaits a worker thread.
Continue(q, l) == Goto(q, l) /\ UNCHANGED <<loop, answer>>
Await(q, l)    == Goto(q, l) /\ loop' = None /\ UNCHANGED answer

Start(q) ==
    /\ pc[q] = "waiting" /\ Cardinality(UnderWay) < Clients
    /\ Coroutine(q) => loop = None
    /\ loop' = IF Coroutine(q) THEN q ELSE loop
    /\ Goto(q, FirstStep(job[q].op))
    /\ UNCHANGED <<manager, published, cases, registry, served, answer, history>>

At(q, l) == pc[q] = l /\ loop = q
-----------------------------------------------------------------------------
\* _run_case: which runtime serves the request

\* Every read of the selection notes whether a selection is being written.
Reads(q) ==
    /\ overtaken' = IF lock # None THEN overtaken \cup {q} ELSE overtaken
    /\ UNCHANGED <<manager, published, cases, registry, job, asked, newer, moved>>

ReadPack(q) ==
    /\ At(q, "read_pack")
    /\ Continue(q, IF pack = "learning" THEN "read_profile" ELSE "read_hosted")
    /\ Reads(q) /\ UNCHANGED uses

\* Mutant: the hosted deployment is thought to cover every term.
FabricOnly(q) == profile = "fabric_live" /\ asked[q] # Hero

\* The live runtimes cover one term; the others stay with the local registry.
KeptLocal(q) == profile \in Live /\ asked[q] # Hero

ReadProfile(q) ==
    /\ At(q, "read_profile")
    /\ Continue(q, IF KeptLocal(q) THEN "read_local_pack" ELSE "read_hosted")
    /\ Reads(q) /\ UNCHANGED uses

\* manager.local_workflow(manager.scenario_pack)
ReadLocalPack(q) ==
    /\ At(q, "read_local_pack")
    /\ uses' = [uses EXCEPT ![q] = [profile |-> "local", pack |-> pack]]
    /\ Await(q, "running")
    /\ Reads(q)

ReadHosted(q) ==
    /\ At(q, "read_hosted")
    /\ IF context.profile = "foundry_live"
       THEN uses' = [uses EXCEPT ![q] = context] /\ Await(q, "running")
       ELSE Continue(q, "read_workflow") /\ UNCHANGED uses
    /\ Reads(q)

\* context is read again: _workflow answers 409 when it is now a hosted one.
ReadWorkflow(q) ==
    /\ At(q, "read_workflow")
    /\ IF context.profile = "foundry_live"
       THEN Answer(q, 409) /\ UNCHANGED uses
       ELSE uses' = [uses EXCEPT ![q] = context] /\ Await(q, "running")
    /\ Reads(q)

-----------------------------------------------------------------------------
\* ask: the question is resolved before the term is reconciled

\* nl_query finds a term of its pack; a live one may fail.
Matched(q, c)  == PackOf[asked[q]] = c.pack
AskHosted(q) ==
    /\ At(q, "ask_hosted")
    /\ IF context.profile = "foundry_live"
       THEN IF Matched(q, context) THEN Continue(q, "read_pack") ELSE Answer(q, 200)
       ELSE Continue(q, "ask_runner")
    /\ Reads(q) /\ UNCHANGED uses

AskRunner(q) ==
    /\ At(q, "ask_runner")
    /\ IF context.profile = "foundry_live"
       THEN Answer(q, 409)
       ELSE \/ IF Matched(q, context) THEN Continue(q, "read_pack") ELSE Answer(q, 200)
            \/ context.profile = "fabric_live" /\ Answer(q, 503)
    /\ Reads(q) /\ UNCHANGED uses

-----------------------------------------------------------------------------
\* The reconciliation in its worker thread, and what the route does after it

Hosted(q) == uses[q].profile = "foundry_live"

\* An in-process workflow that returns a passed case has saved it; a hosted one
\* saved it somewhere else.
CaseVerified(q) ==
    /\ pc[q] = "running"
    /\ PackOf[asked[q]] = uses[q].pack
    /\ registry' = IF Hosted(q) THEN registry ELSE registry \cup {q}
    /\ Goto(q, "verified")
    /\ UNCHANGED <<manager, published, cases, served, loop, answer, history>>

\* ConceptNotFound or UnsupportedScenario; a hosted runtime answers with a proof
\* that names another term, which is a FoundryHostedResponseError.
TermUnknown(q) ==
    /\ pc[q] = "running"
    /\ PackOf[asked[q]] # uses[q].pack
    /\ Goto(q, IF Hosted(q) THEN "cloud_error" ELSE "unknown")
    /\ UNCHANGED <<manager, published, cases, registry, served, loop, answer, history>>

\* The cloud does not answer, or the verifier does not pass the case: the fast
\* workflow raises, the strict one returns a case remember_case refuses.
CaseFailed(q) ==
    /\ pc[q] = "running"
    /\ \/ uses[q].profile \in Live /\ Goto(q, "cloud_error")
       \/ Goto(q, "unverified")
    /\ UNCHANGED <<manager, published, cases, registry, served, loop, answer, history>>

\* Mutant: remember_case is not told to import.
NeverImports(q) == "remember"

AfterVerified(q) == IF Hosted(q) THEN "import" ELSE "remember"

\* reconcile turns an unknown term into a typed refusal, and ask into an answer
\* without a case; governed_rerun does not expect one.
Resume(q) ==
    /\ loop = None
    /\ \/ pc[q] = "verified" /\ Goto(q, AfterVerified(q)) /\ loop' = q /\ UNCHANGED answer
       \/ pc[q] = "unknown" /\ Answer(q, IF job[q].op = "rerun" THEN 500 ELSE 200)
       \/ pc[q] = "cloud_error" /\ Answer(q, 503)
       \/ pc[q] = "unverified" /\ Answer(q, 500)
    /\ UNCHANGED <<manager, published, cases, registry, served, history>>

\* repository.import_verified_case, before the lock is taken.
ImportCase(q) ==
    /\ At(q, "import")
    /\ \/ registry' = registry \cup {q} /\ Continue(q, "remember")
       \/ Answer(q, 500) /\ UNCHANGED registry
    /\ UNCHANGED <<manager, published, cases, served, history>>

\* Mutants: the cache and the selection are accessed without the lock; a read
\* does not refresh; the limit is tested before the insertion.
Unlocked == TRUE
NoRefresh(cs, r) == cs
EvictedLate(cs) == IF Len(cs) > Limit + 1 THEN SubSeq(cs, Len(cs) - Limit, Len(cs)) ELSE cs

LockFree == lock = None
CachedRuns == {cases[i].run : i \in DOMAIN cases}
PlaceOf(cs, r) == CHOOSE i \in DOMAIN cs : cs[i].run = r
EntryOf(r) == cases[PlaceOf(cases, r)]

\* OrderedDict.move_to_end, and popitem(last=False) beyond the limit.
MovedToEnd(cs, r) ==
    Append(RemoveAt(cs, PlaceOf(cs, r)), cs[PlaceOf(cs, r)])
Evicted(cs) == IF Len(cs) > Limit THEN SubSeq(cs, Len(cs) - Limit + 1, Len(cs)) ELSE cs

Touch(r) ==
    newer' = [s \in DOMAIN newer \cup {r} |-> IF s = r THEN {} ELSE newer[s] \cup {r}]

\* The case is labelled with the pack selected now.
RememberCase(q) ==
    /\ At(q, "remember")
    /\ LockFree
    /\ cases' = Evicted(Append(cases, [run |-> q, term |-> asked[q],
                                       label |-> pack, produced |-> uses[q].pack]))
    /\ Touch(q)
    /\ Answer(q, 200)
    /\ UNCHANGED <<manager, published, registry, served, moved, overtaken>>

\* cached_case: the court convenes over a copy, a governed re-run starts the
\* local workflow of the pack the case is labelled with.
FindCase(q) ==
    LET r == job[q].run IN
    /\ At(q, "find_case")
    /\ LockFree
    /\ IF r \notin CachedRuns
       THEN Answer(q, 404) /\ UNCHANGED <<cases, uses, asked, newer>>
       ELSE /\ cases' = MovedToEnd(cases, r)
            /\ Touch(r)
            /\ IF job[q].op = "court"
               THEN Answer(q, 200) /\ UNCHANGED <<uses, asked>>
               ELSE /\ uses' = [uses EXCEPT ![q] = [profile |-> "local",
                                                    pack |-> EntryOf(r).label]]
                    /\ asked' = [asked EXCEPT ![q] = EntryOf(r).term]
                    /\ Await(q, "running")
    /\ UNCHANGED <<manager, published, registry, job, moved, overtaken>>

-----------------------------------------------------------------------------
\* select_runtime and RuntimeManager.activate, in a worker thread

\* Mutant: the lock is not released when the context cannot be built.
KeepsLock(q) == lock' = q

\* "with self._lock" releases it.
Releases(q) == UNCHANGED lock

\* The selection is refused, or its provider cannot be created.
ActivateFails(q) ==
    /\ pc[q] = "activate" /\ LockFree
    /\ \/ job[q].to \notin Selectable /\ Answer(q, 409)
       \/ job[q].to \in Selectable /\ Answer(q, 500)
    /\ Releases(q)
    /\ UNCHANGED <<context, profile, pack, published, cases, registry, served, history>>

\* Mutant: activate does not take the lock.
WithoutLock(q) == UNCHANGED lock
Locks(q) == lock' = q

SetContext(q) ==
    /\ pc[q] = "activate" /\ LockFree
    /\ job[q].to \in Selectable
    /\ Locks(q)
    /\ context' = job[q].to
    /\ overtaken' = overtaken \cup {p \in Requests : pc[p] \in Routing}
    /\ Continue(q, "set_profile")
    /\ UNCHANGED <<profile, pack, published, cases, registry, served, newer, moved>>

SetProfile(q) ==
    /\ pc[q] = "set_profile"
    /\ profile' = job[q].to.profile
    /\ Continue(q, "set_pack")
    /\ UNCHANGED <<context, pack, lock, published, cases, registry, served, history>>

SetPack(q) ==
    /\ pc[q] = "set_pack"
    /\ pack' = job[q].to.pack
    /\ lock' = None
    /\ moved' = moved \cup UnderWay
    /\ Continue(q, "read_context")
    /\ UNCHANGED <<context, profile, published, cases, registry, served, newer, overtaken>>

\* The lock is gone: context may already be another request's.
ReadContext(q) ==
    /\ pc[q] = "read_context"
    /\ uses' = [uses EXCEPT ![q] = context]
    /\ Continue(q, "publish")
    /\ UNCHANGED <<manager, published, cases, registry, job, asked, history>>

Publish(q) ==
    /\ pc[q] = "publish"
    /\ published' = uses[q]
    /\ Answer(q, 200)
    /\ UNCHANGED <<manager, cases, registry, served, history>>
-----------------------------------------------------------------------------
Step(q) ==
    \/ ReadPack(q) \/ ReadProfile(q) \/ ReadLocalPack(q) \/ ReadHosted(q) \/ ReadWorkflow(q)
    \/ AskHosted(q) \/ AskRunner(q)
    \/ CaseVerified(q) \/ TermUnknown(q) \/ CaseFailed(q)
    \/ Resume(q) \/ ImportCase(q) \/ RememberCase(q) \/ FindCase(q)
    \/ ActivateFails(q) \/ SetContext(q) \/ SetProfile(q) \/ SetPack(q)
    \/ ReadContext(q) \/ Publish(q)

Next == \E q \in Requests : Start(q) \/ Step(q)

\* The event loop serves every coroutine, threads run, and a cloud call ends:
\* its transport has a timeout.
Fairness == \A q \in Requests : WF_vars(Start(q)) /\ WF_vars(Step(q))

Spec == Init /\ [][Next]_vars /\ Fairness
-----------------------------------------------------------------------------
Labels == Routing \cup
    {"waiting", "ask_hosted", "ask_runner", "running", "verified", "unknown", "cloud_error",
     "unverified", "import", "remember", "find_case", "activate", "set_profile", "set_pack",
     "read_context", "publish", "done"}

\* The manager's fields and the requests' locals hold what they may, and the
\* cache no more than its limit, each run once.
TypeOK ==
    /\ context \in Selectable /\ published \in Selectable
    /\ profile \in Profiles /\ pack \in Packs
    /\ lock \in Requests \cup {None} /\ loop \in Requests \cup {None}
    /\ \A i \in DOMAIN cases : cases[i] \in [run: Requests, term: Terms, label: Packs,
                                             produced: Packs]
    /\ Len(cases) <= Limit /\ Cardinality(CachedRuns) = Len(cases)
    /\ registry \subseteq Requests
    /\ pc \in [Requests -> Labels]
    /\ uses \in [Requests -> Contexts \cup {None}]
    /\ asked \in [Requests -> Terms \cup {None}]
    /\ answer \in [Requests -> {0, 200, 404, 409, 500, 503}]

\* activate: the three fields of a selection change together for everyone who
\* takes the lock, whatever selections race.
SelectionWhole == lock = None => context = [profile |-> profile, pack |-> pack]

\* remember_case(import_to_registry=True): whatever runtime made it and whatever
\* failed on the way, a run the reviewer can reopen is one the registry holds,
\* so its proposal can be decided.
CachedIsGoverned == CachedRuns \subseteq registry

\* case_cache_limit and move_to_end: a run stays reopenable until as many other
\* runs as the cache holds have been remembered or reopened after it.
RecentlyUsedStay ==
    \A r \in DOMAIN newer : Cardinality(newer[r]) < Limit => r \in CachedRuns

\* remember_case reads the pack under the lock, so a case of /analyze or /ask can
\* have the wrong label only if a whole selection was made while it was computed.
LabelFollowsSelection ==
    \A i \in DOMAIN cases :
        LET e == cases[i] IN
        e.label # e.produced => e.run \in moved \/ job[e.run].op = "rerun"

\* "The verified live ontology and hosted deployment currently cover
\* Certification Ready only": another term reaches a live runtime only when a
\* selection was being written while the request read it.
LiveCoversHero ==
    \A q \in Requests :
        pc[q] = "running" /\ uses[q].profile \in Live /\ asked[q] # Hero => q \in overtaken

\* The lock that blocks the event loop is always released: every request,
\* select_runtime's and those that wait for it, is answered.
RequestsAnswered == \A q \in Requests : <>(pc[q] = "done")

\* "One immutable reviewer-visible case and the semantic system that produced
\* it": CachedCase, whose scenario_pack governed_rerun runs the case with again.
LabelIsProducer == \A i \in DOMAIN cases : cases[i].label = cases[i].produced
=============================================================================
