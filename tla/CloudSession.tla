---------------------------- MODULE CloudSession ----------------------------
(***************************************************************************)
(* One live Fabric IQ provider shared by the requests of the selected      *)
(* runtime: GuardedCloudClient's call budget (providers/cloud.py), the MCP *)
(* handshake of FabricIQProvider (providers/fabric_iq.py), and the cache   *)
(* of CloudSnapshotProvider (providers/cloud_snapshot.py).                 *)
(*                                                                         *)
(* Each request resolves its concept in a worker thread of its own; the    *)
(* provider has no lock.  Every HTTP call is three steps: the budget is    *)
(* tested, the call is counted and sent, and its response arrives.  Any    *)
(* call may fail.  The budget is positive, or require_cloud_access would   *)
(* have refused the first one.                                             *)
(***************************************************************************)
EXTENDS Naturals, FiniteSets

CONSTANTS
    Requests,  \* requests that need the provider
    Terms,     \* governed terms
    Local,     \* terms with a local scenario, the fallback of the live runtime
    MaxCalls,  \* MAX_CLOUD_CALLS
    Threads    \* how many requests may be under way at a time, one of these

ASSUME SessionAssumption ==
    /\ Local \subseteq Terms
    /\ MaxCalls \in Nat \ {0}
    /\ Threads \subseteq Nat \ {0}
    /\ IsFiniteSet(Requests)

VARIABLES
    threads,   \* how many requests are under way at a time here
    asks,      \* request -> [op, term]
    count,     \* GuardedCloudClient.cloud_call_count
    session,   \* FabricIQProvider._session_id, 0 for None
    tools,     \* whether _tools holds a usable ontology tool; a list without one
               \* is taken for an empty one
    byTerm,    \* terms in _by_term
    byConcept, \* terms whose concept is in _by_concept and _by_binding
    proofs,    \* terms in _semantic_proofs
    pc,        \* request -> its next step
    names,     \* request -> the terms that name the snapshot it was given
    outcome,   \* request -> how it ended
    \* The service, and histories for the properties.
    opened,    \* sessions the service has opened
    ready,     \* sessions whose "initialized" notification it has answered
    sent,      \* requests sent to the service, by method
    matched,   \* terms whose entity type it returned
    strayed,   \* requests whose tool call went out in a session not yet ready
    failed     \* whether any call failed or gave no snapshot of the asked name

provider == <<count, session, tools, byTerm, byConcept, proofs>>
service  == <<opened, ready, sent, matched, strayed, failed>>
vars     == <<threads, asks, provider, pc, names, outcome, service>>

Methods == {"initialize", "initialized", "tools_list", "tools_call"}
term(q) == asks[q].term

\* Steps of a call: its budget test, its sending, its response.
Test(m) == <<"test", m>>
Send(m) == <<"send", m>>
Wait(m) == <<"wait", m>>
At(l)   == <<"at", l>>

UnderWay == {q \in Requests : pc[q] \notin {At("waiting"), At("done")}}

Init ==
    /\ threads \in Threads
    /\ asks \in [Requests -> [op: {"resolve", "nl_query"}, term: Terms]]
    /\ count = 0 /\ session = 0 /\ tools = FALSE
    /\ byTerm = {} /\ byConcept = {} /\ proofs = {}
    /\ pc = [q \in Requests |-> At("waiting")]
    /\ names = [q \in Requests |-> {asks[q].term}]
    /\ outcome = [q \in Requests |-> "none"]
    /\ opened = 0 /\ ready = {} /\ sent = [m \in Methods |-> 0]
    /\ matched = {} /\ strayed = {} /\ failed = FALSE

Goto(q, l) == pc' = [pc EXCEPT ![q] = l] /\ UNCHANGED outcome
End(q, how) == pc' = [pc EXCEPT ![q] = At("done")] /\ outcome' = [outcome EXCEPT ![q] = how]

Start(q) ==
    /\ pc[q] = At("waiting") /\ Cardinality(UnderWay) < threads
    /\ Goto(q, At("lookup"))
    /\ UNCHANGED <<threads, asks, names, provider, service>>

\* resolve_concept looks in the cache; nl_query never does.
Lookup(q) ==
    /\ pc[q] = At("lookup")
    /\ Goto(q, IF asks[q].op = "resolve" /\ term(q) \in byTerm THEN At("bindings")
               ELSE At("ensure"))
    /\ UNCHANGED <<threads, asks, names, provider, service>>

EnsureTools(q) ==
    /\ pc[q] = At("ensure")
    /\ Goto(q, IF tools THEN At("find_tool") ELSE Test("initialize"))
    /\ UNCHANGED <<threads, asks, names, provider, service>>
-----------------------------------------------------------------------------
\* GuardedCloudClient.request

\* Mutant: the budget is tested once for a whole handshake.
OncePerHandshake(m) == m \in {"initialize", "tools_call"} /\ count >= MaxCalls

Exhausted(m) == count >= MaxCalls

TestBudget(q) ==
    \E m \in Methods :
        /\ pc[q] = Test(m)
        /\ IF Exhausted(m) THEN End(q, "exhausted") ELSE Goto(q, Send(m))
        /\ UNCHANGED <<threads, asks, names, provider, service>>

\* Mutant: the handshake is free.
ToolsCounted(m) == IF m = "tools_call" THEN count + 1 ELSE count
Counted(m) == count + 1

\* The count changes after the test, with the endpoint check in between.
SendCall(q) ==
    \E m \in Methods :
        /\ pc[q] = Send(m)
        /\ count' = Counted(m)
        /\ sent' = [sent EXCEPT ![m] = @ + 1]
        /\ strayed' = IF m = "tools_call" /\ session \notin ready THEN strayed \cup {q}
                      ELSE strayed
        /\ Goto(q, Wait(m))
        /\ UNCHANGED <<threads, asks, names, session, tools, byTerm, byConcept, proofs,
                       opened, ready, matched, failed>>

\* CloudTransportError, an MCP error, or an initialize without a result: the
\* last two may still open a session, which is kept.
CallFails(q) ==
    /\ \E m \in Methods :
         /\ pc[q] = Wait(m)
         /\ \/ UNCHANGED <<opened, session>>
            \/ m = "initialize" /\ opened' = opened + 1 /\ session' = opened'
    /\ End(q, "error")
    /\ failed' = TRUE
    /\ UNCHANGED <<threads, asks, names, count, tools, byTerm, byConcept, proofs,
                   ready, sent, matched, strayed>>
-----------------------------------------------------------------------------
\* _ensure_tools

\* Mutant: the notification is forgotten.
StraightToList == Test("tools_list")
AfterInitialize == Test("initialized")

\* The response's mcp-session-id replaces the session, whoever opened the last.
Initialized(q) ==
    /\ pc[q] = Wait("initialize")
    /\ opened' = opened + 1
    /\ session' = opened + 1
    /\ Goto(q, AfterInitialize)
    /\ UNCHANGED <<threads, asks, names, count, tools, byTerm, byConcept, proofs,
                   ready, sent, matched, strayed, failed>>

Notified(q) ==
    /\ pc[q] = Wait("initialized")
    /\ ready' = ready \cup {session}
    /\ Goto(q, Test("tools_list"))
    /\ UNCHANGED <<threads, asks, names, provider, opened, sent, matched, strayed, failed>>

\* Mutant: the listed tools are not kept.
Forgotten(listed) == tools
Kept(listed) == listed

\* An empty list is stored too, before it is refused.
Listed(q) ==
    /\ pc[q] = Wait("tools_list")
    /\ \E listed \in BOOLEAN :
         /\ tools' = Kept(listed)
         /\ failed' = (failed \/ ~ listed)
         /\ IF listed THEN Goto(q, At("find_tool")) ELSE End(q, "error")
    /\ UNCHANGED <<threads, asks, names, count, session, byTerm, byConcept, proofs,
                   opened, ready, sent, matched, strayed>>

-----------------------------------------------------------------------------
\* _retrieve_snapshot and _cache

\* _tools is read again: another request's empty list may have replaced it.
FindTool(q) ==
    /\ pc[q] = At("find_tool")
    /\ IF tools THEN Goto(q, Test("tools_call")) ELSE End(q, "error")
    /\ UNCHANGED <<threads, asks, names, provider, service>>

\* A full snapshot, which names itself and may not name what was asked; or the
\* governed entity type, which needs a local snapshot of that name.
Matched(q) ==
    /\ pc[q] = Wait("tools_call")
    /\ matched' = matched \cup {term(q)}
    /\ \/ /\ Goto(q, At("cache_term"))
          /\ \E named \in SUBSET Terms :
               /\ names' = [names EXCEPT ![q] = named]
               /\ failed' = (failed \/ term(q) \notin named)
       \/ term(q) \in Local /\ Goto(q, At("prove")) /\ UNCHANGED <<names, failed>>
       \/ term(q) \notin Local /\ End(q, "error") /\ failed' = TRUE /\ UNCHANGED names
    /\ UNCHANGED <<threads, asks, provider, opened, ready, sent, strayed>>

\* Mutant: the fallback leaves a proof as a match does.
AfterFallback == At("prove")
AfterNoMatch  == At("cache_term")

\* No match: a local scenario stands in, and nothing claims that Fabric knew it.
NotMatched(q) ==
    /\ pc[q] = Wait("tools_call")
    /\ IF term(q) \in Local THEN Goto(q, AfterNoMatch) ELSE End(q, "error")
    /\ failed' = (failed \/ term(q) \notin Local)
    /\ UNCHANGED <<threads, asks, names, provider, opened, ready, sent, matched, strayed>>

RecordProof(q) ==
    /\ pc[q] = At("prove")
    /\ proofs' = proofs \cup {term(q)}
    /\ Goto(q, At("cache_term"))
    /\ UNCHANGED <<threads, asks, names, count, session, tools, byTerm, byConcept, service>>

\* _cache files a snapshot under the words that name it.
CacheTerm(q) ==
    /\ pc[q] = At("cache_term")
    /\ byTerm' = byTerm \cup names[q]
    /\ Goto(q, At("cache_concept"))
    /\ UNCHANGED <<threads, asks, names, count, session, tools, byConcept, proofs, service>>

CacheConcept(q) ==
    /\ pc[q] = At("cache_concept")
    /\ byConcept' = byConcept \cup names[q]
    /\ Goto(q, At("bindings"))
    /\ UNCHANGED <<threads, asks, names, count, session, tools, byTerm, proofs, service>>

\* get_binding_semantics of the resolved concept, the next thing a case reads; a
\* concept not cached yet is a ConceptNotFound, which the API words as a refusal.
ReadBindings(q) ==
    /\ pc[q] = At("bindings")
    /\ End(q, IF asks[q].op = "nl_query" \/ names[q] \subseteq byConcept THEN "ok" ELSE "refused")
    /\ UNCHANGED <<threads, asks, names, provider, service>>
-----------------------------------------------------------------------------
Step(q) ==
    \/ Start(q) \/ Lookup(q) \/ EnsureTools(q)
    \/ TestBudget(q) \/ SendCall(q) \/ CallFails(q)
    \/ Initialized(q) \/ Notified(q) \/ Listed(q)
    \/ FindTool(q) \/ Matched(q) \/ NotMatched(q)
    \/ RecordProof(q) \/ CacheTerm(q) \/ CacheConcept(q) \/ ReadBindings(q)

Next == \E q \in Requests : Step(q)

Spec == Init /\ [][Next]_vars
-----------------------------------------------------------------------------
Locations ==
    {At(l) : l \in {"waiting", "lookup", "ensure", "find_tool", "prove", "cache_term",
                    "cache_concept", "bindings", "done"}}
    \cup {Test(m) : m \in Methods} \cup {Send(m) : m \in Methods} \cup {Wait(m) : m \in Methods}

AllSent == sent["initialize"] + sent["initialized"] + sent["tools_list"] + sent["tools_call"]

\* The provider's fields hold what they may; every call is counted; what is
\* cached by concept is cached by term.
TypeOK ==
    /\ threads \in Threads
    /\ count = AllSent
    /\ session \in 0..opened /\ ready \subseteq 1..opened
    /\ tools \in BOOLEAN
    /\ byConcept \subseteq byTerm /\ byTerm \subseteq Terms /\ proofs \subseteq Terms
    /\ pc \in [Requests -> Locations] /\ names \in [Requests -> SUBSET Terms]
    /\ outcome \in [Requests -> {"none", "ok", "exhausted", "error", "refused"}]

\* MAX_CLOUD_CALLS without a lock: each thread but one can pass the test before
\* another's call is counted, and no thread can do it twice.
OvershootBounded == AllSent <= MaxCalls + threads - 1

\* "No Fabric semantic proof is recorded for it": a term in semantic_proofs is one
\* whose entity type the service returned, in whatever order responses arrive.
ProofsAreEarned == proofs \subseteq matched

\* test_fabric_capture_stays_within_six_call_budget: one caller at a time, with no
\* failure and snapshots that name what was asked, shakes hands once and asks for
\* each term once, however often it resolves it, so that a budget of three plus a
\* call per retrieval suffices.
CaptureWithinBudget ==
    LET queries == {q \in Requests : asks[q].op = "nl_query"}
        terms   == {term(q) : q \in Requests \ queries}
        enough  == 3 + Cardinality(terms) + Cardinality(queries)
    IN  threads = 1 /\ ~ failed =>
            /\ AllSent <= enough
            /\ MaxCalls >= enough => \A q \in Requests : outcome[q] # "exhausted"

\* One caller at a time never uses a session the service has not been told is
\* initialized, whatever failed and was tried again before.
CallsInReadySession == threads = 1 => strayed = {}

\* "Enforce opt-in and a hard request budget before every HTTP call".
HardBudget == AllSent <= MaxCalls
-----------------------------------------------------------------------------
\* The inductive strengthening of the safety properties, part by part.  It is
\* proved in SessionProofs.

Sending == {q \in Requests : \E m \in Methods : pc[q] = Send(m)}

\* What TypeOK leaves open, which of the two caches is filled first, and that
\* snapshots name what was asked unless one did not.
CallsTyped ==
    /\ sent \in [Methods -> Nat] /\ opened \in Nat
    /\ asks \in [Requests -> [op: {"resolve", "nl_query"}, term: Terms]]
    /\ matched \subseteq Terms
    /\ \A q \in Requests : pc[q] = At("cache_concept") => names[q] \subseteq byTerm
    /\ ~ failed => \A q \in Requests : term(q) \in names[q]

\* A notification is about a session that was opened.
Notifying(q)  == pc[q] \in {Test("initialized"), Send("initialized"), Wait("initialized")}
SessionOpened == \A q \in Requests : Notifying(q) => session # 0

\* A request that has passed the test and is not counted yet is under way, and
\* its test found the budget not exhausted.
BudgetKept ==
    /\ Cardinality(UnderWay) <= threads
    /\ count + Cardinality(Sending) <= MaxCalls + threads - 1

\* A proof is about to be recorded only after a match.
ProvesMatched == \A q \in Requests : pc[q] = At("prove") => term(q) \in matched

Handshake(q) == \E m \in Methods \ {"tools_call"} : pc[q] \in {Test(m), Send(m), Wait(m)}

\* Alone, a request that lists the tools or has them is in a ready session; while
\* it shakes hands there are none.
SessionReady ==
    threads = 1 =>
        /\ tools => session \in ready
        /\ \A q \in Requests :
             /\ Handshake(q) => ~ tools
             /\ pc[q] \in {Test("tools_list"), Send("tools_list"), Wait("tools_list")} =>
                  session \in ready
             /\ pc[q] \in {Test("tools_call"), Send("tools_call")} => tools
        /\ strayed = {}

Inv == /\ TypeOK /\ CallsTyped /\ SessionOpened /\ BudgetKept
       /\ ProofsAreEarned /\ ProvesMatched /\ SessionReady
=============================================================================
