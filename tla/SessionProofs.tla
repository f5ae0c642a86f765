--------------------------- MODULE SessionProofs ---------------------------
(***************************************************************************)
(* What CloudSession guarantees for every budget, every number of requests *)
(* and threads, and every set of terms, proved with TLAPS.                 *)
(***************************************************************************)
EXTENDS CloudSession, FiniteSetTheorems, TLAPS

-----------------------------------------------------------------------------
\* Counting the requests that are somewhere.

\* A set of requests gains or loses at most one member when one request moves.
LEMMA OneMore ==
    ASSUME NEW S \in SUBSET Requests, NEW T, NEW q \in Requests, T \subseteq S \cup {q}
    PROVE  /\ IsFiniteSet(S) /\ IsFiniteSet(T)
           /\ Cardinality(S) \in Nat /\ Cardinality(T) \in Nat
           /\ Cardinality(T) <= Cardinality(S) + 1
           /\ T \subseteq S => Cardinality(T) <= Cardinality(S)
           /\ q \in S /\ T \subseteq S \ {q} => Cardinality(T) <= Cardinality(S) - 1
PROOF
<1>1. IsFiniteSet(S) /\ IsFiniteSet(S \cup {q})
    BY SessionAssumption, FS_Subset
<1>2. IsFiniteSet(T)
    BY <1>1, FS_Subset
<1>3. Cardinality(S) \in Nat /\ Cardinality(T) \in Nat
    BY <1>1, <1>2, FS_CardinalityType
<1>4. Cardinality(S \cup {q}) <= Cardinality(S) + 1
    BY <1>1, <1>3, FS_AddElement
<1>5. Cardinality(T) <= Cardinality(S \cup {q})
    BY <1>1, FS_Subset
<1>6. Cardinality(T) <= Cardinality(S) + 1
    <2>1. Cardinality(S \cup {q}) \in Nat
        BY <1>1, FS_CardinalityType
    <2> QED BY <1>3, <1>4, <1>5, <2>1
<1>7. T \subseteq S => Cardinality(T) <= Cardinality(S)
    BY <1>1, FS_Subset
<1>8. ASSUME q \in S, T \subseteq S \ {q} PROVE Cardinality(T) <= Cardinality(S) - 1
    <2>1. IsFiniteSet(S \ {q}) /\ Cardinality(S \ {q}) = Cardinality(S) - 1
        BY <1>1, <1>8, FS_RemoveElement
    <2>2. Cardinality(T) <= Cardinality(S \ {q})
        BY <1>8, <2>1, FS_Subset
    <2> QED BY <2>1, <2>2
<1> QED BY <1>1, <1>2, <1>3, <1>6, <1>7, <1>8

\* Two requests cannot be under way when at most one is.
LEMMA Alone ==
    ASSUME NEW S \in SUBSET Requests, Cardinality(S) <= 1, NEW p \in S, NEW q \in S
    PROVE  p = q
PROOF
<1>1. IsFiniteSet(S)
    BY SessionAssumption, FS_Subset
<1>2. Cardinality(S) = 0 \/ Cardinality(S) = 1
    BY <1>1, FS_CardinalityType
<1>3. Cardinality(S) # 0
    BY <1>1, FS_EmptySet
<1>4. PICK x : S = {x}
    BY <1>1, <1>2, <1>3, FS_Singleton
<1> QED BY <1>4

-----------------------------------------------------------------------------
\* Types.

\* A session that begins has the types.
LEMMA TypeInit == Init => TypeOK /\ CallsTyped
PROOF
<1> SUFFICES ASSUME Init PROVE TypeOK /\ CallsTyped
    OBVIOUS
<1> USE SessionAssumption DEF Init
<1>1. AllSent = 0
    BY DEF AllSent, Methods
<1>2. pc \in [Requests -> Locations]
    BY DEF Locations, At
<1>3. session \in 0..opened /\ ready \subseteq 1..opened
    OBVIOUS
<1>4. \A q \in Requests : pc[q] # At("cache_concept")
    BY DEF At
<1>5. sent \in [Methods -> Nat] /\ outcome \in [Requests -> {"none"}]
    OBVIOUS
<1>6. CallsTyped
    BY <1>4, <1>5 DEF CallsTyped, term
<1>7. TypeOK
    BY <1>1, <1>2, <1>3, <1>5 DEF TypeOK
<1> QED BY <1>6, <1>7

\* No two steps of a request have the same name, so what is known at one is
\* not asked at another.
LEMMA Distinct ==
    /\ \A m, n \in Methods : Test(m) # Send(n) /\ Test(m) # Wait(n) /\ Send(m) # Wait(n)
    /\ \A m, n \in Methods : Test(m) = Test(n) \/ Send(m) = Send(n) \/ Wait(m) = Wait(n) => m = n
    /\ \A m \in Methods : \A l : At(l) # Test(m) /\ At(l) # Send(m) /\ At(l) # Wait(m)
    /\ \A k, l : At(k) = At(l) => k = l
PROOF
<1>1. \A m, n : Test(m) # Send(n) /\ Test(m) # Wait(n) /\ Send(m) # Wait(n)
    BY DEF Test, Send, Wait
<1>2. \A m, n : Test(m) = Test(n) => m = n
    BY DEF Test
<1>3. \A m, n : Send(m) = Send(n) => m = n
    BY DEF Send
<1>4. \A m, n : Wait(m) = Wait(n) => m = n
    BY DEF Wait
<1>5. \A m, l : At(l) # Test(m) /\ At(l) # Send(m) /\ At(l) # Wait(m)
    BY DEF Test, Send, Wait, At
<1>6. \A k, l : At(k) = At(l) => k = l
    BY DEF At
<1> QED BY <1>1, <1>2, <1>3, <1>4, <1>5, <1>6

\* A failure is not forgotten.
LEMMA FailureStays == ASSUME NEW q \in Requests, Step(q), failed PROVE failed'
BY Zenon DEF Step, Start, Lookup, EnsureTools, TestBudget, SendCall, CallFails, Initialized,
             Notified, Listed, FindTool, Matched, NotMatched, RecordProof, CacheTerm,
             CacheConcept, ReadBindings, service

\* A match that is no failure gives a snapshot of the asked name.
LEMMA MatchNames ==
    ASSUME NEW q \in Requests, Matched(q), ~ failed', names \in [Requests -> SUBSET Terms],
           term(q) \in names[q]
    PROVE  term(q) \in names'[q]
PROOF
<1>1. CASE UNCHANGED names
    BY <1>1
<1>2. ASSUME NEW named \in SUBSET Terms, names' = [names EXCEPT ![q] = named],
             failed' = (failed \/ term(q) \notin named)
      PROVE  term(q) \in names'[q]
    <2>1. term(q) \in named
        BY Zenon, <1>2
    <2> QED BY <1>2, <2>1
<1> QED BY Zenon, <1>1, <1>2 DEF Matched

\* Every step of every request writes values of the fields' types, and counts
\* exactly the call it sends.
LEMMA TypeStep == TypeOK /\ CallsTyped /\ SessionOpened /\ [Next]_vars => TypeOK' /\ CallsTyped'
PROOF
<1> SUFFICES ASSUME TypeOK, CallsTyped, SessionOpened, [Next]_vars PROVE TypeOK' /\ CallsTyped'
    OBVIOUS
<1>u. CASE UNCHANGED vars
    BY <1>u DEF TypeOK, CallsTyped, AllSent, term, vars, provider, service
<1>q. SUFFICES ASSUME NEW q \in Requests, Step(q) PROVE TypeOK' /\ CallsTyped'
    BY <1>u DEF Next
<1>t. term(q) \in Terms
    BY DEF CallsTyped, term
<1>l. /\ \A m \in Methods : {Test(m), Send(m), Wait(m)} \subseteq Locations
      /\ {At("lookup"), At("ensure"), At("find_tool"), At("prove"), At("cache_term"),
          At("cache_concept"), At("bindings"), At("done")} \subseteq Locations
    BY DEF Locations
<1>m. Methods = {"initialize", "initialized", "tools_list", "tools_call"}
    BY DEF Methods
<1>d. \A m \in Methods : \A l : At(l) # Test(m) /\ At(l) # Send(m) /\ At(l) # Wait(m)
    BY Distinct
<1>e. \A k, l : At(k) = At(l) => k = l
    BY Distinct
<1>f. ~ failed' => ~ failed
    BY Zenon, <1>q, FailureStays
<1> USE DEF TypeOK, CallsTyped, AllSent, term, provider, service, Goto, End
<1>1. CASE Start(q)
    BY <1>1, <1>d, <1>e, <1>l DEF Start
<1>2. CASE Lookup(q)
    BY <1>2, <1>d, <1>e, <1>l DEF Lookup
<1>3. CASE EnsureTools(q)
    BY <1>3, <1>d, <1>e, <1>l, <1>m DEF EnsureTools
<1>4. CASE TestBudget(q)
    <2>1. PICK m \in Methods : IF Exhausted(m) THEN End(q, "exhausted") ELSE Goto(q, Send(m))
        BY <1>4 DEF TestBudget
    <2>2. pc' \in [Requests -> Locations] /\ pc'[q] # At("cache_concept")
        BY <2>1, <1>d, <1>e, <1>l
    <2>3. outcome' \in [Requests -> {"none", "ok", "exhausted", "error", "refused"}]
        BY <2>1
    <2>4. \A p \in Requests \ {q} : pc'[p] = pc[p]
        BY <2>1
    <2> QED BY <1>4, <2>2, <2>3, <2>4 DEF TestBudget
<1>5. CASE SendCall(q)
    <2>1. PICK m \in Methods : /\ count' = count + 1
                               /\ sent' = [sent EXCEPT ![m] = @ + 1]
                               /\ pc' = [pc EXCEPT ![q] = Wait(m)]
        BY <1>5 DEF SendCall, Counted
    <2>2. sent' \in [Methods -> Nat]
        BY <2>1, <1>m
    <2>3. \A n \in Methods : sent[n] \in Nat /\ sent'[n] = IF n = m THEN sent[n] + 1 ELSE sent[n]
        BY <2>1
    <2>4. sent["initialize"]' + sent["initialized"]' + sent["tools_list"]' + sent["tools_call"]'
             = sent["initialize"] + sent["initialized"] + sent["tools_list"] + sent["tools_call"] + 1
        BY <2>3, <1>m
    <2>5. pc' \in [Requests -> Locations]
        BY <2>1, <1>l
    <2> QED BY <1>5, <1>d, <2>1, <2>2, <2>4, <2>5 DEF SendCall
<1>6. CASE CallFails(q)
    BY <1>6, <1>d, <1>e, <1>l DEF CallFails
<1>7. CASE Initialized(q)
    <2>1. opened' = opened + 1 /\ session' = opened + 1 /\ ready' = ready /\ opened \in Nat
        BY <1>7 DEF Initialized
    <2>2. opened' \in Nat /\ session' \in 0..opened' /\ ready' \subseteq 1..opened'
        BY <2>1
    <2> QED BY <1>7, <1>d, <1>e, <1>l, <1>m, <2>2 DEF Initialized, AfterInitialize
<1>8. CASE Notified(q)
    <2>1. session \in 1..opened
        BY <1>8 DEF Notified, SessionOpened, Notifying
    <2> QED BY <1>8, <1>d, <1>e, <1>l, <1>m, <2>1 DEF Notified
<1>9. CASE Listed(q)
    BY <1>9, <1>d, <1>e, <1>f, <1>l DEF Listed, Kept
<1>10. CASE FindTool(q)
    BY <1>10, <1>d, <1>e, <1>l, <1>m DEF FindTool
<1>11. CASE Matched(q)
    <2>1. pc' \in [Requests -> Locations] /\ pc'[q] # At("cache_concept")
        BY <1>11, <1>d, <1>e, <1>l DEF Matched
    <2>2. outcome' \in [Requests -> {"none", "ok", "exhausted", "error", "refused"}]
        BY <1>11 DEF Matched
    <2>3. \A p \in Requests \ {q} : pc'[p] = pc[p]
        BY <1>11 DEF Matched
    <2>4. /\ names' \in [Requests -> SUBSET Terms]
          /\ \A p \in Requests \ {q} : names'[p] = names[p]
        BY <1>11, <1>t DEF Matched
    <2>5. byTerm' = byTerm /\ asks' = asks
        BY <1>11 DEF Matched
    <2>6. \A p \in Requests : pc'[p] = At("cache_concept") => names'[p] \subseteq byTerm'
        BY <2>1, <2>3, <2>4, <2>5
    <2>7. ~ failed' => \A p \in Requests : term(p)' \in names'[p]
        BY <1>11, <1>f, <2>4, <2>5, MatchNames
    <2> QED BY <1>11, <1>t, <2>1, <2>2, <2>4, <2>5, <2>6, <2>7 DEF Matched
<1>12. CASE NotMatched(q)
    BY <1>12, <1>d, <1>e, <1>f, <1>l DEF NotMatched, AfterNoMatch
<1>13. CASE RecordProof(q)
    BY <1>13, <1>d, <1>e, <1>l, <1>t DEF RecordProof
<1>14. CASE CacheTerm(q)
    BY <1>14, <1>d, <1>e, <1>l, <1>t DEF CacheTerm
<1>15. CASE CacheConcept(q)
    BY <1>15, <1>d, <1>e, <1>l, <1>t DEF CacheConcept
<1>16. CASE ReadBindings(q)
    BY <1>16, <1>d, <1>e, <1>l DEF ReadBindings
<1> QED BY <1>q, <1>1, <1>2, <1>3, <1>4, <1>5, <1>6, <1>7, <1>8, <1>9, <1>10, <1>11, <1>12,
           <1>13, <1>14, <1>15, <1>16 DEF Step

-----------------------------------------------------------------------------
\* Moving one request.

\* A step moves one request, and no request changes its question.
LEMMA Moves ==
    ASSUME TypeOK, NEW q \in Requests, Step(q)
    PROVE  /\ threads' = threads /\ asks' = asks
           /\ \A p \in Requests \ {q} : pc'[p] = pc[p]
PROOF
<1>1. threads' = threads /\ asks' = asks
    BY DEF Step, Start, Lookup, EnsureTools, TestBudget, SendCall, CallFails, Initialized,
           Notified, Listed, FindTool, Matched, NotMatched, RecordProof, CacheTerm,
           CacheConcept, ReadBindings
<1>2. \E l : pc' = [pc EXCEPT ![q] = l]
    BY DEF Step, Start, Lookup, EnsureTools, TestBudget, SendCall, CallFails, Initialized,
           Notified, Listed, FindTool, Matched, NotMatched, RecordProof, CacheTerm,
           CacheConcept, ReadBindings, Goto, End
<1> QED BY <1>1, <1>2 DEF TypeOK

\* Only Start moves a request that is not under way.
LEMMA MovesUnderWay ==
    ASSUME NEW q \in Requests, Step(q), ~ Start(q)
    PROVE  q \in UnderWay
PROOF
<1>1. CASE \E m \in Methods : pc[q] \in {Test(m), Send(m), Wait(m)}
    BY <1>1, Distinct DEF UnderWay
<1>2. CASE \E l \in {"lookup", "ensure", "find_tool", "prove", "cache_term",
                     "cache_concept", "bindings"} : pc[q] = At(l)
    BY <1>2, Distinct DEF UnderWay
<1>3. \/ \E m \in Methods : pc[q] \in {Test(m), Send(m), Wait(m)}
      \/ \E l \in {"lookup", "ensure", "find_tool", "prove", "cache_term",
                   "cache_concept", "bindings"} : pc[q] = At(l)
    BY DEF Step, Lookup, EnsureTools, TestBudget, SendCall, CallFails, Initialized,
           Notified, Listed, FindTool, Matched, NotMatched, RecordProof, CacheTerm,
           CacheConcept, ReadBindings, Methods
<1> QED BY <1>1, <1>2, <1>3

-----------------------------------------------------------------------------
\* The call budget.

\* A request passes the test only below the budget, and at most threads requests
\* are between the test and the count.
LEMMA BudgetStep ==
    TypeOK /\ CallsTyped /\ BudgetKept /\ [Next]_vars => BudgetKept'
PROOF
<1> SUFFICES ASSUME TypeOK, CallsTyped, BudgetKept, [Next]_vars PROVE BudgetKept'
    OBVIOUS
<1>u. CASE UNCHANGED vars
    BY <1>u DEF BudgetKept, UnderWay, Sending, vars, provider
<1>q. SUFFICES ASSUME NEW q \in Requests, Step(q) PROVE BudgetKept'
    BY <1>u DEF Next
<1>a. threads' = threads /\ \A p \in Requests \ {q} : pc'[p] = pc[p]
    BY <1>q, Moves
<1>n. count \in Nat /\ MaxCalls \in Nat /\ threads \in Nat
    BY SessionAssumption DEF TypeOK, CallsTyped, AllSent, Methods
<1>b. UnderWay' \subseteq UnderWay \cup {q} /\ Sending' \subseteq Sending \cup {q}
    BY <1>a DEF UnderWay, Sending
<1>s. UnderWay \subseteq Requests /\ UnderWay' \subseteq Requests /\ Sending \subseteq Requests
    BY DEF UnderWay, Sending
<1>c. /\ Cardinality(UnderWay) \in Nat /\ Cardinality(UnderWay') \in Nat
      /\ Cardinality(Sending) \in Nat /\ Cardinality(Sending') \in Nat
    BY <1>b, <1>s, OneMore
<1>k. Cardinality(UnderWay) <= threads /\ count + Cardinality(Sending) <= MaxCalls + threads - 1
    BY DEF BudgetKept
<1>w. Cardinality(UnderWay') <= threads
    <2>1. CASE Start(q)
        <3>1. Cardinality(UnderWay) < threads
            BY <2>1 DEF Start
        <3>2. Cardinality(UnderWay') <= Cardinality(UnderWay) + 1
            BY <1>b, <1>s, OneMore
        <3> QED BY <3>1, <3>2, <1>c, <1>n
    <2>2. CASE ~ Start(q)
        <3>1. UnderWay' \subseteq UnderWay
            BY <2>2, <1>q, <1>b, MovesUnderWay
        <3>2. Cardinality(UnderWay') <= Cardinality(UnderWay)
            BY <3>1, <1>b, <1>s, OneMore
        <3> QED BY <3>2, <1>c, <1>k, <1>n
    <2> QED BY <2>1, <2>2
<1>1. ASSUME Sending' \subseteq Sending, count' = count PROVE BudgetKept'
    <2>1. Cardinality(Sending') <= Cardinality(Sending)
        BY <1>1, <1>b, <1>s, OneMore
    <2>2. count' + Cardinality(Sending') <= MaxCalls + threads' - 1
        BY <2>1, <1>1, <1>a, <1>c, <1>k, <1>n
    <2> QED BY <2>2, <1>a, <1>w DEF BudgetKept
<1>2. CASE TestBudget(q)
    <2>1. PICK m \in Methods : /\ pc[q] = Test(m) /\ count' = count
                               /\ IF Exhausted(m) THEN End(q, "exhausted") ELSE Goto(q, Send(m))
        BY <1>2 DEF TestBudget, provider
    <2>2. CASE Exhausted(m)
        <3>1. pc'[q] = At("done")
            BY <2>1, <2>2 DEF End, TypeOK
        <3>2. Sending' \subseteq Sending
            BY <3>1, <1>b, Distinct DEF Sending
        <3> QED BY <3>2, <2>1, <1>1
    <2>3. CASE ~ Exhausted(m)
        <3>1. count' < MaxCalls
            BY <2>1, <2>3, <1>n DEF Exhausted
        <3>2. Sending' \subseteq UnderWay'
            BY Distinct DEF Sending, UnderWay
        <3>3. Cardinality(Sending') <= Cardinality(UnderWay')
            BY <3>2, <1>s, OneMore
        <3>4. count' + Cardinality(Sending') <= MaxCalls + threads' - 1
            BY <3>1, <3>3, <2>1, <1>a, <1>c, <1>n, <1>w
        <3> QED BY <3>4, <1>a, <1>w DEF BudgetKept
    <2> QED BY <2>2, <2>3
<1>3. CASE SendCall(q)
    <2>1. PICK m \in Methods : /\ pc[q] = Send(m) /\ count' = count + 1
                               /\ pc' = [pc EXCEPT ![q] = Wait(m)]
        BY <1>3 DEF SendCall, Counted, Goto
    <2>2. q \in Sending /\ pc'[q] = Wait(m)
        BY <2>1 DEF Sending, TypeOK
    <2>3. Sending' \subseteq Sending \ {q}
        BY <2>2, <1>b, Distinct DEF Sending
    <2>4. Cardinality(Sending') <= Cardinality(Sending) - 1
        BY <2>2, <2>3, <1>b, <1>s, OneMore
    <2>5. count' + Cardinality(Sending') <= MaxCalls + threads' - 1
        BY <2>1, <2>4, <1>a, <1>c, <1>k, <1>n
    <2> QED BY <2>5, <1>a, <1>w DEF BudgetKept
<1>4. CASE ~ TestBudget(q) /\ ~ SendCall(q)
    <2>1. count' = count
        BY <1>q, <1>4 DEF Step, Start, Lookup, EnsureTools, CallFails, Initialized, Notified,
                    Listed, FindTool, Matched, NotMatched, RecordProof, CacheTerm,
                    CacheConcept, ReadBindings, provider
    <2>2. \A m \in Methods : pc'[q] # Send(m)
        <3>1. CASE \E l : pc'[q] = At(l)
            BY <3>1, Distinct
        <3>2. CASE \E m \in Methods : pc'[q] = Test(m)
            BY <3>2, Distinct
        <3>3. CASE EnsureTools(q) \/ FindTool(q) \/ Initialized(q) \/ Notified(q)
            BY <3>1, <3>2, <3>3 DEF EnsureTools, FindTool, Initialized, Notified, Goto, End,
                                    AfterInitialize, Methods, TypeOK
        <3>4. CASE Start(q) \/ Lookup(q) \/ CallFails(q) \/ Listed(q) \/ Matched(q) \/ NotMatched(q)
            <4>1. pc'[q] \in {At("lookup"), At("bindings"), At("ensure"), At("done"),
                              At("find_tool"), At("prove"), At("cache_term")}
                BY <3>4 DEF Start, Lookup, CallFails, Listed, Matched, NotMatched, Goto, End,
                            AfterNoMatch, TypeOK
            <4> QED BY <3>1, <4>1
        <3>5. CASE RecordProof(q) \/ CacheTerm(q) \/ CacheConcept(q) \/ ReadBindings(q)
            BY <3>1, <3>5 DEF RecordProof, CacheTerm, CacheConcept, ReadBindings, Goto, End, TypeOK
        <3> QED BY <1>q, <1>4, <3>3, <3>4, <3>5 DEF Step
    <2>3. Sending' \subseteq Sending
        BY <2>2, <1>b DEF Sending
    <2> QED BY <2>1, <2>3, <1>1
<1> QED BY <1>2, <1>3, <1>4

-----------------------------------------------------------------------------
\* Sessions.

\* The session a notification is about is never taken away.
LEMMA SessionOpenedStep ==
    TypeOK /\ CallsTyped /\ SessionOpened /\ [Next]_vars => SessionOpened'
PROOF
<1> SUFFICES ASSUME TypeOK, CallsTyped, SessionOpened, [Next]_vars PROVE SessionOpened'
    OBVIOUS
<1>u. CASE UNCHANGED vars
    BY <1>u DEF SessionOpened, Notifying, vars, provider
<1>q. SUFFICES ASSUME NEW q \in Requests, Step(q) PROVE SessionOpened'
    BY <1>u DEF Next
<1>a. \A p \in Requests \ {q} : pc'[p] = pc[p]
    BY <1>q, Moves
<1>s. session # 0 => session' # 0
    <2>1. session' = session \/ session' = opened + 1
        BY <1>q DEF Step, Start, Lookup, EnsureTools, TestBudget, SendCall, CallFails,
                    Initialized, Notified, Listed, FindTool, Matched, NotMatched, RecordProof,
                    CacheTerm, CacheConcept, ReadBindings, provider
    <2> QED BY <2>1 DEF CallsTyped
<1>1. ASSUME Notifying(q)' => session' # 0 PROVE SessionOpened'
    BY <1>1, <1>a, <1>s DEF SessionOpened, Notifying
<1>i. "initialized" \in Methods /\ "initialize" \in Methods /\ "tools_list" \in Methods
      /\ "tools_call" \in Methods
    BY DEF Methods
<1>2. CASE TestBudget(q)
    <2>1. PICK m \in Methods : /\ pc[q] = Test(m)
                               /\ pc'[q] = At("done") \/ pc'[q] = Send(m)
        BY <1>2 DEF TestBudget, Goto, End, TypeOK
    <2>2. Notifying(q)' => m = "initialized"
        BY <2>1, <1>i, Distinct DEF Notifying
    <2> QED BY <2>1, <2>2, <1>1, <1>s DEF SessionOpened, Notifying
<1>3. CASE SendCall(q)
    <2>1. PICK m \in Methods : pc[q] = Send(m) /\ pc'[q] = Wait(m)
        BY <1>3 DEF SendCall, Goto, TypeOK
    <2>2. Notifying(q)' => m = "initialized"
        BY <2>1, <1>i, Distinct DEF Notifying
    <2> QED BY <2>1, <2>2, <1>1, <1>s DEF SessionOpened, Notifying
<1>4. CASE Initialized(q)
    <2>1. session' # 0
        BY <1>4 DEF Initialized, CallsTyped
    <2> QED BY <2>1, <1>1
<1>5. CASE ~ TestBudget(q) /\ ~ SendCall(q) /\ ~ Initialized(q)
    <2>1. CASE \E l : pc'[q] = At(l)
        BY <2>1, <1>i, <1>1, Distinct DEF Notifying
    <2>2. CASE \E m \in {"initialize", "tools_list", "tools_call"} : pc'[q] = Test(m)
        BY <2>2, <1>i, <1>1, Distinct DEF Notifying
    <2>3. CASE EnsureTools(q) \/ FindTool(q) \/ Notified(q)
        BY <2>1, <2>2, <2>3 DEF EnsureTools, FindTool, Notified, Goto, End, TypeOK
    <2>4. CASE Start(q) \/ Lookup(q) \/ CallFails(q) \/ Listed(q) \/ Matched(q) \/ NotMatched(q)
        <3>1. pc'[q] \in {At("lookup"), At("bindings"), At("ensure"), At("done"),
                          At("find_tool"), At("prove"), At("cache_term")}
            BY <2>4 DEF Start, Lookup, CallFails, Listed, Matched, NotMatched, Goto, End,
                        AfterNoMatch, TypeOK
        <3> QED BY <2>1, <3>1
    <2>5. CASE RecordProof(q) \/ CacheTerm(q) \/ CacheConcept(q) \/ ReadBindings(q)
        BY <2>1, <2>5 DEF RecordProof, CacheTerm, CacheConcept, ReadBindings, Goto, End, TypeOK
    <2> QED BY <1>q, <1>5, <2>3, <2>4, <2>5 DEF Step
<1> QED BY <1>2, <1>3, <1>4, <1>5

-----------------------------------------------------------------------------
\* Proofs of Fabric's knowledge.

\* A proof follows a match of the same request, and the service never takes a
\* match back.
LEMMA ProofsStep ==
    TypeOK /\ CallsTyped /\ ProofsAreEarned /\ ProvesMatched /\ [Next]_vars =>
        ProofsAreEarned' /\ ProvesMatched'
PROOF
<1> SUFFICES ASSUME TypeOK, CallsTyped, ProofsAreEarned, ProvesMatched, [Next]_vars
             PROVE  ProofsAreEarned' /\ ProvesMatched'
    OBVIOUS
<1>u. CASE UNCHANGED vars
    BY <1>u DEF ProofsAreEarned, ProvesMatched, term, vars, provider, service
<1>q. SUFFICES ASSUME NEW q \in Requests, Step(q) PROVE ProofsAreEarned' /\ ProvesMatched'
    BY <1>u DEF Next
<1>a. asks' = asks /\ \A p \in Requests \ {q} : pc'[p] = pc[p]
    BY <1>q, Moves
<1>1. ASSUME matched \subseteq matched', proofs' = proofs,
             pc'[q] = At("prove") => term(q) \in matched'
      PROVE  ProofsAreEarned' /\ ProvesMatched'
    BY <1>1, <1>a DEF ProofsAreEarned, ProvesMatched, term
<1>2. CASE Matched(q)
    <2>1. matched' = matched \cup {term(q)} /\ proofs' = proofs
        BY <1>2 DEF Matched, provider
    <2> QED BY <2>1, <1>1
<1>3. CASE RecordProof(q)
    <2>1. proofs' = proofs \cup {term(q)} /\ matched' = matched /\ pc'[q] = At("cache_term")
        BY <1>3 DEF RecordProof, service, Goto, TypeOK
    <2>2. term(q) \in matched
        BY <1>3 DEF RecordProof, ProvesMatched
    <2> QED BY <2>1, <2>2, <1>a, Distinct DEF ProofsAreEarned, ProvesMatched, term
<1>4. CASE ~ Matched(q) /\ ~ RecordProof(q)
    <2>1. matched' = matched /\ proofs' = proofs
        BY <1>q, <1>4 DEF Step, Start, Lookup, EnsureTools, TestBudget, SendCall, CallFails,
                    Initialized, Notified, Listed, FindTool, NotMatched,
                    CacheTerm, CacheConcept, ReadBindings, provider, service
    <2>2. CASE TestBudget(q) \/ SendCall(q)
        <3>1. \E m \in Methods : pc'[q] \in {At("done"), Send(m), Wait(m)}
            BY <2>2 DEF TestBudget, SendCall, Goto, End, TypeOK
        <3> QED BY <3>1, <2>1, <1>1, Distinct
    <2>3. CASE EnsureTools(q) \/ FindTool(q) \/ Initialized(q) \/ Notified(q)
        <3>1. \/ \E m \in Methods : pc'[q] = Test(m)
              \/ pc'[q] \in {At("find_tool"), At("done")}
            BY <2>3 DEF EnsureTools, FindTool, Initialized, Notified, AfterInitialize,
                        Goto, End, Methods, TypeOK
        <3> QED BY <3>1, <2>1, <1>1, Distinct
    <2>4. CASE Start(q) \/ Lookup(q) \/ CallFails(q) \/ Listed(q) \/ NotMatched(q)
        <3>1. pc'[q] \in {At("lookup"), At("bindings"), At("ensure"), At("done"),
                          At("find_tool"), At("cache_term")}
            BY <2>4 DEF Start, Lookup, CallFails, Listed, NotMatched, Goto, End,
                        AfterNoMatch, TypeOK
        <3> QED BY <3>1, <2>1, <1>1, Distinct
    <2>5. CASE CacheTerm(q) \/ CacheConcept(q) \/ ReadBindings(q)
        <3>1. pc'[q] \in {At("cache_concept"), At("bindings"), At("done")}
            BY <2>5 DEF CacheTerm, CacheConcept, ReadBindings, Goto, End, TypeOK
        <3> QED BY <3>1, <2>1, <1>1, Distinct
    <2> QED BY <1>q, <1>4, <2>2, <2>3, <2>4, <2>5 DEF Step
<1> QED BY <1>2, <1>3, <1>4

-----------------------------------------------------------------------------
\* One caller at a time.

\* Alone, a request starts a handshake only without tools, and has the tools only
\* in the session it told the service about.
LEMMA SessionReadyStep ==
    TypeOK /\ CallsTyped /\ BudgetKept /\ SessionReady /\ [Next]_vars => SessionReady'
PROOF
<1> SUFFICES ASSUME TypeOK, CallsTyped, BudgetKept, SessionReady, [Next]_vars PROVE SessionReady'
    OBVIOUS
<1>u. CASE UNCHANGED vars
    BY <1>u DEF SessionReady, Handshake, vars, provider, service
<1>q. SUFFICES ASSUME NEW q \in Requests, Step(q), threads = 1 PROVE SessionReady'
    <2>1. CASE threads # 1
        <3>1. CASE \E q \in Requests : Step(q)
            BY <3>1, <2>1, Moves DEF SessionReady
        <3> QED BY <3>1, <1>u DEF Next
    <2> QED BY <1>q, <2>1, <1>u DEF Next
<1>a. \A p \in Requests \ {q} : pc'[p] = pc[p]
    BY <1>q, Moves
<1> DEFINE Listing(l) == l \in {Test("tools_list"), Send("tools_list"), Wait("tools_list")}
           Calling(l) == l \in {Test("tools_call"), Send("tools_call")}
           Shaking(l) == \E m \in Methods \ {"tools_call"} : l \in {Test(m), Send(m), Wait(m)}
<1>r. /\ tools => session \in ready
      /\ Shaking(pc[q]) => ~ tools
      /\ Listing(pc[q]) => session \in ready
      /\ Calling(pc[q]) => tools
      /\ strayed = {}
    BY <1>q DEF SessionReady, Handshake
<1>i. /\ {"initialize", "initialized", "tools_list", "tools_call"} = Methods
      /\ {"initialize", "initialized", "tools_list"} = Methods \ {"tools_call"}
    BY DEF Methods
<1>o. ASSUME NEW p \in Requests \ {q}, ~ Start(q)
      PROVE  ~ Shaking(pc[p]) /\ ~ Listing(pc[p]) /\ ~ Calling(pc[p])
    <2>1. UnderWay \subseteq Requests /\ Cardinality(UnderWay) <= 1
        BY <1>q DEF UnderWay, BudgetKept
    <2>2. q \in UnderWay
        BY <1>q, <1>o, MovesUnderWay
    <2>3. p \notin UnderWay
        BY <2>1, <2>2, <1>o, Alone
    <2>4. pc[p] = At("waiting") \/ pc[p] = At("done")
        BY <2>3 DEF UnderWay
    <2> QED BY <2>4, <1>i, Distinct
<1>g. ASSUME ~ Start(q), tools' => session' \in ready', strayed' = {},
             Shaking(pc'[q]) => ~ tools', Listing(pc'[q]) => session' \in ready',
             Calling(pc'[q]) => tools'
      PROVE  SessionReady'
    <2>1. ASSUME NEW p \in Requests
          PROVE  /\ Shaking(pc'[p]) => ~ tools'
                 /\ Listing(pc'[p]) => session' \in ready'
                 /\ Calling(pc'[p]) => tools'
        BY <1>g, <1>o, <1>a
    <2> HIDE DEF Shaking, Listing, Calling
    <2>2. \A p \in Requests : /\ Handshake(p)' => Shaking(pc'[p])
                              /\ pc'[p] \in {Test("tools_list"), Send("tools_list"), Wait("tools_list")}
                                    => Listing(pc'[p])
                              /\ pc'[p] \in {Test("tools_call"), Send("tools_call")} => Calling(pc'[p])
        BY DEF Handshake, Shaking, Listing, Calling
    <2> QED BY <2>1, <2>2, <1>g DEF SessionReady
<1>h. ASSUME NEW l, pc'[q] = At(l) PROVE ~ Shaking(pc'[q]) /\ ~ Listing(pc'[q]) /\ ~ Calling(pc'[q])
    BY <1>h, <1>i, Distinct
<1>1. CASE Start(q)
    <2>1. pc'[q] = At("lookup") /\ UNCHANGED <<threads, session, tools, ready, strayed>>
        BY <1>1 DEF Start, Goto, provider, service, TypeOK
    <2>2. ~ Shaking(pc'[q]) /\ ~ Listing(pc'[q]) /\ ~ Calling(pc'[q])
        BY <2>1, <1>h
    <2>3. ASSUME NEW p \in Requests
          PROVE  /\ Shaking(pc'[p]) => ~ tools
                 /\ Listing(pc'[p]) => session \in ready
                 /\ Calling(pc'[p]) => tools
        BY <2>2, <1>a, <1>q DEF SessionReady, Handshake
    <2> QED BY <2>1, <2>3, <1>r DEF SessionReady, Handshake
<1>2. CASE Lookup(q) \/ FindTool(q) \/ EnsureTools(q)
    <2>1. UNCHANGED <<session, tools, ready, strayed>> /\ ~ Start(q)
        BY <1>2, Distinct DEF Lookup, FindTool, EnsureTools, Start, provider, service
    <2>2. \/ pc'[q] \in {At("bindings"), At("ensure"), At("find_tool"), At("done")}
          \/ pc'[q] = Test("tools_call") /\ tools
          \/ pc'[q] = Test("initialize") /\ ~ tools
        BY <1>2 DEF Lookup, FindTool, EnsureTools, Goto, End, TypeOK
    <2>3. /\ Shaking(pc'[q]) => ~ tools
          /\ ~ Listing(pc'[q])
          /\ Calling(pc'[q]) => tools
        <3>1. CASE pc'[q] \in {At("bindings"), At("ensure"), At("find_tool"), At("done")}
            BY <3>1, <1>h
        <3>2. CASE pc'[q] = Test("tools_call") /\ tools
            BY <3>2, <1>i, Distinct
        <3>3. CASE pc'[q] = Test("initialize") /\ ~ tools
            BY <3>3, <1>i, Distinct
        <3> QED BY <2>2, <3>1, <3>2, <3>3
    <2> QED BY <2>1, <2>3, <1>r, <1>g
<1>3. CASE TestBudget(q)
    <2>1. PICK m \in Methods : pc[q] = Test(m) /\ (pc'[q] = At("done") \/ pc'[q] = Send(m))
        BY <1>3 DEF TestBudget, Goto, End, TypeOK
    <2>2. UNCHANGED <<session, tools, ready, strayed>> /\ ~ Start(q)
        BY <1>3, Distinct DEF TestBudget, Start, provider, service
    <2>3. /\ Shaking(pc'[q]) => Shaking(pc[q])
          /\ Listing(pc'[q]) => Listing(pc[q])
          /\ Calling(pc'[q]) => Calling(pc[q])
        <3>1. CASE pc'[q] = At("done")
            BY <3>1, <1>h
        <3>2. CASE pc'[q] = Send(m)
            BY <2>1, <3>2, <1>i, Distinct
        <3> QED BY <2>1, <3>1, <3>2
    <2> HIDE DEF Shaking, Listing, Calling
    <2> QED BY <2>2, <2>3, <1>r, <1>g
<1>4. CASE SendCall(q)
    <2>1. PICK m \in Methods :
                /\ pc[q] = Send(m) /\ pc'[q] = Wait(m)
                /\ strayed' = IF m = "tools_call" /\ session \notin ready THEN strayed \cup {q}
                              ELSE strayed
        BY <1>4 DEF SendCall, Goto, TypeOK
    <2>2. UNCHANGED <<session, tools, ready>> /\ ~ Start(q)
        BY <1>4, Distinct DEF SendCall, Start
    <2>3. /\ Shaking(pc'[q]) => Shaking(pc[q])
          /\ Listing(pc'[q]) => Listing(pc[q])
          /\ ~ Calling(pc'[q])
        BY <2>1, <1>i, Distinct
    <2>4. m = "tools_call" => session \in ready
        BY <2>1, <1>r
    <2> HIDE DEF Shaking, Listing, Calling
    <2> QED BY <2>1, <2>2, <2>3, <2>4, <1>r, <1>g
<1>5. CASE CallFails(q)
    <2>1. pc'[q] = At("done") /\ UNCHANGED <<tools, ready, strayed>> /\ ~ Start(q)
        BY <1>5, Distinct DEF CallFails, Start, End, TypeOK
    <2>2. tools => session' = session
        <3>1. PICK m \in Methods : /\ pc[q] = Wait(m)
                                   /\ session' = session \/ m = "initialize"
            BY <1>5 DEF CallFails
        <3> QED BY <3>1, <1>r, <1>i
    <2>3. ~ Shaking(pc'[q]) /\ ~ Listing(pc'[q]) /\ ~ Calling(pc'[q])
        BY <2>1, <1>h
    <2> HIDE DEF Shaking, Listing, Calling
    <2> QED BY <2>1, <2>2, <2>3, <1>r, <1>g
<1>6. CASE Initialized(q)
    <2>1. /\ pc[q] = Wait("initialize") /\ pc'[q] = Test("initialized")
          /\ UNCHANGED <<tools, ready, strayed>> /\ ~ Start(q)
        BY <1>6, <1>i, Distinct DEF Initialized, AfterInitialize, Start, Goto, TypeOK
    <2>2. ~ tools
        BY <2>1, <1>r, <1>i
    <2>3. ~ Listing(pc'[q]) /\ ~ Calling(pc'[q])
        BY <2>1, <1>i, Distinct
    <2> HIDE DEF Shaking, Listing, Calling
    <2> QED BY <2>1, <2>2, <2>3, <1>r, <1>g
<1>7. CASE Notified(q)
    <2>1. /\ pc[q] = Wait("initialized") /\ pc'[q] = Test("tools_list")
          /\ session' \in ready' /\ UNCHANGED <<tools, strayed>> /\ ~ Start(q)
        BY <1>7, <1>i, Distinct DEF Notified, Start, Goto, provider, TypeOK
    <2>2. ~ tools
        BY <2>1, <1>r, <1>i
    <2>3. ~ Calling(pc'[q])
        BY <2>1, <1>i, Distinct
    <2> HIDE DEF Shaking, Listing, Calling
    <2> QED BY <2>1, <2>2, <2>3, <1>r, <1>g
<1>8. CASE Listed(q)
    <2>1. /\ pc[q] = Wait("tools_list") /\ (pc'[q] = At("find_tool") \/ pc'[q] = At("done"))
          /\ UNCHANGED <<session, ready, strayed>> /\ ~ Start(q)
        BY <1>8, <1>i, Distinct DEF Listed, Start, Goto, End, TypeOK
    <2>2. session' \in ready'
        BY <2>1, <1>r
    <2>3. ~ Shaking(pc'[q]) /\ ~ Listing(pc'[q]) /\ ~ Calling(pc'[q])
        BY <2>1, <1>h
    <2> HIDE DEF Shaking, Listing, Calling
    <2> QED BY <2>1, <2>2, <2>3, <1>r, <1>g
<1>9. CASE \/ Matched(q) \/ NotMatched(q) \/ RecordProof(q) \/ CacheTerm(q)
           \/ CacheConcept(q) \/ ReadBindings(q)
    <2>1. UNCHANGED <<session, tools, ready, strayed>>
        BY <1>9 DEF Matched, NotMatched, RecordProof, CacheTerm, CacheConcept, ReadBindings,
                    provider, service
    <2>2. ~ Start(q)
        BY <1>9, <1>i, Distinct DEF Start, Matched, NotMatched, RecordProof, CacheTerm,
                    CacheConcept, ReadBindings
    <2>3. pc'[q] \in {At("prove"), At("done"), At("cache_term"), At("cache_concept"), At("bindings")}
        BY <1>9 DEF Matched, NotMatched, RecordProof, CacheTerm, CacheConcept, ReadBindings,
                    AfterNoMatch, Goto, End, TypeOK
    <2>4. ~ Shaking(pc'[q]) /\ ~ Listing(pc'[q]) /\ ~ Calling(pc'[q])
        BY <2>3, <1>h
    <2> HIDE DEF Shaking, Listing, Calling
    <2> QED BY <2>1, <2>2, <2>4, <1>r, <1>g
<1> QED BY <1>q, <1>1, <1>2, <1>3, <1>4, <1>5, <1>6, <1>7, <1>8, <1>9 DEF Step

-----------------------------------------------------------------------------
\* The theorems.

\* A session of the provider begins with nothing sent, proved or under way.
LEMMA InvInit == Init => Inv
PROOF
<1> SUFFICES ASSUME Init PROVE Inv
    OBVIOUS
<1>1. TypeOK /\ CallsTyped
    BY TypeInit
<1>2. \A q \in Requests : pc[q] = At("waiting")
    BY DEF Init
<1>3. UnderWay = {} /\ Sending = {}
    BY <1>2, Distinct DEF UnderWay, Sending
<1>4. threads \in Nat \ {0} /\ MaxCalls \in Nat \ {0} /\ count = 0
    BY SessionAssumption DEF Init
<1>5. BudgetKept
    BY <1>3, <1>4, FS_EmptySet DEF BudgetKept
<1>6. \A q \in Requests : ~ Handshake(q) /\ ~ Notifying(q)
    BY <1>2, Distinct DEF Handshake, Notifying, Methods
<1>7. \A q \in Requests, m \in Methods : pc[q] \notin {Test(m), Send(m), Wait(m)}
    BY <1>2, Distinct
<1>8. SessionOpened /\ ProofsAreEarned /\ ProvesMatched
    BY <1>2, <1>6, Distinct DEF SessionOpened, ProofsAreEarned, ProvesMatched, Init
<1>9. SessionReady
    BY <1>6, <1>7 DEF SessionReady, Init, Methods
<1> QED BY <1>1, <1>5, <1>8, <1>9 DEF Inv

\* The inductive invariant holds of every execution.
LEMMA InvHolds == Spec => []Inv
PROOF
<1>1. Inv /\ [Next]_vars => Inv'
    BY TypeStep, SessionOpenedStep, BudgetStep, ProofsStep, SessionReadyStep DEF Inv
<1> QED BY InvInit, <1>1, PTL DEF Spec

\* The provider's fields keep their types; every HTTP call is counted exactly
\* once (GuardedCloudClient.request), and no concept is cached without its term.
THEOREM TypeCorrect == Spec => []TypeOK
PROOF
<1>1. Inv => TypeOK
    BY DEF Inv
<1> QED BY <1>1, InvHolds, PTL

\* With n requests under way at a time the service receives at most n - 1 calls
\* more than MAX_CLOUD_CALLS.
THEOREM BudgetOvershoot == Spec => []OvershootBounded
PROOF
<1>1. Inv => OvershootBounded
    <2> SUFFICES ASSUME Inv PROVE OvershootBounded
        OBVIOUS
    <2>1. count = AllSent /\ count \in Nat /\ MaxCalls \in Nat /\ threads \in Nat
        BY SessionAssumption DEF Inv, TypeOK, CallsTyped, AllSent, Methods
    <2>2. IsFiniteSet(Sending) /\ Cardinality(Sending) \in Nat
        <3>1. Sending \subseteq Requests
            BY DEF Sending
        <3> QED BY <3>1, SessionAssumption, FS_Subset, FS_CardinalityType
    <2>3. count + Cardinality(Sending) <= MaxCalls + threads - 1
        BY DEF Inv, BudgetKept
    <2> QED BY <2>1, <2>2, <2>3 DEF OvershootBounded
<1> QED BY <1>1, InvHolds, PTL

\* With one request under way at a time MAX_CLOUD_CALLS is the hard budget that
\* GuardedCloudClient promises.
THEOREM AloneBudgetIsHard == Spec => [](threads = 1 => HardBudget)
PROOF
<1>1. OvershootBounded /\ Inv => (threads = 1 => HardBudget)
    <2> SUFFICES ASSUME OvershootBounded, Inv, threads = 1 PROVE HardBudget
        OBVIOUS
    <2>1. AllSent \in Nat /\ MaxCalls \in Nat
        BY SessionAssumption DEF Inv, CallsTyped, AllSent, Methods
    <2> QED BY <2>1 DEF OvershootBounded, HardBudget
<1> QED BY <1>1, BudgetOvershoot, InvHolds, PTL

\* A term in semantic_proofs is one whose entity type Fabric IQ returned, however
\* the responses of concurrent requests are ordered.
THEOREM ProofsEarned == Spec => []ProofsAreEarned
PROOF
<1>1. Inv => ProofsAreEarned
    BY DEF Inv
<1> QED BY <1>1, InvHolds, PTL

\* With one request under way at a time no tool call goes out in a session that
\* the service has not been told is initialized, whatever failed before.
THEOREM AloneInReadySession == Spec => []CallsInReadySession
PROOF
<1>1. Inv => CallsInReadySession
    BY DEF Inv, SessionReady, CallsInReadySession
<1> QED BY <1>1, InvHolds, PTL

-----------------------------------------------------------------------------
(***************************************************************************)
(* How many calls are made for one caller at a time while none fails, for  *)
(* any requests, terms and budget.                                         *)
(***************************************************************************)

\* The invariant.

Queries  == {q \in Requests : asks[q].op = "nl_query"}
Resolves == Requests \ Queries
Resolved == {term(q) : q \in Resolves}
Enough   == 3 + Cardinality(Resolved) + Cardinality(Queries)

Handshaking == {"initialize", "initialized", "tools_list"}

\* Where a request is with the call for its snapshot: it has sent it and not
\* cached the answer; it has sent it; it will need it.
Pays(l)  == l \in {Wait("tools_call"), At("prove"), At("cache_term")}
Past(l)  == Pays(l) \/ l \in {At("cache_concept"), At("bindings"), At("done")}
Seeks(l) == \/ l \in {At("ensure"), At("find_tool")} \/ Pays(l)
            \/ \E m \in Methods : l \in {Test(m), Send(m), Wait(m)}

\* In a handshake, once the first call is sent.
Begun(l) == \/ l = Wait("initialize")
            \/ \E m \in {"initialized", "tools_list"} : l \in {Test(m), Send(m), Wait(m)}

\* The terms that have cost a call, and the queries that have.
Paid  == (byTerm \cap Resolved) \cup {term(q) : q \in {p \in Resolves : Pays(pc[p])}}
Asked == {q \in Queries : Past(pc[q])}

Fresh == \A m \in Handshaking : sent[m] = 0

\* The calls of the one handshake, in order.
Stages ==
    /\ ~ tools /\ (\A q \in Requests : ~ Begun(pc[q])) => Fresh
    /\ \A q \in Requests :
         /\ pc[q] \in {Test("initialize"), Send("initialize")} => Fresh
         /\ pc[q] \in {Wait("initialize"), Test("initialized"), Send("initialized")} =>
              sent["initialized"] = 0 /\ sent["tools_list"] = 0
         /\ pc[q] \in {Wait("initialized"), Test("tools_list"), Send("tools_list")} =>
              sent["tools_list"] = 0

\* Whoever ran out of the budget ended.
Exhaustion ==
    /\ \A q \in Requests : pc[q] # At("done") => outcome[q] = "none"
    /\ (\E q \in Requests : outcome[q] = "exhausted") => count >= MaxCalls

\* The handshake is made once.
HandshakeOnce ==
    /\ \A m \in Handshaking : sent[m] <= 1
    /\ (\A q \in Requests : outcome[q] # "exhausted") => Stages

\* Each call for a snapshot is for a new term, or a query's own.
CallsPaid ==
    /\ \A q \in Resolves : Seeks(pc[q]) => term(q) \notin byTerm
    /\ sent["tools_call"] <= Cardinality(Paid) + Cardinality(Asked)

NobodyExhausted == MaxCalls >= Enough => \A q \in Requests : outcome[q] # "exhausted"

CaptureInv ==
    Inv /\ (threads = 1 /\ ~ failed =>
              Exhaustion /\ HandshakeOnce /\ CallsPaid /\ NobodyExhausted)

-----------------------------------------------------------------------------
\* What one request does.

\* A step of q that does not only move it.
Same == UNCHANGED <<count, sent, byTerm, tools, outcome>>

From(q, k, l) == pc[q] = k /\ pc'[q] = l

\* It goes on without a call.
Strolls(q) ==
    /\ Same
    /\ \/ From(q, At("waiting"), At("lookup"))
       \/ From(q, At("lookup"), At("bindings"))
       \/ /\ From(q, At("lookup"), At("ensure"))
          /\ q \in Resolves => term(q) \notin byTerm
       \/ From(q, At("ensure"), At("find_tool"))
       \/ From(q, At("ensure"), Test("initialize")) /\ ~ tools
       \/ \E m \in Methods : From(q, Test(m), Send(m))
       \/ From(q, Wait("initialize"), Test("initialized"))
       \/ From(q, Wait("initialized"), Test("tools_list"))
       \/ From(q, At("find_tool"), Test("tools_call"))
       \/ From(q, Wait("tools_call"), At("prove"))
       \/ From(q, Wait("tools_call"), At("cache_term"))
       \/ From(q, At("prove"), At("cache_term"))
       \/ From(q, At("cache_concept"), At("bindings"))

\* It sends a call.
Sends(q, m) ==
    /\ From(q, Send(m), Wait(m))
    /\ count' = count + 1
    /\ sent' = [sent EXCEPT ![m] = @ + 1]
    /\ UNCHANGED <<byTerm, tools, outcome>>

\* Its budget is exhausted.
Exhausts(q) ==
    /\ \E m \in Methods : From(q, Test(m), At("done"))
    /\ count >= MaxCalls /\ outcome'[q] = "exhausted"
    /\ UNCHANGED <<count, sent, byTerm, tools>>

\* It keeps the listed tools, or the term.
Lists(q) ==
    /\ From(q, Wait("tools_list"), At("find_tool"))
    /\ tools' = TRUE
    /\ UNCHANGED <<count, sent, byTerm, outcome>>

Caches(q) ==
    /\ From(q, At("cache_term"), At("cache_concept"))
    /\ \E named : term(q) \in named /\ byTerm' = byTerm \cup named
    /\ UNCHANGED <<count, sent, tools, outcome>>

\* It is answered.
Answers(q) ==
    /\ From(q, At("find_tool"), At("done")) \/ From(q, At("bindings"), At("done"))
    /\ outcome'[q] # "exhausted"
    /\ UNCHANGED <<count, sent, byTerm, tools>>

Walks(q) == \/ Strolls(q) \/ Exhausts(q) \/ Lists(q) \/ Caches(q) \/ Answers(q)
            \/ \E m \in Methods : Sends(q, m)

\* While no call fails, a step is one of these.
LEMMA WalkStep ==
    ASSUME TypeOK, CallsTyped, NEW q \in Requests, Step(q), ~ failed'
    PROVE  /\ ~ failed /\ Walks(q)
           /\ \A p \in Requests \ {q} : outcome'[p] = outcome[p]
PROOF
<1>f. ~ failed
    BY Zenon, FailureStays
<1> USE DEF TypeOK, Goto, End, provider, service, From, Same
<1>m. Methods = {"initialize", "initialized", "tools_list", "tools_call"}
    BY DEF Methods
<1>1. CASE Start(q)
    BY <1>1 DEF Start, Walks, Strolls
<1>2. CASE Lookup(q)
    <2>1. q \in Resolves <=> asks[q].op = "resolve"
        BY DEF CallsTyped, Resolves, Queries
    <2> QED BY <1>2, <2>1 DEF Lookup, Walks, Strolls
<1>3. CASE EnsureTools(q)
    BY <1>3 DEF EnsureTools, Walks, Strolls
<1>4. CASE TestBudget(q)
    BY <1>4 DEF TestBudget, Exhausted, Walks, Strolls, Exhausts
<1>5. CASE SendCall(q)
    <2>1. PICK m \in Methods :
            /\ pc[q] = Send(m) /\ pc' = [pc EXCEPT ![q] = Wait(m)]
            /\ count' = count + 1 /\ sent' = [sent EXCEPT ![m] = @ + 1]
            /\ UNCHANGED <<byTerm, tools, outcome, failed>>
        BY <1>5 DEF SendCall, Counted
    <2>2. Sends(q, m)
        BY <2>1 DEF Sends
    <2> QED BY <2>1, <2>2 DEF Walks
<1>6. CASE CallFails(q)
    BY <1>6 DEF CallFails
<1>7. CASE Initialized(q)
    BY <1>7 DEF Initialized, AfterInitialize, Walks, Strolls
<1>8. CASE Notified(q)
    BY <1>8 DEF Notified, Walks, Strolls
<1>9. CASE Listed(q)
    BY <1>9 DEF Listed, Kept, Walks, Lists
<1>10. CASE FindTool(q)
    BY <1>10 DEF FindTool, Walks, Strolls, Answers
<1>11. CASE Matched(q)
    <2>1. From(q, Wait("tools_call"), At("prove")) \/ From(q, Wait("tools_call"), At("cache_term"))
        BY <1>11 DEF Matched
    <2> QED BY <1>11, <1>f, <2>1 DEF Matched, Walks, Strolls
<1>12. CASE NotMatched(q)
    BY <1>12 DEF NotMatched, AfterNoMatch, Walks, Strolls
<1>13. CASE RecordProof(q)
    BY <1>13 DEF RecordProof, Walks, Strolls
<1>14. CASE CacheTerm(q)
    <2>1. ~ failed /\ term(q) \in names[q]
        BY <1>f DEF CallsTyped
    <2> QED BY <1>14, <2>1 DEF CacheTerm, Walks, Caches
<1>15. CASE CacheConcept(q)
    BY <1>15 DEF CacheConcept, Walks, Strolls
<1>16. CASE ReadBindings(q)
    BY <1>16 DEF ReadBindings, Walks, Answers
<1> QED BY <1>1, <1>2, <1>3, <1>4, <1>5, <1>6, <1>7, <1>8, <1>9, <1>10, <1>11, <1>12,
           <1>13, <1>14, <1>15, <1>16 DEF Step

\* With one thread nobody else is under way.
LEMMA OthersIdle ==
    ASSUME Inv, threads = 1, NEW q \in Requests, Step(q)
    PROVE  /\ threads' = threads /\ asks' = asks
           /\ \A p \in Requests \ {q} :
                pc'[p] = pc[p] /\ pc[p] \in {At("waiting"), At("done")}
PROOF
<1>1. threads' = threads /\ asks' = asks /\ \A p \in Requests \ {q} : pc'[p] = pc[p]
    BY Moves DEF Inv
<1>2. UnderWay \subseteq Requests /\ Cardinality(UnderWay) <= 1
    BY DEF UnderWay, Inv, BudgetKept
<1>3. ASSUME NEW p \in Requests \ {q}
      PROVE  p \notin UnderWay
    <2>1. CASE Start(q)
        <3>1. IsFiniteSet(UnderWay) /\ Cardinality(UnderWay) \in Nat
            BY <1>2, SessionAssumption, FS_Subset, FS_CardinalityType
        <3>2. Cardinality(UnderWay) = 0
            BY <2>1, <3>1 DEF Start
        <3> QED BY <3>1, <3>2, FS_EmptySet
    <2>2. CASE ~ Start(q)
        <3>1. q \in UnderWay
            BY <2>2, MovesUnderWay
        <3> QED BY <1>2, <1>3, <3>1, Alone
    <2> QED BY <2>1, <2>2
<1> QED BY <1>1, <1>3 DEF UnderWay

\* Where a request is told apart.
LEMMA Places ==
    /\ \A m, n \in Methods :
         /\ Test(m) # Send(n) /\ Test(m) # Wait(n) /\ Send(m) # Wait(n)
         /\ Test(m) = Test(n) => m = n
         /\ Send(m) = Send(n) => m = n
         /\ Wait(m) = Wait(n) => m = n
    /\ \A m \in Methods : \A l : At(l) # Test(m) /\ At(l) # Send(m) /\ At(l) # Wait(m)
    /\ \A k, l : At(k) = At(l) => k = l
    /\ Methods = {"initialize", "initialized", "tools_list", "tools_call"}
PROOF
<1>1. \A m, n \in Methods : Test(m) # Send(n) /\ Test(m) # Wait(n) /\ Send(m) # Wait(n)
    BY Distinct
<1>2. \A m, n \in Methods : Test(m) = Test(n) \/ Send(m) = Send(n) \/ Wait(m) = Wait(n) => m = n
    BY Distinct
<1>3. \A m \in Methods : \A l : At(l) # Test(m) /\ At(l) # Send(m) /\ At(l) # Wait(m)
    BY Distinct
<1>4. \A k, l : At(k) = At(l) => k = l
    BY Distinct
<1>5. Methods = {"initialize", "initialized", "tools_list", "tools_call"}
    BY DEF Methods
<1> QED BY <1>1, <1>2, <1>3, <1>4, <1>5

-----------------------------------------------------------------------------
\* What a step does to the parts of the invariant.

\* A request that moves had not ended, and its outcome is written as it ends.
LEMMA WalkOutcome ==
    ASSUME TypeOK, NEW q \in Requests, Walks(q)
    PROVE  /\ pc[q] # At("done")
           /\ pc'[q] # At("done") => outcome' = outcome
           /\ outcome'[q] = "exhausted" => outcome[q] = "exhausted" \/ Exhausts(q)
           /\ \/ \E m \in Methods : Sends(q, m)
              \/ count' = count /\ sent' = sent
PROOF
<1> USE Places DEF From
<1>1. CASE Strolls(q)
    BY <1>1 DEF Strolls, Same
<1>2. CASE Exhausts(q)
    BY <1>2 DEF Exhausts
<1>3. CASE Lists(q) \/ Caches(q)
    BY <1>3 DEF Lists, Caches
<1>4. CASE Answers(q)
    BY <1>4 DEF Answers
<1>5. ASSUME NEW m \in Methods, Sends(q, m)
      PROVE  pc[q] # At("done") /\ outcome' = outcome
    BY <1>5 DEF Sends
<1> QED BY <1>1, <1>2, <1>3, <1>4, <1>5 DEF Walks

\* What has been paid for stays so, and what is sought is not there.
LEMMA WalkPays ==
    ASSUME NEW q \in Requests, Walks(q)
    PROVE  /\ Pays(pc[q]) => Pays(pc'[q]) \/ term(q) \in byTerm'
           /\ Past(pc[q]) => Past(pc'[q])
           /\ byTerm \subseteq byTerm'
           /\ Seeks(pc'[q]) =>
                /\ byTerm' = byTerm
                /\ \/ Seeks(pc[q])
                   \/ q \in Resolves => term(q) \notin byTerm
PROOF
<1> USE Places DEF From, Pays, Past, Seeks
<1>1. CASE Strolls(q)
    BY <1>1 DEF Strolls, Same
<1>2. CASE Exhausts(q)
    BY <1>2 DEF Exhausts
<1>3. CASE Lists(q)
    BY <1>3 DEF Lists
<1>4. CASE Caches(q)
    BY <1>4 DEF Caches
<1>5. CASE Answers(q)
    BY <1>5 DEF Answers
<1>6. ASSUME NEW m \in Methods, Sends(q, m)
      PROVE  /\ byTerm' = byTerm /\ Seeks(pc[q])
             /\ ~ Pays(pc[q]) /\ ~ Past(pc[q])
    BY <1>6 DEF Sends
<1> HIDE DEF From, Pays, Past, Seeks
<1> QED BY <1>1, <1>2, <1>3, <1>4, <1>5, <1>6 DEF Walks

\* Alone, a call that is sent was within the budget.
LEMMA SendsWithin ==
    ASSUME Inv, threads = 1, NEW q \in Requests, NEW m \in Methods, pc[q] = Send(m)
    PROVE  count < MaxCalls
PROOF
<1>1. Sending \subseteq Requests /\ q \in Sending
    BY DEF Sending
<1>2. IsFiniteSet(Sending) /\ Cardinality(Sending) \in Nat /\ Cardinality(Sending) # 0
    BY <1>1, SessionAssumption, FS_Subset, FS_CardinalityType, FS_EmptySet
<1>3. count + Cardinality(Sending) <= MaxCalls /\ count \in Nat /\ MaxCalls \in Nat
    BY SessionAssumption DEF Inv, BudgetKept, TypeOK, CallsTyped, AllSent, Methods
<1> QED BY <1>2, <1>3

\* Whoever runs out of the budget has found it exhausted, and it stays so.
LEMMA ExhaustionStep ==
    ASSUME Inv, Exhaustion, threads = 1, NEW q \in Requests, Step(q), ~ failed'
    PROVE  Exhaustion'
PROOF
<1>1. Walks(q) /\ \A p \in Requests \ {q} : outcome'[p] = outcome[p] /\ pc'[p] = pc[p]
    BY WalkStep, OthersIdle DEF Inv
<1>2. \A p \in Requests : pc'[p] # At("done") => outcome'[p] = "none"
    BY <1>1, WalkOutcome DEF Exhaustion, Inv
<1>3. count \in Nat /\ MaxCalls \in Nat
    BY SessionAssumption DEF Inv, TypeOK, CallsTyped, AllSent, Methods
<1>4. count' = count \/ count' = count + 1
    BY <1>1, WalkOutcome DEF Inv, Sends
<1>5. ASSUME NEW p \in Requests, outcome'[p] = "exhausted"
      PROVE  count' >= MaxCalls
    <2>1. outcome[p] = "exhausted" \/ Exhausts(q)
        BY <1>1, <1>5, WalkOutcome DEF Inv
    <2>2. count >= MaxCalls
        BY <2>1 DEF Exhaustion, Exhausts
    <2> QED BY <1>3, <1>4, <2>2
<1> QED BY <1>2, <1>5 DEF Exhaustion

\* The handshake's calls go out in order, none twice.
LEMMA HandshakeStep ==
    ASSUME Inv, Exhaustion, HandshakeOnce, threads = 1, NEW q \in Requests, Step(q), ~ failed'
    PROVE  HandshakeOnce'
PROOF
<1>1. /\ Walks(q)
      /\ \A p \in Requests \ {q} : outcome'[p] = outcome[p] /\ pc'[p] = pc[p]
      /\ \A p \in Requests \ {q} : pc[p] \in {At("waiting"), At("done")}
    BY WalkStep, OthersIdle DEF Inv
<1>2. \A p \in Requests \ {q} :
        /\ ~ Begun(pc[p]) /\ ~ Begun(pc'[p])
        /\ \A m \in Methods : pc'[p] \notin {Test(m), Send(m), Wait(m)}
    BY <1>1, Places DEF Begun
<1>3. /\ Handshaking \subseteq Methods
      /\ Handshaking = {"initialize", "initialized", "tools_list"}
      /\ sent \in [Methods -> Nat]
    BY DEF Handshaking, Methods, Inv, CallsTyped
<1>4. ASSUME NEW m \in Handshaking, Sends(q, m)
      PROVE  /\ \A p \in Requests : outcome[p] # "exhausted"
             /\ sent[m] = 0
    <2>1. count < MaxCalls /\ count \in Nat /\ MaxCalls \in Nat
        BY <1>3, <1>4, SendsWithin, SessionAssumption
           DEF Sends, From, Inv, TypeOK, CallsTyped, AllSent, Methods
    <2>2. \A p \in Requests : outcome[p] # "exhausted"
        BY <2>1 DEF Exhaustion
    <2>3. Stages /\ pc[q] = Send(m)
        BY <1>4, <2>2 DEF HandshakeOnce, Sends, From
    <2> QED BY <1>3, <2>2, <2>3 DEF Stages, Fresh
<1>5. \A m \in Handshaking : sent'[m] <= 1
    <2>1. CASE sent' = sent
        BY <2>1 DEF HandshakeOnce
    <2>2. ASSUME NEW n \in Methods, Sends(q, n)
          PROVE  \A m \in Handshaking : sent'[m] <= 1
        <3>1. sent' = [sent EXCEPT ![n] = @ + 1] /\ \A m \in Handshaking : sent[m] <= 1
            BY <2>2 DEF Sends, HandshakeOnce
        <3>2. n \in Handshaking => sent[n] = 0
            BY <1>4, <2>2
        <3>3. \A m \in Handshaking : sent'[m] = IF m = n THEN sent[n] + 1 ELSE sent[m]
            BY <1>3, <3>1
        <3> QED BY <3>1, <3>2, <3>3
    <2> QED BY <1>1, <2>1, <2>2, WalkOutcome DEF Inv
<1>6. ASSUME \A p \in Requests : outcome'[p] # "exhausted"
      PROVE  Stages'
    <2>1. ~ Exhausts(q) /\ \A p \in Requests : outcome[p] # "exhausted"
        <3>1. pc[q] # At("done")
            BY <1>1, WalkOutcome DEF Inv
        <3>2. outcome[q] = "none"
            BY <3>1 DEF Exhaustion
        <3> QED BY <1>1, <1>6, <3>2 DEF Exhausts
    <2>2. Stages
        BY <2>1 DEF HandshakeOnce
    <2>3. ~ tools /\ ~ Begun(pc[q]) => Fresh
        BY <1>2, <2>2 DEF Stages
    <2> DEFINE Stage ==
                 /\ ~ tools' /\ ~ Begun(pc'[q]) => Fresh'
                 /\ pc'[q] \in {Test("initialize"), Send("initialize")} => Fresh'
                 /\ pc'[q] \in {Wait("initialize"), Test("initialized"), Send("initialized")} =>
                      sent'["initialized"] = 0 /\ sent'["tools_list"] = 0
                 /\ pc'[q] \in {Wait("initialized"), Test("tools_list"), Send("tools_list")} =>
                      sent'["tools_list"] = 0
    <2>4. SUFFICES Stage
        BY <1>2, <1>3 DEF Stages
    <2>5. /\ pc[q] \in {Test("initialize"), Send("initialize")} => Fresh
          /\ pc[q] \in {Wait("initialize"), Test("initialized"), Send("initialized")} =>
               sent["initialized"] = 0 /\ sent["tools_list"] = 0
          /\ pc[q] \in {Wait("initialized"), Test("tools_list"), Send("tools_list")} =>
               sent["tools_list"] = 0
        BY <2>2 DEF Stages
    <2>6. CASE Strolls(q)
        <3>1. sent' = sent /\ tools' = tools
            BY <2>6 DEF Strolls, Same
        <3>2. Fresh' <=> Fresh
            BY <3>1 DEF Fresh
        <3>3. ~ Begun(pc'[q]) => ~ Begun(pc[q])
            BY <2>6, Places DEF Strolls, From, Begun
        <3>4. pc'[q] \in {Test("initialize"), Send("initialize")} =>
                \/ pc[q] \in {Test("initialize"), Send("initialize")}
                \/ ~ tools /\ ~ Begun(pc[q])
            BY <2>6, Places DEF Strolls, From, Begun
        <3>5. pc'[q] \in {Wait("initialize"), Test("initialized"), Send("initialized")} =>
                pc[q] \in {Wait("initialize"), Test("initialized"), Send("initialized")}
            BY <2>6, Places DEF Strolls, From
        <3>6. pc'[q] \in {Wait("initialized"), Test("tools_list"), Send("tools_list")} =>
                pc[q] \in {Wait("initialized"), Test("tools_list"), Send("tools_list")}
            BY <2>6, Places DEF Strolls, From
        <3> QED BY <2>3, <2>5, <3>1, <3>2, <3>3, <3>4, <3>5, <3>6
    <2>7. CASE Lists(q)
        BY <2>7, Places DEF Lists, From
    <2>8. CASE Caches(q) \/ Answers(q)
        <3>1. /\ sent' = sent /\ tools' = tools
              /\ pc[q] \in {At("cache_term"), At("find_tool"), At("bindings")}
              /\ pc'[q] \in {At("cache_concept"), At("done")}
            BY <2>8 DEF Caches, Answers, From
        <3>2. Fresh' <=> Fresh
            BY <3>1 DEF Fresh
        <3>3. ~ Begun(pc[q])
            BY <3>1, Places DEF Begun
        <3> QED BY <2>3, <3>1, <3>2, <3>3, Places
    <2>9. ASSUME NEW m \in Methods, Sends(q, m)
          PROVE  Stage
        <3>1. /\ pc[q] = Send(m) /\ pc'[q] = Wait(m) /\ tools' = tools
              /\ \A n \in Methods : sent'[n] = IF n = m THEN sent[n] + 1 ELSE sent[n]
            BY <1>3, <2>9 DEF Sends, From
        <3>2. CASE m = "tools_call"
            <4>1. Fresh' <=> Fresh
                BY <1>3, <3>1, <3>2 DEF Fresh
            <4>2. ~ Begun(pc[q])
                BY <3>1, <3>2, Places DEF Begun
            <4> QED BY <2>3, <3>1, <3>2, <4>1, <4>2, Places
        <3>3. CASE m = "initialize"
            <4>1. sent["initialized"] = 0 /\ sent["tools_list"] = 0
                BY <1>3, <2>5, <3>1, <3>3 DEF Fresh
            <4>2. sent'["initialized"] = 0 /\ sent'["tools_list"] = 0
                BY <1>3, <3>1, <3>3, <4>1
            <4> QED BY <3>1, <3>3, <4>2, Places DEF Begun
        <3>4. CASE m = "initialized"
            <4>1. sent'["tools_list"] = 0
                BY <1>3, <2>5, <3>1, <3>4
            <4> QED BY <3>1, <3>4, <4>1, Places DEF Begun
        <3>5. CASE m = "tools_list"
            BY <3>1, <3>5, Places DEF Begun
        <3> QED BY <3>2, <3>3, <3>4, <3>5 DEF Methods
    <2> QED BY <1>1, <2>1, <2>6, <2>7, <2>8, <2>9 DEF Walks
<1> QED BY <1>5, <1>6 DEF HandshakeOnce

\* What is counted is finite, and within what is allowed.
LEMMA Counts ==
    ASSUME CallsTyped
    PROVE  /\ IsFiniteSet(Resolved) /\ IsFiniteSet(Queries)
           /\ Paid \subseteq Resolved /\ Asked \subseteq Queries
           /\ IsFiniteSet(Paid) /\ IsFiniteSet(Asked)
           /\ Cardinality(Resolved) \in Nat /\ Cardinality(Queries) \in Nat
           /\ Cardinality(Paid) \in Nat /\ Cardinality(Asked) \in Nat
PROOF
<1>1. IsFiniteSet(Queries) /\ IsFiniteSet(Resolves)
    BY SessionAssumption, FS_Subset DEF Queries, Resolves
<1> DEFINE f == [q \in Resolves |-> term(q)]
<1>2. f \in Surjection(Resolves, Resolved)
    BY DEF Surjection, Resolved
<1>3. IsFiniteSet(Resolved)
    BY <1>1, <1>2, FS_Surjection
<1>4. Paid \subseteq Resolved /\ Asked \subseteq Queries
    BY DEF Paid, Resolved, Asked
<1>5. IsFiniteSet(Paid) /\ IsFiniteSet(Asked)
    BY <1>1, <1>3, <1>4, FS_Subset
<1> QED BY <1>1, <1>3, <1>4, <1>5, FS_CardinalityType

\* A call for a snapshot is for a term that nobody has paid for, or the query's.
LEMMA CallsPaidStep ==
    ASSUME Inv, Inv', CallsPaid, threads = 1, NEW q \in Requests, Step(q), ~ failed'
    PROVE  CallsPaid'
PROOF
<1>1. /\ Walks(q) /\ asks' = asks
      /\ \A p \in Requests \ {q} : pc'[p] = pc[p]
      /\ \A p \in Requests \ {q} : pc[p] \in {At("waiting"), At("done")}
    BY WalkStep, OthersIdle DEF Inv
<1>2. \A p \in Requests \ {q} : ~ Pays(pc[p]) /\ ~ Seeks(pc[p])
    BY <1>1, Places DEF Pays, Seeks
<1>3. /\ \A p \in Requests : term(p)' = term(p)
      /\ Queries' = Queries /\ Resolves' = Resolves /\ Resolved' = Resolved
      /\ Queries \subseteq Requests /\ Resolves = Requests \ Queries
      /\ \A p \in Resolves : term(p) \in Resolved
    BY <1>1 DEF term, Queries, Resolves, Resolved
<1>4. /\ Paid' = (byTerm' \cap Resolved) \cup {term(p) : p \in {p \in Resolves : Pays(pc'[p])}}
      /\ Asked' = {p \in Queries : Past(pc'[p])}
    BY <1>1 DEF Paid, Asked, term, Queries, Resolves, Resolved
<1>5. \A p \in Resolves : Seeks(pc'[p]) => term(p) \notin byTerm'
    BY <1>1, <1>2, <1>3, WalkPays DEF CallsPaid
<1>6. Paid \subseteq Paid'
    BY <1>1, <1>2, <1>3, <1>4, WalkPays DEF Paid
<1>7. Asked \subseteq Asked'
    <2>1. \A p \in Queries : Past(pc[p]) => Past(pc'[p])
        BY <1>1, <1>3, WalkPays
    <2> HIDE DEF Past
    <2> QED BY <1>4, <2>1 DEF Asked
<1>8. /\ IsFiniteSet(Paid) /\ IsFiniteSet(Paid') /\ IsFiniteSet(Asked) /\ IsFiniteSet(Asked')
      /\ Cardinality(Paid) \in Nat /\ Cardinality(Paid') \in Nat
      /\ Cardinality(Asked) \in Nat /\ Cardinality(Asked') \in Nat
    <2>1. (CallsTyped => /\ IsFiniteSet(Paid) /\ IsFiniteSet(Asked)
                         /\ Cardinality(Paid) \in Nat /\ Cardinality(Asked) \in Nat)'
        BY Counts, PTL
    <2> QED BY <2>1, Counts DEF Inv
<1>9. Cardinality(Paid) <= Cardinality(Paid') /\ Cardinality(Asked) <= Cardinality(Asked')
    BY <1>6, <1>7, <1>8, FS_Subset
<1>10. sent \in [Methods -> Nat] /\ "tools_call" \in Methods
    BY DEF Inv, CallsTyped, Methods
<1>11. sent'["tools_call"] <= Cardinality(Paid') + Cardinality(Asked')
    <2>1. CASE sent'["tools_call"] = sent["tools_call"]
        BY <1>8, <1>9, <1>10, <2>1 DEF CallsPaid
    <2>2. CASE Sends(q, "tools_call")
        <3>1. /\ pc[q] = Send("tools_call") /\ pc'[q] = Wait("tools_call")
              /\ sent'["tools_call"] = sent["tools_call"] + 1
            BY <1>10, <2>2 DEF Sends, From
        <3>2. ~ Pays(pc[q]) /\ ~ Past(pc[q]) /\ Seeks(pc[q]) /\ Pays(pc'[q]) /\ Past(pc'[q])
            BY <1>10, <3>1, Places DEF Pays, Past, Seeks
        <3>3. CASE q \in Queries
            <4>1. q \notin Asked /\ Asked \cup {q} \subseteq Asked'
                BY <1>4, <1>7, <3>2, <3>3 DEF Asked
            <4>2. Cardinality(Asked) + 1 <= Cardinality(Asked')
                <5>1. /\ IsFiniteSet(Asked \cup {q})
                      /\ Cardinality(Asked \cup {q}) = Cardinality(Asked) + 1
                    BY <1>8, <4>1, FS_AddElement
                <5>2. Cardinality(Asked \cup {q}) <= Cardinality(Asked')
                    BY <1>8, <4>1, FS_Subset
                <5> QED BY <5>1, <5>2
            <4> QED BY <1>8, <1>9, <1>10, <3>1, <4>2 DEF CallsPaid
        <3>4. CASE q \in Resolves
            <4>1. term(q) \notin Paid
                <5>1. \A p \in Resolves : ~ Pays(pc[p])
                    BY <1>2, <1>3, <3>2
                <5> QED BY <3>2, <3>4, <5>1 DEF Paid, CallsPaid
            <4>2. Paid \cup {term(q)} \subseteq Paid'
                BY <1>4, <1>6, <3>2, <3>4
            <4>3. Cardinality(Paid) + 1 <= Cardinality(Paid')
                <5>1. /\ IsFiniteSet(Paid \cup {term(q)})
                      /\ Cardinality(Paid \cup {term(q)}) = Cardinality(Paid) + 1
                    BY <1>8, <4>1, FS_AddElement
                <5>2. Cardinality(Paid \cup {term(q)}) <= Cardinality(Paid')
                    BY <1>8, <4>2, FS_Subset
                <5> QED BY <5>1, <5>2
            <4> QED BY <1>8, <1>9, <1>10, <3>1, <4>3 DEF CallsPaid
        <3> QED BY <1>3, <3>3, <3>4
    <2>3. ASSUME NEW m \in Methods, m # "tools_call", Sends(q, m)
          PROVE  sent'["tools_call"] = sent["tools_call"]
        BY <1>10, <2>3 DEF Sends
    <2> QED BY <1>1, <2>1, <2>2, <2>3, WalkOutcome DEF Inv
<1> QED BY <1>3, <1>5, <1>11 DEF CallsPaid

\* With a call for each term and query, and three to shake hands, nobody finds
\* the budget exhausted.
LEMMA NobodyExhaustedStep ==
    ASSUME Inv, Exhaustion, HandshakeOnce, CallsPaid, NobodyExhausted, threads = 1,
           NEW q \in Requests, Step(q), ~ failed'
    PROVE  NobodyExhausted'
PROOF
<1>1. /\ Walks(q) /\ asks' = asks
      /\ \A p \in Requests \ {q} : outcome'[p] = outcome[p]
      /\ \A p \in Requests \ {q} : pc[p] \in {At("waiting"), At("done")}
    BY WalkStep, OthersIdle DEF Inv
<1>2. Enough' = Enough
    BY <1>1 DEF Enough, Resolved, Resolves, Queries, term
<1>3. SUFFICES ASSUME MaxCalls >= Enough, outcome'[q] = "exhausted" PROVE FALSE
    BY <1>1, <1>2 DEF NobodyExhausted
<1>4. \A p \in Requests : outcome[p] # "exhausted"
    BY <1>3 DEF NobodyExhausted
<1>5. Exhausts(q)
    BY <1>1, <1>3, <1>4, WalkOutcome DEF Inv
<1>6. PICK m \in Methods : pc[q] = Test(m)
    BY <1>5 DEF Exhausts, From
<1> DEFINE R == Cardinality(Resolved)
           Q == Cardinality(Queries)
           c == sent["tools_call"]
           P == Cardinality(Paid)
           A == Cardinality(Asked)
<1>7. R \in Nat /\ Q \in Nat /\ P \in Nat /\ A \in Nat /\ Enough = 3 + R + Q
    BY Counts DEF Inv, Enough
<1>8. P <= R /\ A <= Q
    BY Counts, FS_Subset DEF Inv
<1>9. /\ sent["initialize"] \in Nat /\ sent["initialized"] \in Nat
      /\ sent["tools_list"] \in Nat /\ c \in Nat /\ MaxCalls \in Nat
      /\ count = sent["initialize"] + sent["initialized"] + sent["tools_list"] + c
    BY SessionAssumption DEF Inv, TypeOK, CallsTyped, AllSent, Methods
<1>10. c <= P + A
    BY DEF CallsPaid
<1>11. sent["initialize"] <= 1 /\ sent["initialized"] <= 1 /\ sent["tools_list"] <= 1
    BY DEF HandshakeOnce, Handshaking
<1>12. count >= MaxCalls
    BY <1>5 DEF Exhausts
<1>13. m = "tools_call"
    <2>1. ASSUME m # "tools_call"
          PROVE  sent[m] = 0 /\ m \in {"initialize", "initialized", "tools_list"}
        BY <1>4, <1>6, <2>1 DEF HandshakeOnce, Stages, Fresh, Handshaking, Methods
    <2> HIDE DEF R, Q, c, P, A
    <2> QED BY <1>3, <1>7, <1>8, <1>9, <1>10, <1>11, <1>12, <2>1
<1>14. ~ Pays(pc[q]) /\ ~ Past(pc[q]) /\ Seeks(pc[q])
    BY <1>6, Places DEF Pays, Past, Seeks
<1>15. CASE q \in Queries
    <2>1. q \in Queries /\ Asked \subseteq Queries \ {q} /\ IsFiniteSet(Queries)
        BY <1>14, <1>15, Counts DEF Asked, Inv
    <2>2. A <= Q - 1
        <3>1. IsFiniteSet(Queries \ {q}) /\ Cardinality(Queries \ {q}) = Q - 1
            BY <2>1, FS_RemoveElement
        <3> QED BY <2>1, <3>1, FS_Subset
    <2> HIDE DEF R, Q, c, P, A
    <2> QED BY <1>3, <1>7, <1>8, <1>9, <1>10, <1>11, <1>12, <2>2
<1>16. CASE q \in Resolves
    <2>1. term(q) \in Resolved /\ term(q) \notin byTerm
        BY <1>14, <1>16 DEF Resolved, CallsPaid
    <2>2. \A p \in Resolves : ~ Pays(pc[p])
        BY <1>1, <1>14, Places DEF Pays, Resolves
    <2>3. Paid \subseteq Resolved \ {term(q)} /\ IsFiniteSet(Resolved)
        BY <2>1, <2>2, Counts DEF Paid, Inv
    <2>4. P <= R - 1
        <3>1. /\ IsFiniteSet(Resolved \ {term(q)})
              /\ Cardinality(Resolved \ {term(q)}) = R - 1
            BY <2>1, <2>3, FS_RemoveElement
        <3> QED BY <2>3, <3>1, FS_Subset
    <2> HIDE DEF R, Q, c, P, A
    <2> QED BY <1>3, <1>7, <1>8, <1>9, <1>10, <1>11, <1>12, <2>4
<1> QED BY <1>15, <1>16 DEF Resolves

-----------------------------------------------------------------------------
\* The invariant.

\* At first nothing is sent, and nobody has begun.
LEMMA CaptureInit == Init => CaptureInv
PROOF
<1> SUFFICES ASSUME Init PROVE CaptureInv
    OBVIOUS
<1>1. Inv
    BY InvInit
<1>2. /\ \A q \in Requests : pc[q] = At("waiting") /\ outcome[q] = "none"
      /\ \A m \in Methods : sent[m] = 0
      /\ byTerm = {}
    BY DEF Init
<1>3. \A q \in Requests : /\ pc[q] # At("done") /\ ~ Begun(pc[q])
                          /\ \A m \in Methods : pc[q] \notin {Test(m), Send(m), Wait(m)}
    BY <1>2, Places DEF Begun
<1>4. Exhaustion /\ NobodyExhausted
    BY <1>2 DEF Exhaustion, NobodyExhausted
<1>5. HandshakeOnce
    BY <1>2, <1>3 DEF HandshakeOnce, Stages, Fresh, Handshaking, Methods
<1>6. CallsPaid
    <2>1. sent["tools_call"] <= Cardinality(Paid) + Cardinality(Asked)
        <3>1. Cardinality(Paid) \in Nat /\ Cardinality(Asked) \in Nat
            BY <1>1, Counts DEF Inv
        <3> QED BY <1>2, <3>1 DEF Methods
    <2> QED BY <1>2, <2>1 DEF CallsPaid
<1> QED BY <1>1, <1>4, <1>5, <1>6 DEF CaptureInv

\* Every step keeps it.
LEMMA CaptureStep == CaptureInv /\ [Next]_vars => CaptureInv'
PROOF
<1> SUFFICES ASSUME CaptureInv, [Next]_vars PROVE CaptureInv'
    OBVIOUS
<1>1. Inv /\ Inv'
    BY TypeStep, SessionOpenedStep, BudgetStep, ProofsStep, SessionReadyStep
       DEF CaptureInv, Inv
<1>2. CASE UNCHANGED vars
    <2>1. UNCHANGED <<threads, asks, count, tools, byTerm, pc, outcome, sent, failed>>
        BY <1>2 DEF vars, provider, service
    <2>2. /\ Exhaustion' <=> Exhaustion
          /\ HandshakeOnce' <=> HandshakeOnce
          /\ CallsPaid' <=> CallsPaid
          /\ NobodyExhausted' <=> NobodyExhausted
        BY <2>1 DEF Exhaustion, HandshakeOnce, Stages, Fresh, CallsPaid, Paid, Asked,
                    NobodyExhausted, Enough, Resolved, Resolves, Queries, term
    <2> QED BY <1>1, <2>1, <2>2 DEF CaptureInv
<1>3. ASSUME NEW q \in Requests, Step(q)
      PROVE  CaptureInv'
    <2>1. SUFFICES ASSUME threads' = 1, ~ failed'
                   PROVE  (Exhaustion /\ HandshakeOnce /\ CallsPaid /\ NobodyExhausted)'
        BY <1>1 DEF CaptureInv
    <2>2. threads = 1 /\ ~ failed
        BY <1>1, <1>3, <2>1, Moves, WalkStep DEF Inv
    <2>3. Exhaustion /\ HandshakeOnce /\ CallsPaid /\ NobodyExhausted
        BY <2>2 DEF CaptureInv
    <2> QED BY <1>1, <1>3, <2>1, <2>2, <2>3, ExhaustionStep, HandshakeStep,
               CallsPaidStep, NobodyExhaustedStep
<1> QED BY <1>2, <1>3 DEF Next

\* One caller at a time, with no failure, pays for the handshake once, for each
\* term once and for each query once: CloudSession keeps the invariant that says
\* so.
THEOREM CaptureInvariance == Spec => []CaptureInv
PROOF
<1> QED BY CaptureInit, CaptureStep, PTL DEF Spec

\* Whatever the requests, the terms and the budget, one caller at a time with no
\* failure sends no more than three calls, one per term and one per query, and a
\* budget of as many is never found exhausted.
THEOREM CaptureBudget == Spec => []CaptureWithinBudget
PROOF
<1>1. CaptureInv => CaptureWithinBudget
    <2> SUFFICES ASSUME CaptureInv, threads = 1, ~ failed
                 PROVE  /\ AllSent <= Enough
                        /\ MaxCalls >= Enough => \A q \in Requests : outcome[q] # "exhausted"
        BY DEF CaptureWithinBudget, Enough, Resolved, Resolves, Queries
    <2>1. Inv /\ HandshakeOnce /\ CallsPaid /\ NobodyExhausted
        BY DEF CaptureInv
    <2>2. /\ sent["initialize"] \in Nat /\ sent["initialized"] \in Nat
          /\ sent["tools_list"] \in Nat /\ sent["tools_call"] \in Nat
        BY <2>1 DEF Inv, CallsTyped, Methods
    <2>3. sent["initialize"] <= 1 /\ sent["initialized"] <= 1 /\ sent["tools_list"] <= 1
        BY <2>1 DEF HandshakeOnce, Handshaking
    <2> DEFINE R == Cardinality(Resolved)
               Q == Cardinality(Queries)
               P == Cardinality(Paid)
               A == Cardinality(Asked)
    <2>4. R \in Nat /\ Q \in Nat /\ P \in Nat /\ A \in Nat /\ P <= R /\ A <= Q
        BY <2>1, Counts, FS_Subset DEF Inv
    <2>5. sent["tools_call"] <= P + A
        BY <2>1 DEF CallsPaid
    <2>6. AllSent <= 3 + R + Q
        <3> HIDE DEF R, Q, P, A
        <3> QED BY <2>2, <2>3, <2>4, <2>5 DEF AllSent
    <2> QED BY <2>1, <2>6 DEF Enough, NobodyExhausted
<1> QED BY <1>1, CaptureInvariance, PTL
=============================================================================
