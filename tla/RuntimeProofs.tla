---------------------------- MODULE RuntimeProofs ----------------------------
(***************************************************************************)
(* What ReviewerRuntime guarantees for any number of requests under way,   *)
(* any workload, any scenario packs' terms and any size of the cache,      *)
(* proved with TLAPS.                                                      *)
(***************************************************************************)
EXTENDS ReviewerRuntime, SequenceTheorems, FiniteSetTheorems, TLAPS

-----------------------------------------------------------------------------
\* The invariant.

Entry == [run: Requests, term: Terms, label: Packs, produced: Packs]

Selecting == {"activate", "set_profile", "set_pack", "read_context", "publish"}
Reconciling == {"running", "verified", "unknown", "cloud_error", "unverified", "import", "remember"}

\* A request is at a step of its own operation, and has what the step needs.
InOrder(q) ==
    /\ pc[q] \in Selecting => job[q].op = "select"
    /\ pc[q] \notin Selecting \cup {"waiting", "done"} => job[q].op # "select"
    /\ pc[q] = "find_case" => job[q].op \in {"rerun", "court"}
    /\ job[q].op \in {"rerun", "court"} =>
         pc[q] \in {"waiting", "find_case", "done"} \cup Reconciling
    /\ job[q].op \in {"analyze", "ask"} => asked[q] \in Terms
    /\ pc[q] \in Reconciling => uses[q] \in Contexts /\ asked[q] \in Terms
    /\ pc[q] = "publish" => uses[q] \in Selectable

Types ==
    /\ context \in Selectable /\ published \in Selectable
    /\ profile \in Profiles /\ pack \in Packs
    /\ lock \in Requests \cup {None} /\ loop \in Requests \cup {None}
    /\ cases \in Seq(Entry)
    /\ registry \subseteq Requests
    /\ job \in [Requests -> Calls]
    /\ pc \in [Requests -> Labels]
    /\ uses \in [Requests -> Contexts \cup {None}]
    /\ asked \in [Requests -> Terms \cup {None}]
    /\ answer \in [Requests -> {0, 200, 404, 409, 500, 503}]
    /\ \A q \in Requests : InOrder(q)

\* The lock is held exactly while a selection is half written, by who writes it.
Locking ==
    /\ \A q \in Requests : pc[q] \in {"set_profile", "set_pack"} <=> lock = q
    /\ \A q \in Requests : lock = q => context = job[q].to
    /\ \A q \in Requests : pc[q] = "set_pack" => profile = job[q].to.profile
    /\ SelectionWhole

\* What is about to be cached is in the registry already.
Governing ==
    /\ \A q \in Requests : /\ pc[q] = "remember" => q \in registry
                           /\ pc[q] = "verified" /\ ~Hosted(q) => q \in registry
    /\ CachedIsGoverned

\* A selection made since a request read its pack counts it as moved.
Labelling ==
    /\ \A q \in Requests :
         /\ lock = None /\ pc[q] \in {"running", "verified", "import", "remember"}
         /\ job[q].op # "rerun" /\ uses[q].pack # pack
         => q \in moved
    /\ LabelFollowsSelection

\* A request that no selection overtook has read one selection.
Routed ==
    /\ \A q \in Requests \ overtaken :
         /\ pc[q] \in Routing \ {"read_pack"} => lock = None
         /\ pc[q] \in {"read_hosted", "read_workflow"} =>
              asked[q] = Hero \/ context.profile \notin Live
    /\ LiveCoversHero

\* The cache holds runs of answered requests, each once, no more than its limit.
Cache ==
    /\ Len(cases) <= Limit
    /\ \A i, j \in 1..Len(cases) : cases[i].run = cases[j].run => i = j
    /\ CachedRuns \subseteq DOMAIN newer
    /\ \A r \in DOMAIN newer : r \in Requests /\ pc[r] = "done"

\* Whoever stands behind a run was remembered or reopened after it.
Recency ==
    /\ \A r \in DOMAIN newer : IsFiniteSet(newer[r])
    /\ \A i, j \in 1..Len(cases) : i < j => cases[j].run \in newer[cases[i].run]
    /\ RecentlyUsedStay

Inv == Types /\ Locking /\ Governing /\ Labelling /\ Routed /\ Cache /\ Recency

-----------------------------------------------------------------------------
\* What requests and contexts are made of.

\* A request has the arguments of its operation.
LEMMA Calling ==
    ASSUME NEW c \in Calls
    PROVE  /\ c.op \in {"analyze", "ask", "select", "rerun", "court"}
           /\ c.op \in {"analyze", "ask"} => c.term \in Terms
           /\ c.op = "select" => c.to \in Contexts
           /\ c.op \in {"rerun", "court"} => c.run \in Requests
PROOF BY DEF Calls

\* A context is the profile and the pack it was built for.
LEMMA ContextParts ==
    ASSUME NEW c \in Contexts
    PROVE  /\ c.profile \in Profiles /\ c.pack \in Packs
           /\ c = [profile |-> c.profile, pack |-> c.pack]
PROOF BY DEF Contexts

\* _validate_selection keeps the live profiles to the learning pack.
LEMMA SelectableParts ==
    /\ Selectable \subseteq Contexts
    /\ \A c \in Selectable : c.profile \in Profiles /\ c.pack \in Packs
    /\ \A c \in Selectable : c.profile \in Live => c.pack = "learning"
PROOF BY RuntimeAssumption, ContextParts

-----------------------------------------------------------------------------
\* What a step of one request leaves alone.

\* A request writes its own locals only, and the sets only grow.
LEMMA Frame ==
    ASSUME Types, NEW q \in Requests, Start(q) \/ Step(q)
    PROVE  /\ job' = job
           /\ \A p \in Requests \ {q} :
                pc'[p] = pc[p] /\ uses'[p] = uses[p] /\ asked'[p] = asked[p]
           /\ moved \subseteq moved' /\ overtaken \subseteq overtaken' /\ registry \subseteq registry'
PROOF
<1> USE DEF Types, Goto, Continue, Await, Answer, Reads, manager, served, history
<1>1. CASE Start(q)
    BY <1>1 DEF Start
<1>2. CASE ReadPack(q) \/ ReadProfile(q) \/ AskHosted(q) \/ AskRunner(q)
    BY <1>2 DEF ReadPack, ReadProfile, AskHosted, AskRunner
<1>3. CASE ReadLocalPack(q) \/ ReadHosted(q) \/ ReadWorkflow(q)
    BY <1>3 DEF ReadLocalPack, ReadHosted, ReadWorkflow
<1>4. CASE CaseVerified(q) \/ TermUnknown(q) \/ CaseFailed(q)
    BY <1>4 DEF CaseVerified, TermUnknown, CaseFailed
<1>5. CASE Resume(q) \/ ImportCase(q)
    BY <1>5 DEF Resume, ImportCase
<1>6. CASE RememberCase(q) \/ FindCase(q)
    BY <1>6 DEF RememberCase, FindCase
<1>7. CASE ActivateFails(q) \/ SetContext(q) \/ SetProfile(q) \/ SetPack(q)
    BY <1>7 DEF ActivateFails, SetContext, SetProfile, SetPack, Locks, Releases
<1>8. CASE ReadContext(q) \/ Publish(q)
    BY <1>8 DEF ReadContext, Publish
<1> QED BY <1>1, <1>2, <1>3, <1>4, <1>5, <1>6, <1>7, <1>8 DEF Step

\* Only activate writes the selection and the lock.
LEMMA SelectionFrame ==
    ASSUME Types, NEW q \in Requests, Start(q) \/ Step(q)
    PROVE  \/ SetContext(q) \/ SetProfile(q) \/ SetPack(q)
           \/ /\ UNCHANGED manager
              /\ pc[q] \notin {"set_profile", "set_pack"}
              /\ pc'[q] \notin {"set_profile", "set_pack"}
PROOF
<1> USE DEF Types, Reads, manager, Goto, Continue, Await, Answer, At
<1>1. CASE Start(q)
    BY <1>1, Calling DEF Start, FirstStep
<1>2. CASE ReadPack(q) \/ ReadProfile(q) \/ AskHosted(q) \/ AskRunner(q)
    BY <1>2 DEF ReadPack, ReadProfile, AskHosted, AskRunner
<1>3. CASE ReadLocalPack(q) \/ ReadHosted(q) \/ ReadWorkflow(q)
    BY <1>3 DEF ReadLocalPack, ReadHosted, ReadWorkflow
<1>4. CASE CaseVerified(q) \/ TermUnknown(q) \/ CaseFailed(q)
    BY <1>4 DEF CaseVerified, TermUnknown, CaseFailed
<1>5. CASE Resume(q) \/ ImportCase(q)
    BY <1>5 DEF Resume, AfterVerified, ImportCase
<1>6. CASE RememberCase(q) \/ FindCase(q)
    BY <1>6 DEF RememberCase, FindCase
<1>7. CASE ActivateFails(q) \/ ReadContext(q) \/ Publish(q)
    BY <1>7 DEF ActivateFails, Releases, ReadContext, Publish
<1> QED BY <1>1, <1>2, <1>3, <1>4, <1>5, <1>6, <1>7 DEF Step

\* Only remember_case and cached_case write the cache.
LEMMA CacheFrame ==
    ASSUME NEW q \in Requests, Start(q) \/ Step(q)
    PROVE  UNCHANGED <<cases, newer>> \/ RememberCase(q) \/ FindCase(q)
PROOF
<1> USE DEF Reads, history
<1>1. CASE ReadPack(q) \/ ReadProfile(q) \/ ReadLocalPack(q) \/ ReadHosted(q) \/ ReadWorkflow(q)
    BY <1>1 DEF ReadPack, ReadProfile, ReadLocalPack, ReadHosted, ReadWorkflow
<1>2. CASE AskHosted(q) \/ AskRunner(q)
    BY <1>2 DEF AskHosted, AskRunner
<1> QED BY <1>1, <1>2
        DEF Step, Start, CaseVerified, TermUnknown, CaseFailed, Resume, ImportCase, ReadContext,
            Publish, ActivateFails, SetContext, SetProfile, SetPack

-----------------------------------------------------------------------------
\* The cache as a sequence.

\* popitem(last=False) drops the first of a cache that is too long by one.
LEMMA EvictedParts ==
    ASSUME NEW E, NEW cs \in Seq(E), Len(cs) <= Limit + 1
    PROVE  LET d == IF Len(cs) > Limit THEN 1 ELSE 0 IN
           /\ Evicted(cs) \in Seq(E)
           /\ Len(Evicted(cs)) = Len(cs) - d
           /\ \A i \in 1..Len(cs) - d : Evicted(cs)[i] = cs[i + d]
PROOF
<1> USE RuntimeAssumption
<1>1. CASE Len(cs) > Limit
    <2>1. Len(cs) = Limit + 1 /\ Evicted(cs) = SubSeq(cs, 2, Limit + 1)
        BY <1>1, LenProperties DEF Evicted
    <2> QED BY <1>1, <2>1, SubSeqProperties
<1>2. CASE ~(Len(cs) > Limit)
    BY <1>2, LenProperties DEF Evicted
<1> QED BY <1>1, <1>2

\* move_to_end closes the gap it leaves.
LEMMA MovedParts ==
    ASSUME NEW E, NEW cs \in Seq(E), NEW r, \E i \in 1..Len(cs) : cs[i].run = r
    PROVE  \E k \in 1..Len(cs) :
             /\ k = PlaceOf(cs, r) /\ cs[k].run = r
             /\ MovedToEnd(cs, r) \in Seq(E)
             /\ Len(MovedToEnd(cs, r)) = Len(cs)
             /\ \A i \in 1..Len(cs) :
                  MovedToEnd(cs, r)[i] = IF i < k THEN cs[i]
                                         ELSE IF i < Len(cs) THEN cs[i + 1] ELSE cs[k]
PROOF
<1>0. DOMAIN cs = 1..Len(cs) /\ Len(cs) \in Nat
    BY LenProperties
<1> DEFINE k == PlaceOf(cs, r)
           front == SubSeq(cs, 1, k - 1)
           back == SubSeq(cs, k + 1, Len(cs))
<1>1. k \in 1..Len(cs) /\ cs[k].run = r
    BY <1>0 DEF PlaceOf
<1>2. /\ front \in Seq(E) /\ Len(front) = k - 1
      /\ \A i \in 1..k - 1 : front[i] = cs[i]
    BY <1>0, <1>1, SubSeqProperties
<1>3. /\ back \in Seq(E) /\ Len(back) = Len(cs) - k
      /\ \A i \in 1..Len(cs) - k : back[i] = cs[k + i]
    BY <1>0, <1>1, SubSeqProperties
<1> DEFINE rest == front \o back
<1>4. /\ rest \in Seq(E) /\ Len(rest) = Len(cs) - 1
      /\ \A i \in 1..Len(cs) - 1 : rest[i] = IF i < k THEN cs[i] ELSE cs[i + 1]
    <2> HIDE DEF front, back
    <2>1. rest \in Seq(E) /\ Len(rest) = Len(front) + Len(back)
        BY <1>2, <1>3, ConcatProperties
    <2>2. \A i \in 1..Len(front) + Len(back) :
            rest[i] = IF i <= Len(front) THEN front[i] ELSE back[i - Len(front)]
        BY <1>2, <1>3, ConcatProperties
    <2>3. ASSUME NEW i \in 1..Len(cs) - 1 PROVE rest[i] = IF i < k THEN cs[i] ELSE cs[i + 1]
        <3> HIDE DEF rest, k
        <3>0. i \in 1..Len(front) + Len(back) /\ Len(front) = k - 1
            BY <1>0, <1>1, <1>2, <1>3
        <3>1. CASE i < k
            <4>1. rest[i] = front[i] /\ i \in 1..k - 1
                BY <1>0, <1>1, <2>2, <3>0, <3>1
            <4> QED BY <1>2, <3>1, <4>1
        <3>2. CASE ~(i < k)
            <4>1. i - (k - 1) \in 1..Len(cs) - k /\ k + (i - (k - 1)) = i + 1
                BY <1>0, <1>1, <3>2
            <4>2. rest[i] = back[i - (k - 1)]
                BY <1>0, <1>1, <2>2, <3>0, <3>2
            <4> QED BY <1>3, <3>2, <4>1, <4>2
        <3> QED BY <3>1, <3>2
    <2> QED BY <1>0, <1>1, <1>2, <1>3, <2>1, <2>3
<1>5. MovedToEnd(cs, r) = Append(rest, cs[k])
    BY DEF MovedToEnd, RemoveAt
<1>6. cs[k] \in E
    BY <1>1, ElementOfSeq
<1> HIDE DEF rest, k
<1> DEFINE new == Append(rest, cs[k])
<1>7. /\ new \in Seq(E) /\ Len(new) = Len(rest) + 1
      /\ \A i \in 1..Len(rest) : new[i] = rest[i]
      /\ new[Len(rest) + 1] = cs[k]
    BY <1>4, <1>6, AppendProperties
<1> HIDE DEF new
<1>8. ASSUME NEW i \in 1..Len(cs)
      PROVE  new[i] = IF i < k THEN cs[i] ELSE IF i < Len(cs) THEN cs[i + 1] ELSE cs[k]
    <2>1. CASE i < Len(cs)
        BY <1>0, <1>4, <1>7, <2>1
    <2>2. CASE i = Len(cs)
        <3>1. Len(rest) + 1 = i /\ ~(i < k) /\ ~(i < Len(cs))
            BY <1>0, <1>1, <1>4, <2>2
        <3> QED BY <1>7, <3>1
    <2>3. i < Len(cs) \/ i = Len(cs)
        <3>1. \A m \in Nat : \A j \in 1..m : j < m \/ j = m
            OBVIOUS
        <3> QED BY <1>0, <3>1
    <2> QED BY <2>1, <2>2, <2>3
<1>9. /\ k \in 1..Len(cs) /\ k = PlaceOf(cs, r) /\ cs[k].run = r
    BY <1>1 DEF k
<1> QED BY <1>0, <1>4, <1>5, <1>7, <1>8, <1>9 DEF new

-----------------------------------------------------------------------------
\* Types.

\* The requests that do not move stay in order.
LEMMA OthersInOrder ==
    ASSUME Types, NEW q \in Requests, Start(q) \/ Step(q)
    PROVE  \A p \in Requests \ {q} : InOrder(p)'
PROOF BY Frame DEF Types, InOrder

\* remember_case puts its case last, and drops the first of a full cache.
LEMMA Remembered ==
    ASSUME Types, Cache, NEW q \in Requests, RememberCase(q)
    PROVE  \E d \in 0..1 :
             /\ cases' \in Seq(Entry)
             /\ Len(cases') = Len(cases) + 1 - d /\ Len(cases') <= Limit
             /\ d = 1 => Len(cases) = Limit
             /\ \A i \in 1..Len(cases) - d : cases'[i] = cases[i + d]
             /\ cases'[Len(cases')] = [run |-> q, term |-> asked[q],
                                       label |-> pack, produced |-> uses[q].pack]
PROOF
<1> DEFINE e == [run |-> q, term |-> asked[q], label |-> pack, produced |-> uses[q].pack]
           longer == Append(cases, e)
<1>0. cases \in Seq(Entry) /\ Len(cases) \in Nat /\ Len(cases) <= Limit /\ Limit \in Nat \ {0}
    BY LenProperties, RuntimeAssumption DEF Types, Cache
<1>1. e \in Entry
    BY ContextParts DEF Types, InOrder, Reconciling, RememberCase, At, Entry
<1>2. cases' = Evicted(longer)
    BY DEF RememberCase
<1> HIDE DEF e
<1>3. /\ longer \in Seq(Entry) /\ Len(longer) = Len(cases) + 1
      /\ \A i \in 1..Len(cases) : longer[i] = cases[i]
      /\ longer[Len(cases) + 1] = e
    BY <1>0, <1>1, AppendProperties
<1> HIDE DEF longer
<1> DEFINE d == IF Len(longer) > Limit THEN 1 ELSE 0
<1>4. /\ cases' \in Seq(Entry) /\ Len(cases') = Len(longer) - d
      /\ \A i \in 1..Len(longer) - d : cases'[i] = longer[i + d]
    BY <1>0, <1>2, <1>3, EvictedParts
<1>5. d \in 0..1 /\ (d = 1 => Len(cases) = Limit) /\ (d = 0 => Len(cases) + 1 <= Limit)
    BY <1>0, <1>3
<1> HIDE DEF d
<1>6. ASSUME NEW i \in 1..Len(cases) - d PROVE cases'[i] = cases[i + d]
    <2>1. i \in 1..Len(longer) - d /\ i + d \in 1..Len(cases)
        BY <1>0, <1>3, <1>5
    <2> QED BY <1>3, <1>4, <2>1
<1>7. cases'[Len(cases')] = e
    <2>1. Len(cases') \in 1..Len(longer) - d /\ Len(cases') + d = Len(cases) + 1
        BY <1>0, <1>3, <1>4, <1>5
    <2> QED BY <1>3, <1>4, <2>1
<1>8. Len(cases') <= Limit
    BY <1>0, <1>3, <1>4, <1>5
<1>9. cases'[Len(cases')] = [run |-> q, term |-> asked[q],
                             label |-> pack, produced |-> uses[q].pack]
    BY <1>7 DEF e
<1>10. d \in 0..1 /\ Len(cases') = Len(cases) + 1 - d
    BY <1>0, <1>3, <1>4, <1>5
<1>11. cases' \in Seq(Entry) /\ (d = 1 => Len(cases) = Limit)
    BY <1>4, <1>5
<1> QED BY <1>6, <1>8, <1>9, <1>10, <1>11

\* cached_case moves the case it finds to the end.
LEMMA Found ==
    ASSUME Types, NEW q \in Requests, FindCase(q), job[q].run \in CachedRuns
    PROVE  \E k \in 1..Len(cases) :
             /\ cases[k].run = job[q].run /\ EntryOf(job[q].run) = cases[k]
             /\ cases' \in Seq(Entry) /\ Len(cases') = Len(cases)
             /\ \A i \in 1..Len(cases) :
                  cases'[i] = IF i < k THEN cases[i]
                              ELSE IF i < Len(cases) THEN cases[i + 1] ELSE cases[k]
PROOF
<1> DEFINE r == job[q].run
<1>1. cases \in Seq(Entry) /\ \E i \in 1..Len(cases) : cases[i].run = r
    BY LenProperties DEF CachedRuns, Types
<1>2. cases' = MovedToEnd(cases, r)
    BY DEF FindCase
<1>3. EntryOf(r) = cases[PlaceOf(cases, r)]
    BY DEF EntryOf
<1> HIDE DEF r
<1>4. PICK k \in 1..Len(cases) :
        /\ k = PlaceOf(cases, r) /\ cases[k].run = r
        /\ MovedToEnd(cases, r) \in Seq(Entry) /\ Len(MovedToEnd(cases, r)) = Len(cases)
        /\ \A i \in 1..Len(cases) :
             MovedToEnd(cases, r)[i] = IF i < k THEN cases[i]
                                       ELSE IF i < Len(cases) THEN cases[i + 1] ELSE cases[k]
    BY <1>1, MovedParts
<1> QED BY <1>2, <1>3, <1>4 DEF r

\* A cache of the same cases, possibly without the first and with that of q.
LEMMA CasesStep ==
    ASSUME Types, Cache, NEW q \in Requests, Start(q) \/ Step(q)
    PROVE  /\ cases' \in Seq(Entry)
           /\ \A i \in 1..Len(cases') :
                \/ \E j \in 1..Len(cases) : cases'[i] = cases[j]
                \/ /\ RememberCase(q)
                   /\ cases'[i] = [run |-> q, term |-> asked[q],
                                   label |-> pack, produced |-> uses[q].pack]
PROOF
<1>0. cases \in Seq(Entry) /\ Len(cases) \in Nat
    BY LenProperties DEF Types
<1>1. CASE UNCHANGED cases
    BY <1>0, <1>1
<1>2. CASE RememberCase(q)
    <2> DEFINE e == [run |-> q, term |-> asked[q], label |-> pack, produced |-> uses[q].pack]
    <2>1. PICK d \in 0..1 :
            /\ cases' \in Seq(Entry) /\ Len(cases') = Len(cases) + 1 - d
            /\ \A i \in 1..Len(cases) - d : cases'[i] = cases[i + d]
            /\ cases'[Len(cases')] = e
        BY <1>2, Remembered
    <2> HIDE DEF e
    <2>2. ASSUME NEW i \in 1..Len(cases')
          PROVE  \/ \E j \in 1..Len(cases) : cases'[i] = cases[j]
                 \/ cases'[i] = e
        <3>1. i \in 1..Len(cases) - d \/ i = Len(cases')
            BY <1>0, <2>1
        <3>2. CASE i \in 1..Len(cases) - d
            <4>1. i + d \in 1..Len(cases)
                BY <1>0, <3>2
            <4> QED BY <2>1, <3>2, <4>1
        <3> QED BY <2>1, <3>1, <3>2
    <2> QED BY <1>2, <2>1, <2>2 DEF e
<1>3. CASE FindCase(q)
    <2>1. CASE job[q].run \notin CachedRuns
        BY <1>1, <1>3, <2>1 DEF FindCase
    <2>2. CASE job[q].run \in CachedRuns
        <3>1. PICK k \in 1..Len(cases) :
                /\ cases' \in Seq(Entry) /\ Len(cases') = Len(cases)
                /\ \A i \in 1..Len(cases) :
                     cases'[i] = IF i < k THEN cases[i]
                                 ELSE IF i < Len(cases) THEN cases[i + 1] ELSE cases[k]
            BY <1>3, <2>2, Found
        <3>2. \A i \in 1..Len(cases) : i < Len(cases) => i + 1 \in 1..Len(cases)
            BY <1>0
        <3> QED BY <3>1, <3>2
    <2> QED BY <2>1, <2>2
<1> QED BY <1>1, <1>2, <1>3, CacheFrame

\* activate writes the parts of a selectable context.
LEMMA SelectionTyped ==
    ASSUME Types, NEW q \in Requests, Start(q) \/ Step(q)
    PROVE  /\ context' \in Selectable /\ profile' \in Profiles /\ pack' \in Packs
           /\ lock' \in Requests \cup {None}
PROOF
<1> USE DEF Types
<1>0. InOrder(q)
    OBVIOUS
<1>1. CASE UNCHANGED manager
    BY <1>1 DEF manager
<1>2. CASE SetContext(q)
    BY <1>2 DEF SetContext, Locks
<1>3. ASSUME SetProfile(q) \/ SetPack(q) PROVE job[q].to \in Contexts
    BY <1>0, <1>3, Calling DEF SetProfile, SetPack, InOrder, Selecting
<1>4. CASE SetProfile(q)
    BY <1>3, <1>4, ContextParts DEF SetProfile
<1>5. CASE SetPack(q)
    BY <1>3, <1>5, ContextParts DEF SetPack
<1> QED BY <1>1, <1>2, <1>4, <1>5, SelectionFrame

\* Every step of a request leads to one of its operation.
LEMMA OwnStep ==
    ASSUME Types, Cache, NEW q \in Requests, Start(q) \/ Step(q)
    PROVE  /\ pc' \in [Requests -> Labels]
           /\ uses' \in [Requests -> Contexts \cup {None}]
           /\ asked' \in [Requests -> Terms \cup {None}]
           /\ answer' \in [Requests -> {0, 200, 404, 409, 500, 503}]
           /\ loop' \in Requests \cup {None}
           /\ published' \in Selectable /\ registry' \subseteq Requests
           /\ InOrder(q)'
PROOF
<1> DEFINE Goal == /\ pc' \in [Requests -> Labels]
                   /\ uses' \in [Requests -> Contexts \cup {None}]
                   /\ asked' \in [Requests -> Terms \cup {None}]
                   /\ answer' \in [Requests -> {0, 200, 404, 409, 500, 503}]
                   /\ loop' \in Requests \cup {None}
                   /\ published' \in Selectable /\ registry' \subseteq Requests
                   /\ InOrder(q)'
<1> USE DEF Types
<1>i. InOrder(q) /\ pc[q] \in Labels
    OBVIOUS
<1>c. /\ job[q].op \in {"analyze", "ask", "select", "rerun", "court"}
      /\ job[q].op = "select" => job[q].to \in Contexts
    BY Calling
<1>s. context \in Contexts /\ pack \in Packs /\ Selectable \subseteq Contexts
    BY SelectableParts
<1>l. \A k \in Packs : [profile |-> "local", pack |-> k] \in Contexts
    BY DEF Contexts, Profiles
<1> USE DEF InOrder, Selecting, Reconciling, Labels, Routing, At
<1>1. CASE Start(q)
    BY <1>i, <1>c, <1>1 DEF Start, FirstStep, Goto, Coroutine, manager, served
<1>2. CASE ReadPack(q)
    BY <1>i, <1>c, <1>2 DEF ReadPack, Reads, Continue, Goto, manager
<1>3. CASE ReadProfile(q)
    BY <1>i, <1>c, <1>3 DEF ReadProfile, Reads, Continue, Goto, manager
<1>4. CASE ReadLocalPack(q)
    BY <1>i, <1>c, <1>l, <1>4 DEF ReadLocalPack, Reads, Await, Goto, manager
<1>5. CASE ReadHosted(q)
    BY <1>i, <1>c, <1>s, <1>5 DEF ReadHosted, Reads, Await, Continue, Goto, manager
<1>6. CASE ReadWorkflow(q)
    BY <1>i, <1>c, <1>s, <1>6 DEF ReadWorkflow, Reads, Await, Answer, Goto, manager
<1>7. CASE AskHosted(q) \/ AskRunner(q)
    BY <1>i, <1>c, <1>7 DEF AskHosted, AskRunner, Reads, Answer, Continue, Goto, manager
<1>8. CASE CaseVerified(q) \/ TermUnknown(q) \/ CaseFailed(q)
    BY <1>i, <1>c, <1>8 DEF CaseVerified, TermUnknown, CaseFailed, Goto, manager, served
<1>9. CASE Resume(q)
    BY <1>i, <1>c, <1>9 DEF Resume, AfterVerified, Answer, Goto, manager, served
<1>10. CASE ImportCase(q)
    BY <1>i, <1>c, <1>10 DEF ImportCase, Answer, Continue, Goto, manager, served
<1>11. CASE RememberCase(q)
    BY <1>i, <1>c, <1>11 DEF RememberCase, Answer, Goto, manager, served
<1>12. CASE FindCase(q)
    <2>1. ASSUME job[q].run \in CachedRuns
          PROVE  EntryOf(job[q].run).term \in Terms /\ EntryOf(job[q].run).label \in Packs
        <3>1. PICK k \in 1..Len(cases) : EntryOf(job[q].run) = cases[k]
            BY <1>12, <2>1, Found
        <3>2. cases[k] \in Entry
            BY ElementOfSeq
        <3> QED BY <3>1, <3>2 DEF Entry
    <2>2. CASE job[q].run \notin CachedRuns \/ job[q].op = "court"
        BY <1>i, <1>c, <1>12, <2>2 DEF FindCase, Answer, Goto, manager
    <2>3. CASE job[q].run \in CachedRuns /\ job[q].op # "court"
        BY <1>i, <1>c, <1>l, <1>12, <2>1, <2>3 DEF FindCase, Await, Goto, manager
    <2> QED BY <2>2, <2>3
<1>13. CASE ActivateFails(q)
    BY <1>i, <1>c, <1>13 DEF ActivateFails, Answer, Goto, served
<1>14. CASE SetContext(q) \/ SetProfile(q) \/ SetPack(q)
    BY <1>i, <1>c, <1>14 DEF SetContext, SetProfile, SetPack, Continue, Goto, served
<1>15. CASE ReadContext(q)
    BY <1>i, <1>c, <1>s, <1>15 DEF ReadContext, Continue, Goto, manager
<1>16. CASE Publish(q)
    BY <1>i, <1>c, <1>s, <1>16 DEF Publish, Answer, Goto, manager, served
<1> QED BY <1>1, <1>2, <1>3, <1>4, <1>5, <1>6, <1>7, <1>8, <1>9, <1>10, <1>11, <1>12, <1>13,
           <1>14, <1>15, <1>16 DEF Step

\* Every step keeps the types and the order of every request's steps.
LEMMA TypesStep ==
    ASSUME Types, Cache, NEW q \in Requests, Start(q) \/ Step(q)
    PROVE  Types'
PROOF
<1>1. job' \in [Requests -> Calls]
    BY Frame DEF Types
<1>2. cases' \in Seq(Entry)
    BY CasesStep
<1>3. \A p \in Requests : InOrder(p)'
    BY OthersInOrder, OwnStep
<1> QED BY <1>1, <1>2, <1>3, SelectionTyped, OwnStep DEF Types

-----------------------------------------------------------------------------
\* The lock and the selection.

\* A selection is written whole, under the lock of the request that makes it.
LEMMA LockingStep ==
    ASSUME Types, Locking, NEW q \in Requests, Start(q) \/ Step(q)
    PROVE  Locking'
PROOF
<1>f. /\ job' = job
      /\ \A p \in Requests \ {q} : pc'[p] = pc[p]
    BY Frame
<1>t. /\ pc \in [Requests -> Labels] /\ None \notin Requests
      /\ \A p \in Requests : pc[p] \in Selecting => job[p].to \in Contexts
    BY Calling, RuntimeAssumption DEF Types, InOrder
<1> USE DEF Locking, SelectionWhole
<1>1. CASE SetContext(q)
    BY <1>f, <1>t, <1>1 DEF SetContext, LockFree, Locks, Continue, Goto
<1>2. CASE SetProfile(q)
    BY <1>f, <1>t, <1>2 DEF SetProfile, Continue, Goto
<1>3. CASE SetPack(q)
    <2>1. job[q].to = [profile |-> job[q].to.profile, pack |-> job[q].to.pack]
        BY <1>t, <1>3, ContextParts DEF SetPack, Selecting
    <2>2. lock = q /\ context = job[q].to /\ profile = job[q].to.profile
        BY <1>3 DEF SetPack
    <2>3. pc' = [pc EXCEPT ![q] = "read_context"] /\ lock' = None /\ pack' = job[q].to.pack
        BY <1>3 DEF SetPack, Continue, Goto
    <2>4. context' = context /\ profile' = profile
        BY <1>3 DEF SetPack
    <2>5. SelectionWhole'
        BY <2>1, <2>2, <2>3, <2>4
    <2>6. \A p \in Requests : pc'[p] \notin {"set_profile", "set_pack"} /\ lock' # p
        BY <1>t, <2>2, <2>3
    <2> QED BY <2>5, <2>6
<1>4. CASE /\ UNCHANGED manager
           /\ pc[q] \notin {"set_profile", "set_pack"} /\ pc'[q] \notin {"set_profile", "set_pack"}
    BY <1>f, <1>4 DEF manager
<1> QED BY <1>1, <1>2, <1>3, <1>4, SelectionFrame

-----------------------------------------------------------------------------
\* The registry and the cache.

\* No step but remember_case makes a run reopenable.
LEMMA CachedStep ==
    ASSUME Types, Cache, NEW q \in Requests, Start(q) \/ Step(q)
    PROVE  \/ RememberCase(q) /\ CachedRuns' \subseteq CachedRuns \cup {q}
           \/ CachedRuns' \subseteq CachedRuns
PROOF
<1>1. /\ CachedRuns = {cases[i].run : i \in 1..Len(cases)}
      /\ CachedRuns' = {cases'[i].run : i \in 1..Len(cases')}
    BY CasesStep, LenProperties DEF CachedRuns, Types
<1>2. ASSUME NEW i \in 1..Len(cases')
      PROVE  cases'[i].run \in CachedRuns \/ (RememberCase(q) /\ cases'[i].run = q)
    <2>1. CASE \E j \in 1..Len(cases) : cases'[i] = cases[j]
        <3>1. PICK j \in 1..Len(cases) : cases'[i] = cases[j]
            BY <2>1
        <3>2. cases[j].run \in CachedRuns
            BY <1>1
        <3>3. cases'[i].run = cases[j].run
            BY <3>1
        <3> QED BY <3>2, <3>3
    <2>2. CASE RememberCase(q) /\ cases'[i] = [run |-> q, term |-> asked[q],
                                    label |-> pack, produced |-> uses[q].pack]
        BY <2>2
    <2> QED BY <2>1, <2>2, CasesStep
<1> QED BY <1>1, <1>2

\* A passed case is registered before it is cached.
LEMMA GoverningStep ==
    ASSUME Types, Cache, Governing, NEW q \in Requests, Start(q) \/ Step(q)
    PROVE  Governing'
PROOF
<1>f. /\ registry \subseteq registry'
      /\ \A p \in Requests \ {q} : pc'[p] = pc[p] /\ uses'[p] = uses[p]
    BY Frame
<1>t. pc \in [Requests -> Labels]
    BY DEF Types
<1>1. CachedIsGoverned'
    <2>1. RememberCase(q) => q \in registry
        BY DEF RememberCase, At, Governing
    <2> QED BY <1>f, <2>1, CachedStep DEF Governing, CachedIsGoverned
<1>2. /\ pc'[q] = "remember" => q \in registry'
      /\ pc'[q] = "verified" /\ ~Hosted(q)' => q \in registry'
    <2> USE DEF Goto, Continue, Await, Answer, At, Hosted
    <2>1. CASE Start(q)
        BY <1>t, <2>1, Calling DEF Start, FirstStep, Types
    <2>2. CASE ReadPack(q) \/ ReadProfile(q) \/ AskHosted(q) \/ AskRunner(q)
        BY <1>t, <2>2 DEF ReadPack, ReadProfile, AskHosted, AskRunner
    <2>3. CASE ReadLocalPack(q) \/ ReadHosted(q) \/ ReadWorkflow(q)
        BY <1>t, <2>3 DEF ReadLocalPack, ReadHosted, ReadWorkflow
    <2>4. CASE CaseVerified(q)
        BY <1>t, <2>4 DEF CaseVerified, served
    <2>5. CASE TermUnknown(q) \/ CaseFailed(q)
        BY <1>t, <2>5 DEF TermUnknown, CaseFailed
    <2>6. CASE Resume(q)
        BY <1>t, <1>f, <2>6 DEF Resume, AfterVerified, Governing
    <2>7. CASE ImportCase(q)
        BY <1>t, <2>7 DEF ImportCase
    <2>8. CASE RememberCase(q) \/ FindCase(q)
        BY <1>t, <2>8 DEF RememberCase, FindCase
    <2>9. CASE ActivateFails(q) \/ SetContext(q) \/ SetProfile(q) \/ SetPack(q)
        BY <1>t, <2>9 DEF ActivateFails, SetContext, SetProfile, SetPack
    <2>10. CASE ReadContext(q) \/ Publish(q)
        BY <1>t, <2>10 DEF ReadContext, Publish
    <2> QED BY <2>1, <2>2, <2>3, <2>4, <2>5, <2>6, <2>7, <2>8, <2>9, <2>10 DEF Step
<1> QED BY <1>f, <1>1, <1>2 DEF Governing, Hosted

-----------------------------------------------------------------------------
\* The labels of the cached cases.

\* A request that will be remembered got its context with the pack of the
\* selection, or a selection was made since.
LEMMA UsesFollow ==
    ASSUME Types, Locking, Labelling, NEW q \in Requests, Start(q) \/ Step(q), UNCHANGED manager
    PROVE  /\ lock' = None /\ pc'[q] \in {"running", "verified", "import", "remember"}
           /\ job'[q].op # "rerun" /\ uses'[q].pack # pack'
           => q \in moved'
PROOF
<1>f. job' = job /\ moved \subseteq moved'
    BY Frame
<1>t. /\ pc \in [Requests -> Labels] /\ uses \in [Requests -> Contexts \cup {None}]
      /\ job[q].op \in {"analyze", "ask", "select", "rerun", "court"} /\ InOrder(q)
    BY Calling DEF Types
<1>s. lock = None => context.pack = pack
    BY DEF Locking, SelectionWhole
<1>l. /\ lock = None /\ pc[q] \in {"running", "verified", "import", "remember"}
      /\ job[q].op # "rerun" /\ uses[q].pack # pack
      => q \in moved
    BY DEF Labelling
<1> USE DEF Goto, Continue, Await, Answer, At, manager
<1>1. CASE Start(q)
    BY <1>t, <1>1 DEF Start, FirstStep
<1>2. CASE ReadPack(q) \/ ReadProfile(q) \/ AskHosted(q) \/ AskRunner(q)
    BY <1>t, <1>2 DEF ReadPack, ReadProfile, AskHosted, AskRunner
<1>3. CASE ReadLocalPack(q) \/ ReadHosted(q) \/ ReadWorkflow(q)
    BY <1>t, <1>s, <1>3 DEF ReadLocalPack, ReadHosted, ReadWorkflow
<1>4. CASE CaseVerified(q) \/ TermUnknown(q) \/ CaseFailed(q)
    BY <1>f, <1>t, <1>l, <1>4 DEF CaseVerified, TermUnknown, CaseFailed, served
<1>5. CASE Resume(q)
    BY <1>f, <1>t, <1>l, <1>5 DEF Resume, served
<1>6. CASE ImportCase(q)
    BY <1>f, <1>t, <1>l, <1>6 DEF ImportCase, served
<1>7. CASE RememberCase(q)
    BY <1>t, <1>7 DEF RememberCase
<1>8. CASE FindCase(q)
    BY <1>f, <1>t, <1>8 DEF FindCase, InOrder
<1>9. CASE ActivateFails(q) \/ SetContext(q) \/ SetProfile(q) \/ SetPack(q)
    BY <1>t, <1>9 DEF ActivateFails, SetContext, SetProfile, SetPack
<1>10. CASE ReadContext(q) \/ Publish(q)
    BY <1>t, <1>10 DEF ReadContext, Publish
<1> QED BY <1>1, <1>2, <1>3, <1>4, <1>5, <1>6, <1>7, <1>8, <1>9, <1>10 DEF Step

\* The selected pack changes only while the lock is held, and then every request
\* under way is counted.
LEMMA LabellingStep ==
    ASSUME Types, Locking, Cache, Labelling, NEW q \in Requests, Start(q) \/ Step(q)
    PROVE  Labelling'
PROOF
<1>f. /\ job' = job /\ moved \subseteq moved'
      /\ \A p \in Requests \ {q} : pc'[p] = pc[p] /\ uses'[p] = uses[p]
    BY Frame
<1>t. pc \in [Requests -> Labels] /\ None \notin Requests
    BY RuntimeAssumption DEF Types
<1>1. \A p \in Requests :
        /\ lock' = None /\ pc'[p] \in {"running", "verified", "import", "remember"}
        /\ job'[p].op # "rerun" /\ uses'[p].pack # pack'
        => p \in moved'
    <2>1. CASE SetContext(q)
        BY <1>t, <2>1 DEF SetContext, Locks
    <2>2. CASE SetProfile(q)
        BY <1>t, <2>2 DEF SetProfile, Locking
    <2>3. CASE SetPack(q)
        <3>1. pc'[q] = "read_context"
            BY <1>t, <2>3 DEF SetPack, Continue, Goto
        <3>2. moved' = moved \cup UnderWay
            BY <2>3 DEF SetPack
        <3> QED BY <1>f, <3>1, <3>2 DEF UnderWay
    <2>4. CASE UNCHANGED manager
        BY <1>f, <2>4, UsesFollow DEF Labelling, manager
    <2> QED BY <2>1, <2>2, <2>3, <2>4, SelectionFrame
<1>2. LabelFollowsSelection'
    <2>1. DOMAIN cases = 1..Len(cases) /\ DOMAIN cases' = 1..Len(cases')
        BY CasesStep, LenProperties DEF Types
    <2>2. RememberCase(q) => q \in moved \/ job[q].op = "rerun" \/ uses[q].pack = pack
        BY DEF RememberCase, LockFree, At, Labelling
    <2>3. ASSUME NEW i \in 1..Len(cases'), cases'[i].label # cases'[i].produced
          PROVE  cases'[i].run \in moved' \/ job'[cases'[i].run].op = "rerun"
        <3>1. CASE \E j \in 1..Len(cases) : cases'[i] = cases[j]
            BY <1>f, <2>1, <2>3, <3>1 DEF Labelling, LabelFollowsSelection
        <3>2. CASE RememberCase(q) /\ cases'[i] = [run |-> q, term |-> asked[q],
                                        label |-> pack, produced |-> uses[q].pack]
            BY <1>f, <2>2, <2>3, <3>2
        <3> QED BY <3>1, <3>2, CasesStep
    <2> QED BY <2>1, <2>3 DEF LabelFollowsSelection
<1> QED BY <1>1, <1>2 DEF Labelling

-----------------------------------------------------------------------------
\* The runtime a request is given.

\* A request that no selection overtakes reads the selection as it was made.
LEMMA OwnRoute ==
    ASSUME Types, Locking, Routed, NEW q \in Requests, Start(q) \/ Step(q), UNCHANGED manager,
           q \notin overtaken'
    PROVE  /\ pc'[q] \in Routing \ {"read_pack"} => lock' = None
           /\ pc'[q] \in {"read_hosted", "read_workflow"} =>
                asked'[q] = Hero \/ context'.profile \notin Live
           /\ pc'[q] = "running" /\ uses'[q].profile \in Live => asked'[q] = Hero
PROOF
<1>f. overtaken \subseteq overtaken'
    BY Frame
<1>t. /\ pc \in [Requests -> Labels] /\ uses \in [Requests -> Contexts \cup {None}]
      /\ asked \in [Requests -> Terms \cup {None}]
      /\ job[q].op \in {"analyze", "ask", "select", "rerun", "court"}
    BY Calling DEF Types
<1>s. /\ lock = None => context = [profile |-> profile, pack |-> pack]
      /\ context.profile \in Live => context.pack = "learning"
    BY SelectableParts DEF Locking, SelectionWhole, Types
<1>l. /\ pc[q] \in Routing \ {"read_pack"} => lock = None
      /\ pc[q] \in {"read_hosted", "read_workflow"} =>
           asked[q] = Hero \/ context.profile \notin Live
      /\ pc[q] = "running" /\ uses[q].profile \in Live => asked[q] = Hero
    BY <1>f DEF Routed, LiveCoversHero
<1> USE DEF Goto, Continue, Await, Answer, At, manager, Routing
<1>1. CASE Start(q)
    BY <1>t, <1>1 DEF Start, FirstStep
<1>2. CASE ReadPack(q)
    BY <1>t, <1>s, <1>2 DEF ReadPack, Reads
<1>3. CASE ReadProfile(q)
    BY <1>t, <1>s, <1>l, <1>3 DEF ReadProfile, Reads, KeptLocal
<1>4. CASE ReadLocalPack(q)
    BY <1>t, <1>4 DEF ReadLocalPack, Live
<1>5. CASE ReadHosted(q) \/ ReadWorkflow(q)
    BY <1>t, <1>l, <1>5 DEF ReadHosted, ReadWorkflow, Reads
<1>6. CASE AskHosted(q) \/ AskRunner(q)
    BY <1>t, <1>6 DEF AskHosted, AskRunner
<1>7. CASE CaseVerified(q) \/ TermUnknown(q) \/ CaseFailed(q)
    BY <1>t, <1>7 DEF CaseVerified, TermUnknown, CaseFailed
<1>8. CASE Resume(q)
    BY <1>t, <1>8 DEF Resume, AfterVerified
<1>9. CASE ImportCase(q) \/ RememberCase(q)
    BY <1>t, <1>9 DEF ImportCase, RememberCase
<1>10. CASE FindCase(q)
    BY <1>t, <1>10 DEF FindCase, Live
<1>11. CASE ActivateFails(q) \/ SetContext(q) \/ SetProfile(q) \/ SetPack(q)
    BY <1>t, <1>11 DEF ActivateFails, SetContext, SetProfile, SetPack
<1>12. CASE ReadContext(q) \/ Publish(q)
    BY <1>t, <1>12 DEF ReadContext, Publish
<1> QED BY <1>1, <1>2, <1>3, <1>4, <1>5, <1>6, <1>7, <1>8, <1>9, <1>10, <1>11, <1>12 DEF Step

\* A selection overtakes every request that is choosing its runtime.
LEMMA RoutedStep ==
    ASSUME Types, Locking, Routed, NEW q \in Requests, Start(q) \/ Step(q)
    PROVE  Routed'
PROOF
<1>f. /\ overtaken \subseteq overtaken'
      /\ \A p \in Requests \ {q} : pc'[p] = pc[p] /\ uses'[p] = uses[p] /\ asked'[p] = asked[p]
    BY Frame
<1>t. pc \in [Requests -> Labels] /\ None \notin Requests
    BY RuntimeAssumption DEF Types
<1> DEFINE Route(p) ==
      /\ pc[p] \in Routing \ {"read_pack"} => lock = None
      /\ pc[p] \in {"read_hosted", "read_workflow"} => asked[p] = Hero \/ context.profile \notin Live
      /\ pc[p] = "running" /\ uses[p].profile \in Live => asked[p] = Hero
<1>r. \A p \in Requests \ overtaken : Route(p)
    BY DEF Routed, LiveCoversHero
<1>1. ASSUME NEW p \in Requests, p \notin overtaken' PROVE Route(p)'
    <2>0. p \notin overtaken
        BY <1>f, <1>1
    <2>1. CASE SetContext(q)
        <3>1. pc'[q] = "set_profile"
            BY <1>t, <2>1 DEF SetContext, Continue, Goto
        <3>2. pc[p] \notin Routing
            BY <1>1, <2>1 DEF SetContext
        <3> QED BY <1>f, <1>r, <2>0, <3>1, <3>2 DEF Routing
    <2>2. CASE SetProfile(q)
        <3>1. pc'[q] = "set_pack" /\ context' = context /\ lock' = lock
            BY <1>t, <2>2 DEF SetProfile, Continue, Goto
        <3> QED BY <1>f, <1>r, <2>0, <3>1 DEF Routing
    <2>3. CASE SetPack(q)
        <3>1. pc'[q] = "read_context" /\ context' = context /\ lock' = None
            BY <1>t, <2>3 DEF SetPack, Continue, Goto
        <3> QED BY <1>f, <1>r, <2>0, <3>1 DEF Routing
    <2>4. CASE UNCHANGED manager /\ p = q
        BY <1>1, <2>4, OwnRoute
    <2>5. CASE UNCHANGED manager /\ p # q
        BY <1>f, <1>r, <2>0, <2>5 DEF manager
    <2> QED BY <2>1, <2>2, <2>3, <2>4, <2>5, SelectionFrame
<1> QED BY <1>1 DEF Routed, LiveCoversHero

-----------------------------------------------------------------------------
\* The size of the cache and what stays in it.

\* A run is remembered once: it was not in the cache nor read from it before.
LEMMA FreshRun ==
    ASSUME Types, Cache, NEW q \in Requests, RememberCase(q)
    PROVE  q \notin DOMAIN newer /\ \A i \in 1..Len(cases) : cases[i].run # q
PROOF
<1>1. pc[q] = "remember"
    BY DEF RememberCase, At
<1>2. q \notin DOMAIN newer
    BY <1>1 DEF Cache
<1>3. DOMAIN cases = 1..Len(cases)
    BY LenProperties DEF Types
<1> QED BY <1>2, <1>3 DEF Cache, CachedRuns

\* The cache never outgrows its limit nor holds a run twice.
LEMMA CacheStep ==
    ASSUME Types, Cache, NEW q \in Requests, Start(q) \/ Step(q)
    PROVE  Cache'
PROOF
<1>0. /\ cases \in Seq(Entry) /\ DOMAIN cases = 1..Len(cases) /\ Len(cases) \in Nat
      /\ Limit \in Nat \ {0}
    BY LenProperties, RuntimeAssumption DEF Types
<1>c. CachedRuns = {cases[i].run : i \in 1..Len(cases)}
    BY <1>0 DEF CachedRuns
<1>f. \A p \in Requests \ {q} : pc'[p] = pc[p]
    BY Frame
<1>d. CachedRuns' \subseteq CachedRuns \cup {q}
    BY CachedStep
<1>1. CASE UNCHANGED <<cases, newer>>
    <2>1. pc[q] # "done"
        BY <1>1 DEF Start, Step, ReadPack, ReadProfile, ReadLocalPack, ReadHosted, ReadWorkflow,
                    AskHosted, AskRunner, CaseVerified, TermUnknown, CaseFailed, Resume, ImportCase,
                    RememberCase, FindCase, ActivateFails, SetContext, SetProfile, SetPack,
                    ReadContext, Publish, At
    <2>2. CachedRuns' = CachedRuns
        BY <1>1 DEF CachedRuns
    <2> QED BY <1>1, <1>f, <2>1, <2>2 DEF Cache
<1>2. CASE RememberCase(q)
    <2> DEFINE e == [run |-> q, term |-> asked[q], label |-> pack, produced |-> uses[q].pack]
    <2>0. e.run = q
        OBVIOUS
    <2>1. PICK d \in 0..1 :
            /\ Len(cases') = Len(cases) + 1 - d /\ Len(cases') <= Limit
            /\ \A i \in 1..Len(cases) - d : cases'[i] = cases[i + d]
            /\ cases'[Len(cases')] = e
        BY <1>2, Remembered
    <2> HIDE DEF e
    <2>2. pc'[q] = "done" /\ DOMAIN newer' = DOMAIN newer \cup {q}
        BY <1>2 DEF RememberCase, Touch, Answer, Goto, Types
    <2>3. ASSUME NEW i \in 1..Len(cases'), NEW j \in 1..Len(cases'),
                 cases'[i].run = cases'[j].run
          PROVE  i = j
        <3>1. \A m \in 1..Len(cases') : m # Len(cases') =>
                 /\ m + d \in 1..Len(cases) /\ cases'[m] = cases[m + d] /\ cases'[m].run # q
            <4> TAKE m \in 1..Len(cases')
            <4> HAVE m # Len(cases')
            <4>1. m \in 1..Len(cases) - d /\ m + d \in 1..Len(cases)
                BY <1>0, <2>1
            <4> QED BY <1>2, <2>1, <4>1, FreshRun
        <3>2. CASE i = Len(cases') \/ j = Len(cases')
            BY <2>0, <2>1, <2>3, <3>1, <3>2
        <3>3. CASE i # Len(cases') /\ j # Len(cases')
            <4>1. i + d = j + d
                BY <2>3, <3>1, <3>3 DEF Cache
            <4> QED BY <1>0, <2>1, <4>1
        <3> QED BY <3>2, <3>3
    <2> QED BY <1>d, <1>f, <2>1, <2>2, <2>3 DEF Cache
<1>3. CASE FindCase(q)
    <2>1. CASE job[q].run \notin CachedRuns
        BY <1>1, <1>3, <2>1 DEF FindCase
    <2>2. CASE job[q].run \in CachedRuns
        <3> DEFINE r == job[q].run
        <3>1. PICK k \in 1..Len(cases) :
                /\ Len(cases') = Len(cases)
                /\ \A i \in 1..Len(cases) :
                     cases'[i] = IF i < k THEN cases[i]
                                 ELSE IF i < Len(cases) THEN cases[i + 1] ELSE cases[k]
            BY <1>3, <2>2, Found
        <3>2. DOMAIN newer' = DOMAIN newer \cup {r} /\ r \in DOMAIN newer
            BY <1>3, <2>2 DEF FindCase, Touch, Cache
        <3>3. pc[q] = "find_case"
            BY <1>3 DEF FindCase, At
        <3>4. \A p \in DOMAIN newer : p \in Requests /\ pc'[p] = "done"
            BY <1>f, <3>3 DEF Cache
        <3>5. ASSUME NEW i \in 1..Len(cases), NEW j \in 1..Len(cases),
                     cases'[i].run = cases'[j].run
              PROVE  i = j
            <4> DEFINE From(m) == IF m < k THEN m ELSE IF m < Len(cases) THEN m + 1 ELSE k
            <4>1. \A m \in 1..Len(cases) : From(m) \in 1..Len(cases) /\ cases'[m] = cases[From(m)]
                BY <1>0, <3>1
            <4>2. From(i) = From(j)
                BY <3>5, <4>1 DEF Cache
            <4> QED BY <1>0, <4>2
        <3>6. CachedRuns' \subseteq DOMAIN newer
            BY <1>3, CachedStep, <3>3 DEF Cache, RememberCase, At
        <3> QED BY <3>1, <3>2, <3>4, <3>5, <3>6 DEF Cache
    <2> QED BY <2>1, <2>2
<1> QED BY <1>1, <1>2, <1>3, CacheFrame

\* Touch forgets what came after the run it touches and comes after the others.
LEMMA Touched ==
    ASSUME Recency, NEW t, Touch(t)
    PROVE  /\ DOMAIN newer' = DOMAIN newer \cup {t}
           /\ \A r \in DOMAIN newer \ {t} : newer'[r] = newer[r] \cup {t}
           /\ \A r \in DOMAIN newer' : IsFiniteSet(newer'[r])
           /\ \A r \in DOMAIN newer \ {t} : Cardinality(newer'[r]) < Limit => r \in CachedRuns
PROOF
<1>1. /\ DOMAIN newer' = DOMAIN newer \cup {t}
      /\ \A r \in DOMAIN newer \ {t} : newer'[r] = newer[r] \cup {t}
      /\ newer'[t] = {}
    BY DEF Touch
<1>2. ASSUME NEW r \in DOMAIN newer'
      PROVE  IsFiniteSet(newer'[r])
    <2>1. CASE r = t
        BY <1>1, <2>1, FS_EmptySet
    <2>2. CASE r # t
        <3>1. r \in DOMAIN newer /\ newer'[r] = newer[r] \cup {t}
            BY <1>1, <2>2
        <3>2. IsFiniteSet(newer[r])
            BY <3>1 DEF Recency
        <3> QED BY <3>1, <3>2, FS_AddElement
    <2> QED BY <2>1, <2>2
<1>3. ASSUME NEW r \in DOMAIN newer \ {t}, Cardinality(newer'[r]) < Limit
      PROVE  r \in CachedRuns
    <2>1. newer[r] \subseteq newer'[r] /\ IsFiniteSet(newer'[r])
        BY <1>1, <1>2
    <2>2. /\ Cardinality(newer[r]) \in Nat /\ Cardinality(newer'[r]) \in Nat
          /\ Cardinality(newer[r]) <= Cardinality(newer'[r])
        BY <2>1, FS_Subset, FS_CardinalityType DEF Recency
    <2>3. Cardinality(newer[r]) < Limit
        BY <1>3, <2>2, RuntimeAssumption
    <2> QED BY <2>3 DEF Recency, RecentlyUsedStay
<1> QED BY <1>1, <1>2, <1>3

\* A set that holds Limit different runs is no smaller than Limit.
LEMMA LimitDifferent ==
    ASSUME NEW S, IsFiniteSet(S), NEW f \in [1..Limit -> S],
           \A i, j \in 1..Limit : f[i] = f[j] => i = j
    PROVE  ~(Cardinality(S) < Limit)
PROOF
<1>1. Limit \in Nat /\ Cardinality(S) \in Nat
    BY RuntimeAssumption, FS_CardinalityType
<1>2. IsFiniteSet(1..Limit) /\ Cardinality(1..Limit) = Limit
    BY <1>1, FS_Interval
<1>3. f \in Injection(1..Limit, S)
    BY DEF Injection, IsInjective
<1>4. Cardinality(1..Limit) <= Cardinality(S)
    BY <1>2, <1>3, FS_Injection
<1> QED BY <1>1, <1>2, <1>4

\* A run leaves the cache after as many others as the cache holds.
LEMMA RecencyStep ==
    ASSUME Types, Cache, Recency, NEW q \in Requests, Start(q) \/ Step(q)
    PROVE  Recency'
PROOF
<1>0. /\ cases \in Seq(Entry) /\ DOMAIN cases = 1..Len(cases) /\ Len(cases) \in Nat
      /\ Limit \in Nat \ {0}
    BY LenProperties, RuntimeAssumption DEF Types
<1>l. Len(cases) \in Nat /\ Limit \in Nat /\ Limit > 0
    BY <1>0
<1>c. CachedRuns = {cases[i].run : i \in 1..Len(cases)}
    BY <1>0 DEF CachedRuns
<1>n. \A i \in 1..Len(cases) : cases[i].run \in DOMAIN newer
    BY <1>c DEF Cache
<1>d. /\ CachedRuns' = {cases'[i].run : i \in 1..Len(cases')}
      /\ \A i, j \in 1..Len(cases') : cases'[i].run = cases'[j].run => i = j
    <2>1. DOMAIN cases' = 1..Len(cases')
        BY CasesStep, LenProperties
    <2> QED BY <2>1, CacheStep DEF Cache, CachedRuns
<1>1. CASE UNCHANGED <<cases, newer>>
    BY <1>1 DEF Recency, RecentlyUsedStay, CachedRuns
<1>2. CASE RememberCase(q)
    <2> DEFINE e == [run |-> q, term |-> asked[q], label |-> pack, produced |-> uses[q].pack]
    <2>0. e.run = q
        OBVIOUS
    <2>1. PICK d \in 0..1 :
            /\ Len(cases') = Len(cases) + 1 - d /\ Len(cases') <= Limit
            /\ d = 1 => Len(cases) = Limit
            /\ \A i \in 1..Len(cases) - d : cases'[i] = cases[i + d]
            /\ cases'[Len(cases')] = e
        BY <1>2, Remembered
    <2> HIDE DEF e
    <2>a. /\ Len(cases') = Len(cases) + 1 - d /\ Len(cases') \in Nat /\ Len(cases') > 0
          /\ d = 0 \/ d = 1
          /\ d = 1 => Len(cases) = Limit
        <3>1. d = 0 \/ d = 1
            OBVIOUS
        <3>2. d = 1 => Len(cases) = Limit
            BY <2>1
        <3>3. Len(cases') = Len(cases) + 1 - d
            BY <2>1
        <3> QED BY <1>l, <3>1, <3>2, <3>3
    <2>2. /\ DOMAIN newer' = DOMAIN newer \cup {q} /\ q \notin DOMAIN newer
          /\ \A r \in DOMAIN newer : newer'[r] = newer[r] \cup {q}
          /\ \A r \in DOMAIN newer' : IsFiniteSet(newer'[r])
          /\ \A r \in DOMAIN newer : Cardinality(newer'[r]) < Limit => r \in CachedRuns
        <3>1. Touch(q)
            BY <1>2 DEF RememberCase
        <3> QED BY <1>2, <3>1, Touched, FreshRun
    <2>3. \A m \in 1..Len(cases') : m # Len(cases') =>
            m + d \in 1..Len(cases) /\ cases'[m] = cases[m + d]
        <3> TAKE m \in 1..Len(cases')
        <3> HAVE m # Len(cases')
        <3>1. m \in 1..Len(cases) - d /\ m + d \in 1..Len(cases)
            BY <1>l, <2>a
        <3> QED BY <2>1, <3>1
    <2>4. ASSUME NEW i \in 1..Len(cases'), NEW j \in 1..Len(cases'), i < j
          PROVE  cases'[j].run \in newer'[cases'[i].run]
        <3>0. i # Len(cases')
            BY <1>l, <2>a, <2>4
        <3>1. i + d \in 1..Len(cases) /\ cases'[i] = cases[i + d]
            BY <2>3, <3>0
        <3>2. newer'[cases'[i].run] = newer[cases[i + d].run] \cup {q}
            BY <1>n, <2>2, <3>1
        <3>3. CASE j = Len(cases')
            BY <2>0, <2>1, <3>2, <3>3
        <3>4. CASE j # Len(cases')
            <4>0. i + d < j + d
                BY <1>l, <2>a, <2>4
            <4>1. j + d \in 1..Len(cases) /\ cases'[j] = cases[j + d] /\ i + d < j + d
                BY <2>3, <3>4, <4>0
            <4>2. cases[j + d].run \in newer[cases[i + d].run]
                BY <3>1, <4>1 DEF Recency
            <4> QED BY <3>2, <4>1, <4>2
        <3> QED BY <3>3, <3>4
    <2>5. q \in CachedRuns'
        <3>1. Len(cases') \in 1..Len(cases')
            BY <2>a
        <3> QED BY <1>d, <2>0, <2>1, <3>1
    <2>6. ASSUME NEW r \in DOMAIN newer, Cardinality(newer'[r]) < Limit
          PROVE  r \in CachedRuns'
        <3>1. PICK m \in 1..Len(cases) : r = cases[m].run
            BY <1>c, <2>2, <2>6
        <3>2. CASE m - d \in 1..Len(cases) - d
            <4>1. m - d \in 1..Len(cases') /\ (m - d) + d = m
                BY <1>l, <2>a, <3>2
            <4>2. cases'[m - d] = cases[m]
                BY <2>1, <3>2, <4>1
            <4> QED BY <1>d, <3>1, <4>1, <4>2
        <3>3. CASE m - d \notin 1..Len(cases) - d
            <4>1. d = 1 /\ m = 1 /\ Len(cases) = Limit /\ Len(cases') = Limit
                BY <1>l, <2>a, <3>3
            <4>2. ASSUME NEW i \in 1..Limit PROVE cases'[i].run \in newer'[r]
                <5>1. CASE i = Len(cases')
                    BY <2>0, <2>1, <2>2, <5>1
                <5>2. CASE i # Len(cases')
                    <6>1. i + 1 \in 1..Len(cases) /\ cases'[i] = cases[i + 1] /\ 1 < i + 1
                        BY <1>l, <2>3, <4>1, <5>2
                    <6>2. cases[i + 1].run \in newer[cases[m].run]
                        BY <4>1, <6>1 DEF Recency
                    <6> QED BY <2>2, <3>1, <6>1, <6>2
                <5> QED BY <5>1, <5>2
            <4> DEFINE run == [i \in 1..Limit |-> cases'[i].run]
            <4>3. /\ run \in [1..Limit -> newer'[r]]
                  /\ \A i, j \in 1..Limit : run[i] = run[j] => i = j
                BY <1>d, <4>1, <4>2
            <4>4. IsFiniteSet(newer'[r])
                BY <2>2
            <4> HIDE DEF run
            <4>5. ~(Cardinality(newer'[r]) < Limit)
                BY <4>3, <4>4, LimitDifferent
            <4> QED BY <2>6, <4>5
        <3> QED BY <3>2, <3>3
    <2> QED BY <2>2, <2>4, <2>5, <2>6 DEF Recency, RecentlyUsedStay
<1>3. CASE FindCase(q)
    <2> DEFINE t == job[q].run
    <2>1. CASE t \notin CachedRuns
        BY <1>1, <1>3, <2>1 DEF FindCase
    <2>2. CASE t \in CachedRuns
        <3>1. PICK k \in 1..Len(cases) :
                /\ cases[k].run = t /\ Len(cases') = Len(cases)
                /\ \A i \in 1..Len(cases) :
                     cases'[i] = IF i < k THEN cases[i]
                                 ELSE IF i < Len(cases) THEN cases[i + 1] ELSE cases[k]
            BY <1>3, <2>2, Found
        <3>2. Touch(t)
            BY <1>3, <2>2 DEF FindCase
        <3> HIDE DEF t
        <3>3. /\ DOMAIN newer' = DOMAIN newer
              /\ \A r \in DOMAIN newer \ {t} : newer'[r] = newer[r] \cup {t}
              /\ \A r \in DOMAIN newer' : IsFiniteSet(newer'[r])
              /\ \A r \in DOMAIN newer \ {t} : Cardinality(newer'[r]) < Limit => r \in CachedRuns
            <4>1. t \in DOMAIN newer
                BY <1>n, <3>1
            <4>2. DOMAIN newer \cup {t} = DOMAIN newer
                BY <4>1
            <4> QED BY <3>2, <4>2, Touched
        <3> DEFINE From(m) == IF m < k THEN m ELSE IF m < Len(cases) THEN m + 1 ELSE k
        <3>4. \A m \in 1..Len(cases) : From(m) \in 1..Len(cases) /\ cases'[m] = cases[From(m)]
            BY <1>0, <3>1
        <3>5. \A m \in 1..Len(cases) : m < Len(cases) => From(m) # k
            BY <1>0
        <3>6. From(Len(cases)) = k
            <4>1. ~(Len(cases) < k) /\ ~(Len(cases) < Len(cases))
                BY <1>0
            <4> QED BY <4>1
        <3>7. \A i, j \in 1..Len(cases) : i < j /\ j < Len(cases) => From(i) < From(j)
            BY <1>0
        <3> HIDE DEF From
        <3>8. \A m \in 1..Len(cases) : m < Len(cases) => cases'[m].run # t
            BY <3>1, <3>4, <3>5 DEF Cache
        <3>9. ASSUME NEW i \in 1..Len(cases), NEW j \in 1..Len(cases), i < j
              PROVE  cases'[j].run \in newer'[cases'[i].run]
            <4>1. i < Len(cases)
                BY <1>0, <3>9
            <4>2. newer'[cases'[i].run] = newer[cases[From(i)].run] \cup {t}
                BY <1>n, <3>3, <3>4, <3>8, <4>1
            <4>3. CASE j = Len(cases)
                BY <3>1, <3>4, <3>6, <4>2, <4>3
            <4>4. CASE j < Len(cases)
                <5>1. cases[From(j)].run \in newer[cases[From(i)].run]
                    BY <3>4, <3>7, <3>9, <4>4 DEF Recency
                <5> QED BY <3>4, <4>2, <5>1
            <4> QED BY <1>0, <4>3, <4>4
        <3>10. \A r \in CachedRuns : r \in CachedRuns'
            <4> SUFFICES ASSUME NEW m \in 1..Len(cases)
                         PROVE  cases[m].run \in CachedRuns'
                BY <1>c
            <4> USE DEF From
            <4>1. CASE m < k
                BY <1>d, <3>1, <4>1
            <4>2. CASE m = k
                <5>1. Len(cases) \in 1..Len(cases') /\ cases'[Len(cases)] = cases[k]
                    BY <1>0, <3>1, <3>4
                <5> QED BY <1>d, <4>2, <5>1
            <4>3. CASE m > k
                <5>1. m - 1 \in 1..Len(cases') /\ cases'[m - 1] = cases[m]
                    <6>1. m - 1 \in 1..Len(cases) /\ From(m - 1) = m
                        BY <1>0, <4>3
                    <6> HIDE DEF From
                    <6> QED BY <3>1, <3>4, <6>1
                <5> QED BY <1>d, <5>1
            <4> QED BY <1>0, <4>1, <4>2, <4>3
        <3>11. t \in CachedRuns
            BY <1>c, <3>1
        <3> QED BY <3>1, <3>3, <3>9, <3>10, <3>11 DEF Recency, RecentlyUsedStay
    <2> QED BY <2>1, <2>2
<1> QED BY <1>1, <1>2, <1>3, CacheFrame

-----------------------------------------------------------------------------
\* The theorems.

\* A process that has just started has an empty cache and one selection.
LEMMA InvInit == Init => Inv
PROOF
<1> SUFFICES ASSUME Init PROVE Inv
    OBVIOUS
<1>c. PICK c \in Defaults :
        context = c /\ profile = c.profile /\ pack = c.pack /\ published = c
    BY DEF Init
<1>1. /\ c \in Selectable /\ c = [profile |-> c.profile, pack |-> c.pack]
      /\ c.profile \in Profiles /\ c.pack \in Packs
    BY RuntimeAssumption, ContextParts
<1>2. /\ lock = None /\ loop = None /\ registry = {} /\ moved = {} /\ overtaken = {}
      /\ job \in [Requests -> Calls]
      /\ pc = [q \in Requests |-> "waiting"] /\ uses = [q \in Requests |-> None]
      /\ answer = [q \in Requests |-> 0]
    BY RuntimeAssumption DEF Init
<1>3. cases = <<>> /\ cases \in Seq(Entry) /\ Len(cases) = 0 /\ DOMAIN cases = {}
    BY EmptySeq DEF Init
<1>4. DOMAIN newer = {}
    BY DEF Init
<1>5. ASSUME NEW q \in Requests
      PROVE  /\ asked[q] \in Terms \cup {None}
             /\ job[q].op \in {"analyze", "ask"} => asked[q] \in Terms
    BY <1>2, Calling DEF Init
<1>6. asked \in [Requests -> Terms \cup {None}]
    BY <1>5 DEF Init
<1>7. Types
    BY <1>c, <1>1, <1>2, <1>3, <1>5, <1>6 DEF Types, InOrder, Selecting, Reconciling, Labels
<1>8. Locking
    BY <1>c, <1>1, <1>2, RuntimeAssumption DEF Locking, SelectionWhole
<1>9. CachedRuns = {}
    BY <1>3 DEF CachedRuns
<1>10. Governing /\ Labelling /\ Routed
    BY <1>2, <1>3, <1>9 DEF Governing, CachedIsGoverned, Labelling, LabelFollowsSelection, Routed,
                            LiveCoversHero, Routing
<1>11. Cache /\ Recency
    <2>1. Len(cases) <= Limit
        BY <1>3, RuntimeAssumption
    <2>2. \A i \in 1..Len(cases) : FALSE
        BY <1>3
    <2> QED BY <1>4, <1>9, <2>1, <2>2 DEF Cache, Recency, RecentlyUsedStay
<1> QED BY <1>7, <1>8, <1>10, <1>11 DEF Inv

\* Every step of every request keeps the invariant.
LEMMA InvStep == Inv /\ [Next]_vars => Inv'
PROOF
<1> SUFFICES ASSUME Inv, [Next]_vars PROVE Inv'
    OBVIOUS
<1>1. CASE Next
    <2>1. PICK q \in Requests : Start(q) \/ Step(q)
        BY <1>1 DEF Next
    <2> QED BY <2>1, TypesStep, LockingStep, GoverningStep, LabellingStep, RoutedStep, CacheStep,
               RecencyStep DEF Inv
<1>2. CASE UNCHANGED vars
    BY <1>2 DEF vars, manager, served, history, Inv, Types, InOrder, Locking, SelectionWhole,
                Governing, Hosted, CachedIsGoverned, CachedRuns, Labelling, LabelFollowsSelection,
                Routed, LiveCoversHero, Cache, Recency, RecentlyUsedStay
<1> QED BY <1>1, <1>2

\* Each cached run once: as many runs as cases.
LEMMA OncePerRun == Inv => Cardinality(CachedRuns) = Len(cases)
PROOF
<1> SUFFICES ASSUME Inv PROVE Cardinality(CachedRuns) = Len(cases)
    OBVIOUS
<1> DEFINE place == [i \in 1..Len(cases) |-> cases[i].run]
<1>1. Len(cases) \in Nat /\ CachedRuns = {cases[i].run : i \in 1..Len(cases)}
    BY LenProperties DEF Inv, Types, CachedRuns
<1>2. place \in Surjection(1..Len(cases), CachedRuns)
    BY <1>1 DEF Surjection
<1>3. place \in Injection(1..Len(cases), CachedRuns)
    BY <1>1 DEF Injection, IsInjective, Inv, Cache
<1>4. IsFiniteSet(1..Len(cases)) /\ Cardinality(1..Len(cases)) = Len(cases)
    <2>1. \A n \in Nat : IsFiniteSet(1..n) /\ Cardinality(1..n) = n
        <3> TAKE n \in Nat
        <3>1. CASE n = 0
            BY <3>1, FS_Interval
        <3>2. CASE n # 0
            BY <3>2, FS_Interval
        <3> QED BY <3>1, <3>2
    <2> QED BY <1>1, <2>1
<1> HIDE DEF place
<1>5. Cardinality(CachedRuns) = Cardinality(1..Len(cases))
    BY <1>2, <1>3, <1>4, FS_Surjection
<1> QED BY <1>4, <1>5

\* The invariant is strong enough for every property below.
LEMMA InvImplies ==
    Inv => /\ TypeOK /\ SelectionWhole /\ CachedIsGoverned
           /\ LabelFollowsSelection /\ LiveCoversHero /\ RecentlyUsedStay
PROOF
<1> SUFFICES ASSUME Inv
             PROVE  /\ TypeOK /\ SelectionWhole /\ CachedIsGoverned
                    /\ LabelFollowsSelection /\ LiveCoversHero /\ RecentlyUsedStay
    OBVIOUS
<1>1. \A i \in DOMAIN cases : cases[i] \in Entry
    BY ElementOfSeq, LenProperties DEF Inv, Types
<1>2. TypeOK
    BY <1>1, OncePerRun DEF TypeOK, Inv, Types, Cache, Entry
<1>3. LiveCoversHero
    BY DEF Inv, Routed
<1> QED BY <1>2, <1>3 DEF Inv, Locking, Governing, Labelling, Recency

\* The invariant holds in every state of every behaviour.
THEOREM RuntimeInvariance == Spec => []Inv
PROOF
<1> QED BY InvInit, InvStep, PTL DEF Spec

\* The manager's fields, the requests' locals and the cache hold what they may;
\* the cache never more than its limit, nor one run twice.
THEOREM RuntimeTypes == Spec => []TypeOK
PROOF
<1> QED BY RuntimeInvariance, InvImplies, PTL

\* Whoever holds RuntimeManager._lock sees the context, profile and pack of one
\* selection, however many selections race.
THEOREM SelectionIsWhole == Spec => []SelectionWhole
PROOF
<1> QED BY RuntimeInvariance, InvImplies, PTL

\* Every run the reviewer can reopen is in the registry.
THEOREM CachedAreGoverned == Spec => []CachedIsGoverned
PROOF
<1> QED BY RuntimeInvariance, InvImplies, PTL

\* A case gets the label of another pack only if a selection was completed while
\* it was computed, or if it was not labelled by a first run.
THEOREM LabelsFollow == Spec => []LabelFollowsSelection
PROOF
<1> QED BY RuntimeInvariance, InvImplies, PTL

\* A term no live deployment covers reaches one only under a racing selection.
THEOREM LiveIsForHero == Spec => []LiveCoversHero
PROOF
<1> QED BY RuntimeInvariance, InvImplies, PTL

\* The cache evicts a run only after as many others as it holds.
THEOREM RecentStay == Spec => []RecentlyUsedStay
PROOF
<1> QED BY RuntimeInvariance, InvImplies, PTL
=============================================================================
