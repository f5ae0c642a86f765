----------------------------- MODULE CourtProofs -----------------------------
(***************************************************************************)
(* Proofs about the Semantic Court and the record of its deliberations     *)
(* (MCCourt): the hearing of any case is heard in full, and the file of a  *)
(* capture keeps the record of it, for any number of bindings, any results *)
(* and any number of turns voiced oddly.                                   *)
(*                                                                         *)
(* The invariant of the hearing says what the turns before each node are:  *)
(* CourtInv with HeardSoFar, by the stage of the node.  Each executor adds *)
(* drafts of its own (Growth), and the lemmas Heard... say that what they  *)
(* add is what the next stage asks for.  The invariant of the capture is   *)
(* RecordInv.                                                              *)
(***************************************************************************)
EXTENDS MCCourt, TLAPS, FiniteSetTheorems, SequenceTheorems

-----------------------------------------------------------------------------
\* The invariant of the hearing.

\* Which turns have been heard when a node is reached: those of the nodes of
\* smaller number.
Stage == [Coordinator |-> 0, Panel |-> 1, Plan |-> 2, Review |-> 3, Replan |-> 4,
          Branch |-> 5, Skeptic |-> 6, Consensus |-> 6, Response |-> 7,
          Reflection |-> 8, Authority |-> 9, Audit |-> 10]

\* The stage of a hearing that is over.
AfterAudit == 11

\* Drafts, voices and turns by their types.
Speakers == {"Coordinator", "Steward", "Plan", "Review", "Replan", "Skeptic", "Consensus",
             "Reflection", "Authority", "Audit"}
Dispositions == {"asserted", "confirmed", "challenged", "refused"} \union Answers
Drafts == [round: Nat, agent: Speakers, role: CourtRoles, disposition: Dispositions,
           binding: Nat, cites: SUBSET Nat]
Voices == [generated: BOOLEAN, words: {"reviewed", "fresh", "identifier", "keyword"},
           reason: {"plain", "none", "keyword"}]
Turns == [no: Nat, draft: Drafts, voice: Voices]

\* S has one element.
One(S) == \E i \in S : S = {i}

\* The turns are numbered, their rounds in order and before the stage, and they
\* cite evidence of the case.
Numbered(c, turns, s) ==
    /\ \A i \in DOMAIN turns : /\ turns[i].no = i
                               /\ turns[i].draft.round < s
                               /\ turns[i].draft.cites \subseteq Bindings(c)
    /\ \A i, j \in DOMAIN turns : i < j => turns[i].draft.round <= turns[j].draft.round

\* What has been said about each binding: it was asserted once the stewards
\* were heard; in a conflict challenged, and then answered, once each.
Debated(c, turns, s) == \A b \in Bindings(c) :
    /\ IF s >= 2 THEN One(On(turns, b, {"asserted"})) ELSE On(turns, b, {"asserted"}) = {}
    /\ IF s >= 7 /\ c.verdict = "conflict" THEN One(On(turns, b, {"challenged"}))
       ELSE On(turns, b, {"challenged"}) = {}
    /\ IF s >= 8 /\ c.verdict = "conflict" THEN One(On(turns, b, Answers))
       ELSE On(turns, b, Answers) = {}
    /\ \A i \in On(turns, b, {"challenged"}), j \in On(turns, b, Answers) : i < j
    /\ \A i \in On(turns, b, Answers) : turns[i].draft.disposition = ResponseOf(c, b)

Rulings(turns) == {i \in DOMAIN turns : turns[i].draft.agent = "Authority"}
RolesHeard(turns) == {turns[i].draft.role : i \in DOMAIN turns}

\* What else the audit and the check of a record look for.
Recorded(c, turns, s) ==
    /\ s >= 4 => \E i \in DOMAIN turns : turns[i].draft.cites = Bindings(c)
    /\ IF s >= 10 THEN One(Rulings(turns)) ELSE Rulings(turns) = {}
    /\ \A i \in Rulings(turns) :
         turns[i].draft.disposition = IF c.owner THEN "confirmed" ELSE "refused"
    /\ s >= 1 => "orchestrator" \in RolesHeard(turns)
    /\ s >= 2 => "steward" \in RolesHeard(turns)
    /\ s >= 3 => "investigator" \in RolesHeard(turns)
    /\ s >= 7 => "skeptic" \in RolesHeard(turns)
    /\ s >= 10 => "authority" \in RolesHeard(turns)

\* The closing turn says what the case earned.
Closed(c, turns, s) == s = AfterAudit =>
    /\ turns # <<>>
    /\ turns[Len(turns)].draft.disposition = "refused" <=> EarnedOutcome(c) = "refusal"

\* The turns that are heard before stage s.
HeardSoFar(c, turns, s) ==
    turns \in Seq(Turns) /\ Numbered(c, turns, s) /\ Debated(c, turns, s)
    /\ Recorded(c, turns, s) /\ Closed(c, turns, s)

\* The trace before stage s: the re-plan once, if the case needs it.
ReplanAt(trace) == {i \in DOMAIN trace : trace[i] = "Replan"}
Traced(c, trace, s) ==
    /\ trace \in Seq(Nodes \ {"none"}) /\ Len(trace) <= s
    /\ IF s >= 5 /\ NeedsTargetedReplan(c) THEN One(ReplanAt(trace)) ELSE ReplanAt(trace) = {}

\* Blackboards of a case.
Boards(c) == [node: Nodes, outcome: {"proposal", "refusal", "no_action"},
              truth: {<<>>, TruthDigest(c)}, turns: Seq(Turns), trace: Seq(Nodes \ {"none"}),
              replan: BOOLEAN, challenged: SUBSET Bindings(c)]

\* A hearing that sits is that of a ready case, at a node its debate comes to,
\* with what that node's stage has heard.
Sitting(c, board) == board.node # "none" =>
    /\ Ready(c)
    /\ board.truth = TruthDigest(c) /\ board.outcome = EarnedOutcome(c)
    /\ board.node \in {"Skeptic", "Response", "Reflection"} => c.verdict = "conflict"
    /\ board.node = "Consensus" => c.verdict = "consistent"
    /\ board.node = "Replan" => NeedsTargetedReplan(c)
    /\ board.node = "Response" => board.challenged = ChallengeableBindings(c)
    /\ HeardSoFar(c, board.turns, Stage[board.node])
    /\ Traced(c, board.trace, Stage[board.node])

\* t is the transcript of a whole hearing of c.
Transcript(c, t) ==
    /\ t = [verdict |-> c.verdict, outcome |-> EarnedOutcome(c), owner |-> c.owner,
            evidence |-> Bindings(c), trace |-> t.trace, turns |-> t.turns, mode |-> t.mode,
            rounds |-> t.rounds, digest |-> t.digest]
    /\ HeardSoFar(c, t.turns, AfterAudit)
    /\ Traced(c, t.trace, AfterAudit)
    /\ t.mode = IF \E i \in DOMAIN t.turns : t.turns[i].voice.generated
                THEN "live_captured" ELSE "deterministic_fallback"
    /\ t.digest = ContentDigest(t)

\* An answer is given once, when no hearing sits; never a failure.
Answered ==
    /\ answer.kind \in {"none", "not_ready", "unvoiced", "heard"}
    /\ answer.kind = "none" => answer = NoAnswer
    /\ answer.kind # "none" => court = NoCourt
    /\ answer.kind = "heard" =>
         /\ Ready(case) /\ answer = [kind |-> "heard", transcript |-> answer.transcript]
         /\ Transcript(case, answer.transcript)

\* The inductive invariant of the hearing.
CourtInv ==
    /\ case \in Cases /\ llm \in {"disabled", "ollama"} /\ odd \in 0 .. MaxOdd
    /\ court \in Boards(case)
    /\ court.node = "none" => court = NoCourt
    /\ court.node # "none" => answer = NoAnswer
    /\ Sitting(case, court)
    /\ Answered

\* A transcript has these parts.
Parts(t) ==
    t = [verdict |-> t.verdict, outcome |-> t.outcome, owner |-> t.owner,
         evidence |-> t.evidence, trace |-> t.trace, turns |-> t.turns, mode |-> t.mode,
         rounds |-> t.rounds, digest |-> t.digest]

\* Turns as they may stand in the file, edited or not.
FiledTurns == [no: Nat, draft: Drafts,
               voice: [generated: BOOLEAN,
                       words: {"reviewed", "fresh", "redacted", "keyword", "edited"},
                       reason: {"plain", "none", "keyword"}]]

\* t may stand in the file when the command wrote s: whatever was edited, the
\* digest is that of s.
FiledFor(s, t) == /\ Parts(t) /\ t.turns \in Seq(FiledTurns) /\ t.turns # <<>>
                  /\ t.digest = s.digest

\* The file holds the sanitized transcript, or what was made of it.
Filed ==
    /\ file.kind \in {"none", "torn"} => file \in {NoTranscript, TornTranscript}
    /\ file.kind = "whole" =>
         LET s == SanitizeTranscript(answer.transcript) IN
         /\ file = Saved(file.transcript)
         /\ FiledFor(s, file.transcript)
         /\ touched = FALSE => file = Saved(s)

\* The inductive invariant of the capture.
RecordInv ==
    /\ RecordTypeOK
    /\ capture.pc = "idle" => scratch = "none" /\ capture.why = "none"
    /\ capture.pc \in {"setup", "run", "hearing"} => capture.why = "none"
    /\ capture.pc = "drop" => capture.why \in {"none", "run", "hearing"}
    /\ capture.pc = "drop" /\ capture.why = "none" => answer.kind = "heard"
    /\ capture.pc \in {"open", "write"} => scratch = "none" /\ answer.kind = "heard"
    /\ file.kind # "none" => /\ capture.pc \in {"write", "ended"}
                             /\ scratch = "none" /\ answer.kind = "heard"
    /\ capture.pc = "ended" /\ scratch = "open" => capture.why \in {"setup", "drop", "killed"}
    /\ Filed

-----------------------------------------------------------------------------
\* Numbers in order.

\* A larger element has a larger rank, so ranks are 1 to the number of elements.
LEMMA Ranked ==
    ASSUME NEW S \in SUBSET Nat, IsFiniteSet(S)
    PROVE  /\ \A b \in S : Rank(S, b) \in 1 .. Cardinality(S)
           /\ \A a, b \in S : Rank(S, a) = Rank(S, b) => a = b
           /\ \A i \in 1 .. Cardinality(S) : \E b \in S : Rank(S, b) = i
PROOF
<1> DEFINE Upto(b) == {o \in S : o <= b}
           r == [b \in S |-> Rank(S, b)]
<1>0. Cardinality(S) \in Nat
    BY FS_CardinalityType
<1>1. \A b \in S : IsFiniteSet(Upto(b)) /\ Cardinality(Upto(b)) \in 1 .. Cardinality(S)
    <2> TAKE b \in S
    <2>1. IsFiniteSet(Upto(b)) /\ Cardinality(Upto(b)) <= Cardinality(S)
        BY FS_Subset
    <2>2. Upto(b) # {} /\ Cardinality(Upto(b)) \in Nat
        BY <2>1, FS_CardinalityType
    <2>3. Cardinality(Upto(b)) # 0
        BY <2>1, <2>2, FS_EmptySet
    <2> QED BY <2>1, <2>2, <2>3, <1>0
<1>2. ASSUME NEW a \in S, NEW b \in S, a < b, Rank(S, a) = Rank(S, b)
      PROVE  FALSE
    <2>0. a \in Nat /\ b \in Nat /\ \A o \in S : o \in Nat
        OBVIOUS
    <2>1. Upto(a) \in SUBSET Upto(b) /\ b \in Upto(b) /\ b \notin Upto(a)
        <3>1. \A o \in S : o <= a => o <= b
            BY <1>2, <2>0
        <3>2. b <= b /\ ~ (b <= a)
            BY <1>2, <2>0
        <3> QED BY <3>1, <3>2
    <2>2. Cardinality(Upto(a)) = Cardinality(Upto(b))
        BY <1>2 DEF Rank
    <2> HIDE DEF Upto
    <2> QED BY <1>1, <2>1, <2>2, FS_Subset
<1>3. \A a, b \in S : Rank(S, a) = Rank(S, b) => a = b
    BY <1>2
<1>4. r \in Injection(S, 1 .. Cardinality(S))
    BY <1>1, <1>3 DEF Rank, Injection, IsInjective
<1>5. IsFiniteSet(1 .. Cardinality(S)) /\ Cardinality(1 .. Cardinality(S)) = Cardinality(S)
    BY <1>0, FS_Interval
<1>6. r \in Surjection(S, 1 .. Cardinality(S))
    BY <1>4, <1>5, FS_Injection
<1>7. \A i \in 1 .. Cardinality(S) : \E b \in S : Rank(S, b) = i
    BY <1>6 DEF Surjection
<1> QED BY <1>1, <1>3, <1>7 DEF Rank

\* InOrder lists the elements of a set, each once.
LEMMA Listed ==
    ASSUME NEW S \in SUBSET Nat, IsFiniteSet(S)
    PROVE  /\ Cardinality(S) \in Nat
           /\ \A k \in 1 .. Cardinality(S) : InOrder(S)[k] \in S
           /\ \A b \in S : \E k \in 1 .. Cardinality(S) :
                \A i \in 1 .. Cardinality(S) : InOrder(S)[i] = b <=> i = k
PROOF
<1>0. Cardinality(S) \in Nat
    BY FS_CardinalityType
<1>1. \A k \in 1 .. Cardinality(S) : InOrder(S)[k] \in S /\ Rank(S, InOrder(S)[k]) = k
    BY Ranked DEF InOrder
<1>2. \A a, b \in S : Rank(S, a) = Rank(S, b) => a = b
    BY Ranked
<1>3. ASSUME NEW b \in S
      PROVE  \E k \in 1 .. Cardinality(S) :
                \A i \in 1 .. Cardinality(S) : InOrder(S)[i] = b <=> i = k
    <2>1. PICK k \in 1 .. Cardinality(S) : k = Rank(S, b)
        BY Ranked
    <2>2. ASSUME NEW i \in 1 .. Cardinality(S)
          PROVE  InOrder(S)[i] = b <=> i = k
        <3>1. InOrder(S)[i] \in S /\ Rank(S, InOrder(S)[i]) = i
            BY <1>1
        <3>2. InOrder(S)[i] = b => i = k
            BY <2>1, <3>1
        <3>3. i = k => InOrder(S)[i] = b
            BY <1>2, <2>1, <3>1
        <3> QED BY <3>2, <3>3
    <2> QED BY <2>2
<1> QED BY <1>0, <1>1, <1>3

\* The k-th number of an increasing sequence is the k-th of its set.
LEMMA Increasing ==
    ASSUME NEW q \in Seq(Nat), \A i, j \in DOMAIN q : i < j => q[i] < q[j],
           NEW R, R = {q[i] : i \in DOMAIN q}
    PROVE  /\ R \in SUBSET Nat /\ IsFiniteSet(R) /\ Cardinality(R) = Len(q)
           /\ \A k \in DOMAIN q : Rank(R, q[k]) = k
PROOF
<1>1. Len(q) \in Nat /\ DOMAIN q = 1 .. Len(q) /\ \A i \in DOMAIN q : q[i] \in Nat
    BY LenProperties
<1>2. \A i, j \in DOMAIN q : q[i] <= q[j] <=> i <= j
    <2> TAKE i, j \in DOMAIN q
    <2>1. i \in Nat /\ j \in Nat /\ q[i] \in Nat /\ q[j] \in Nat
        BY <1>1
    <2>2. i < j \/ i = j \/ j < i
        BY <2>1
    <2>3. (i < j => q[i] < q[j]) /\ (j < i => q[j] < q[i])
        OBVIOUS
    <2> QED BY <2>1, <2>2, <2>3
<1>3. \A i, j \in DOMAIN q : q[i] = q[j] => i = j
    <2> TAKE i, j \in DOMAIN q
    <2>1. i \in Nat /\ j \in Nat /\ q[i] \in Nat /\ q[j] \in Nat
        BY <1>1
    <2>2. (q[i] <= q[j] <=> i <= j) /\ (q[j] <= q[i] <=> j <= i)
        BY <1>2
    <2> QED BY <2>1, <2>2
<1>4. ASSUME NEW k \in Nat, k <= Len(q)
      PROVE  LET T == {q[i] : i \in 1 .. k} IN IsFiniteSet(T) /\ Cardinality(T) = k
    <2> DEFINE T == {q[i] : i \in 1 .. k}
               f == [i \in 1 .. k |-> q[i]]
    <2>1. 1 .. k \subseteq DOMAIN q
        BY <1>1, <1>4
    <2>2. f \in Surjection(1 .. k, T) /\ f \in Injection(1 .. k, T)
        BY <1>3, <2>1 DEF Surjection, Injection, IsInjective
    <2>3. IsFiniteSet(1 .. k) /\ Cardinality(1 .. k) = k
        BY FS_Interval
    <2> HIDE DEF T, f
    <2>4. IsFiniteSet(T) /\ Cardinality(T) = k
        BY <2>2, <2>3, FS_Surjection
    <2> QED BY <2>4 DEF T
<1>5. R \in SUBSET Nat /\ IsFiniteSet(R) /\ Cardinality(R) = Len(q)
    <2>1. R = {q[i] : i \in 1 .. Len(q)}
        BY <1>1
    <2>2. Len(q) \in Nat /\ Len(q) <= Len(q)
        BY <1>1
    <2>3. R \in SUBSET Nat
        BY <1>1
    <2> QED BY <1>4, <2>1, <2>2, <2>3
<1>6. ASSUME NEW k \in DOMAIN q
      PROVE  Rank(R, q[k]) = k
    <2>1. k \in Nat /\ k <= Len(q) /\ \A i \in DOMAIN q : i <= k <=> i \in 1 .. k
        BY <1>1
    <2>2. {o \in R : o <= q[k]} = {q[i] : i \in 1 .. k}
        <3>1. \A i \in DOMAIN q : q[i] <= q[k] <=> i \in 1 .. k
            BY <1>2, <2>1
        <3>2. 1 .. k \subseteq DOMAIN q
            BY <1>1, <2>1
        <3> QED BY <3>1, <3>2
    <2> QED BY <1>4, <2>1, <2>2 DEF Rank
<1> QED BY <1>5, <1>6

\* An increasing sequence is determined by its set.
LEMMA SameIncreasing ==
    ASSUME NEW p \in Seq(Nat), \A i, j \in DOMAIN p : i < j => p[i] < p[j],
           NEW q \in Seq(Nat), \A i, j \in DOMAIN q : i < j => q[i] < q[j],
           {p[i] : i \in DOMAIN p} = {q[i] : i \in DOMAIN q}
    PROVE  p = q
PROOF
<1>1. PICK R : R = {p[i] : i \in DOMAIN p} /\ R = {q[i] : i \in DOMAIN q}
    OBVIOUS
<1>2. R \in SUBSET Nat /\ IsFiniteSet(R) /\ Cardinality(R) = Len(p) /\ Cardinality(R) = Len(q)
    BY <1>1, Increasing
<1>3. DOMAIN p = 1 .. Len(p) /\ DOMAIN q = 1 .. Len(q)
    BY LenProperties
<1>4. ASSUME NEW k \in 1 .. Len(p)
      PROVE  p[k] = q[k]
    <2>1. k \in DOMAIN p /\ k \in DOMAIN q
        BY <1>2, <1>3
    <2>2. Rank(R, p[k]) = k /\ Rank(R, q[k]) = k
        BY <1>1, <2>1, Increasing
    <2>3. p[k] \in R /\ q[k] \in R
        BY <1>1, <2>1
    <2>4. \A a, b \in R : Rank(R, a) = Rank(R, b) => a = b
        BY <1>2, Ranked
    <2> QED BY <2>2, <2>3, <2>4
<1>5. Len(p) = Len(q)
    BY <1>2
<1> QED BY <1>4, <1>5, SeqEqual

\* What the assumption says of a case: results are equal if their sets are,
\* and as long as their sets are large.
LEMMA CaseResults ==
    ASSUME NEW c \in Cases
    PROVE  /\ Bindings(c) = 1 .. Len(c.results) /\ Len(c.results) \in Nat
           /\ Bindings(c) \in SUBSET Nat /\ IsFiniteSet(Bindings(c))
           /\ NoBinding \notin Bindings(c)
           /\ \A b \in Bindings(c) : Cardinality(EntitySet(c, b)) = Len(c.results[b])
           /\ \A l, r \in Bindings(c) :
                EntitySet(c, l) = EntitySet(c, r) <=> c.results[l] = c.results[r]
PROOF
<1>1. c.results \in Seq(Seq(Nat))
    BY CasesAssumption DEF CasesAssumption
<1>2. /\ Bindings(c) = 1 .. Len(c.results) /\ Len(c.results) \in Nat
      /\ \A b \in Bindings(c) : c.results[b] \in Seq(Nat)
    BY <1>1, LenProperties DEF Bindings
<1>3. Bindings(c) \in SUBSET Nat /\ IsFiniteSet(Bindings(c)) /\ NoBinding \notin Bindings(c)
    BY <1>2, FS_Interval DEF NoBinding
<1>4. \A b \in Bindings(c) : \A i, j \in DOMAIN c.results[b] :
        i < j => c.results[b][i] < c.results[b][j]
    BY CasesAssumption DEF CasesAssumption
<1>5. ASSUME NEW b \in Bindings(c)
      PROVE  Cardinality(EntitySet(c, b)) = Len(c.results[b])
    <2>1. PICK q \in Seq(Nat) : q = c.results[b]
        BY <1>2
    <2>2. \A i, j \in DOMAIN q : i < j => q[i] < q[j]
        BY <1>4, <2>1
    <2>3. EntitySet(c, b) = {q[i] : i \in DOMAIN q}
        BY <2>1 DEF EntitySet
    <2> QED BY <2>1, <2>2, <2>3, Increasing
<1>6. ASSUME NEW l \in Bindings(c), NEW r \in Bindings(c), EntitySet(c, l) = EntitySet(c, r)
      PROVE  c.results[l] = c.results[r]
    <2>1. PICK p \in Seq(Nat), q \in Seq(Nat) : p = c.results[l] /\ q = c.results[r]
        BY <1>2
    <2>2. /\ \A i, j \in DOMAIN p : i < j => p[i] < p[j]
          /\ \A i, j \in DOMAIN q : i < j => q[i] < q[j]
        BY <1>4, <2>1
    <2>3. {p[i] : i \in DOMAIN p} = {q[i] : i \in DOMAIN q}
        BY <1>6, <2>1 DEF EntitySet
    <2> QED BY <2>1, <2>2, <2>3, SameIncreasing
<1>7. \A l, r \in Bindings(c) : c.results[l] = c.results[r] => EntitySet(c, l) = EntitySet(c, r)
    BY DEF EntitySet
<1> QED BY <1>2, <1>3, <1>5, <1>6, <1>7

\* A re-plan is due if equal totals hide unequal sets.
LEMMA EqualTotals ==
    ASSUME NEW c \in Cases
    PROVE  NeedsTargetedReplan(c) <=>
             \E l, r \in Bindings(c) :
               /\ EntitySet(c, l) # EntitySet(c, r)
               /\ Cardinality(EntitySet(c, l)) = Cardinality(EntitySet(c, r))
PROOF
<1>1. \A l, r \in Bindings(c) : l < r \/ l = r \/ r < l
    BY CaseResults
<1>2. \A l, r \in Bindings(c) :
        /\ Len(c.results[l]) = Len(c.results[r]) <=>
             Cardinality(EntitySet(c, l)) = Cardinality(EntitySet(c, r))
        /\ c.results[l] # c.results[r] <=> EntitySet(c, l) # EntitySet(c, r)
    BY CaseResults
<1>3. \A l \in Bindings(c) : ~ (l < l)
    BY CaseResults
<1>4. ASSUME NEW l \in Bindings(c), NEW r \in Bindings(c), EntitySet(c, l) # EntitySet(c, r),
             Cardinality(EntitySet(c, l)) = Cardinality(EntitySet(c, r))
      PROVE  NeedsTargetedReplan(c)
    BY <1>1, <1>2, <1>4 DEF NeedsTargetedReplan
<1> QED BY <1>2, <1>4 DEF NeedsTargetedReplan

-----------------------------------------------------------------------------
\* What drafts add to the turns that were heard.

\* new is turns, and after them drafts, numbered on.
Growth(turns, drafts, new) ==
    /\ turns \in Seq(Turns) /\ drafts \in Seq(Drafts) /\ new \in Seq(Turns)
    /\ Len(new) = Len(turns) + Len(drafts)
    /\ \A i \in 1 .. Len(turns) : new[i] = turns[i]
    /\ \A k \in 1 .. Len(drafts) : /\ new[Len(turns) + k].draft = drafts[k]
                                   /\ new[Len(turns) + k].no = Len(turns) + k

\* Whatever is said of them, drafts that are voiced follow what was heard.
LEMMA VoicedGrow ==
    ASSUME NEW turns \in Seq(Turns), NEW drafts \in Seq(Drafts), NEW said,
           \A i \in 1 .. Len(drafts) : said[i] \in {Reviewed, Generated} \union Oddities
    PROVE  Growth(turns, drafts, turns \o Voiced(drafts, said, Len(turns)))
PROOF
<1> DEFINE n == Len(turns)
           voiced == Voiced(drafts, said, n)
<1>1. /\ n \in Nat /\ Len(drafts) \in Nat /\ DOMAIN drafts = 1 .. Len(drafts)
      /\ \A i \in 1 .. Len(drafts) : drafts[i] \in Drafts
    BY LenProperties
<1>2. ASSUME NEW i \in 1 .. Len(drafts)
      PROVE  Wording(drafts[i], said[i]) \in Voices
    <2>1. said[i] \in Voices
        <3>1. Reviewed \in Voices /\ Generated \in Voices
            BY DEF Reviewed, Generated, Voices
        <3>2. Oddities \subseteq Voices
            BY <3>1 DEF Oddities, Voices
        <3> QED BY <3>1, <3>2
    <2>2. [said[i] EXCEPT !.words = "identifier"] \in Voices
        BY <2>1 DEF Voices
    <2> QED BY <2>1, <2>2 DEF Wording
<1>3. ASSUME NEW i \in 1 .. Len(drafts)
      PROVE  voiced[i] \in Turns /\ voiced[i].draft = drafts[i] /\ voiced[i].no = n + i
    <2>1. voiced[i] = [no |-> n + i, draft |-> drafts[i], voice |-> Wording(drafts[i], said[i])]
        BY <1>1 DEF Voiced
    <2>2. n + i \in Nat
        BY <1>1
    <2> QED BY <1>1, <1>2, <2>1, <2>2 DEF Turns
<1>4. voiced \in Seq(Turns) /\ Len(voiced) = Len(drafts)
    <2>1. voiced = [i \in 1 .. Len(drafts) |-> voiced[i]]
        BY <1>1 DEF Voiced
    <2> HIDE DEF voiced
    <2> QED BY <1>1, <1>3, <2>1
<1> HIDE DEF voiced
<1>5. /\ turns \o voiced \in Seq(Turns) /\ Len(turns \o voiced) = n + Len(drafts)
      /\ \A i \in 1 .. n + Len(drafts) :
           (turns \o voiced)[i] = IF i <= n THEN turns[i] ELSE voiced[i - n]
    <2>1. /\ turns \o voiced \in Seq(Turns) /\ Len(turns \o voiced) = n + Len(voiced)
          /\ \A i \in 1 .. n + Len(voiced) :
               (turns \o voiced)[i] = IF i <= n THEN turns[i] ELSE voiced[i - n]
        BY <1>4, ConcatProperties
    <2> QED BY <1>4, <2>1
<1>6. \A i \in 1 .. n : (turns \o voiced)[i] = turns[i]
    BY <1>1, <1>5
<1>7. ASSUME NEW k \in 1 .. Len(drafts)
      PROVE  (turns \o voiced)[n + k] = voiced[k]
    <2>1. n + k \in 1 .. n + Len(drafts) /\ ~ (n + k <= n) /\ (n + k) - n = k
        BY <1>1
    <2> QED BY <1>5, <2>1
<1>8. Growth(turns, drafts, turns \o voiced)
    BY <1>3, <1>5, <1>6, <1>7 DEF Growth
<1> QED BY <1>8 DEF voiced

\* A turn is an old one, or one of the drafts.
LEMMA GrowthParts ==
    ASSUME NEW turns, NEW drafts, NEW new, Growth(turns, drafts, new)
    PROVE  /\ DOMAIN turns = 1 .. Len(turns) /\ DOMAIN drafts = 1 .. Len(drafts)
           /\ Len(turns) \in Nat /\ Len(drafts) \in Nat
           /\ DOMAIN new = 1 .. Len(turns) + Len(drafts)
           /\ \A i \in DOMAIN turns : i \in Nat /\ i \in DOMAIN new /\ new[i] = turns[i]
                                      /\ turns[i].draft \in Drafts
           /\ \A k \in DOMAIN drafts :
                /\ Len(turns) + k \in DOMAIN new /\ Len(turns) + k \notin DOMAIN turns
                /\ new[Len(turns) + k].draft = drafts[k]
                /\ new[Len(turns) + k].no = Len(turns) + k
                /\ drafts[k] \in Drafts
                /\ \A i \in DOMAIN turns : i < Len(turns) + k
           /\ \A i \in DOMAIN new \ DOMAIN turns : \E k \in DOMAIN drafts : i = Len(turns) + k
PROOF
<1>1. /\ DOMAIN turns = 1 .. Len(turns) /\ DOMAIN drafts = 1 .. Len(drafts)
      /\ Len(turns) \in Nat /\ Len(drafts) \in Nat
      /\ DOMAIN new = 1 .. Len(turns) + Len(drafts)
      /\ \A i \in DOMAIN turns : turns[i] \in Turns
      /\ \A k \in DOMAIN drafts : drafts[k] \in Drafts
    BY LenProperties DEF Growth
<1>2. \A i \in DOMAIN turns : i \in Nat /\ i \in DOMAIN new /\ new[i] = turns[i]
                              /\ turns[i].draft \in Drafts
    BY <1>1 DEF Growth, Turns
<1>3. ASSUME NEW k \in DOMAIN drafts
      PROVE  /\ Len(turns) + k \in DOMAIN new /\ Len(turns) + k \notin DOMAIN turns
             /\ new[Len(turns) + k].draft = drafts[k]
             /\ new[Len(turns) + k].no = Len(turns) + k
             /\ \A i \in DOMAIN turns : i < Len(turns) + k
    <2>1. /\ Len(turns) + k \in DOMAIN new /\ Len(turns) + k \notin DOMAIN turns
          /\ \A i \in DOMAIN turns : i < Len(turns) + k
        BY <1>1
    <2> QED BY <1>1, <2>1 DEF Growth
<1>4. ASSUME NEW i \in DOMAIN new \ DOMAIN turns
      PROVE  \E k \in DOMAIN drafts : i = Len(turns) + k
    <2>1. i - Len(turns) \in DOMAIN drafts /\ i = Len(turns) + (i - Len(turns))
        BY <1>1
    <2> QED BY <2>1
<1> QED BY <1>1, <1>2, <1>3, <1>4

\* Drafts of one round that cite evidence of the case.
OfRound(c, drafts, r) ==
    \A k \in DOMAIN drafts : drafts[k].round = r /\ drafts[k].cites \subseteq Bindings(c)

\* Turns of one round, not before the last, keep the numbers and the rounds.
LEMMA NumberedGrows ==
    ASSUME NEW c, NEW turns, NEW drafts, NEW new, Growth(turns, drafts, new),
           NEW s \in Nat, NEW t \in Nat, NEW r \in Nat, Numbered(c, turns, s),
           s <= t, s <= r + 1, r < t,
           OfRound(c, drafts, r)
    PROVE  Numbered(c, new, t)
PROOF
<1>1. ASSUME NEW i \in DOMAIN turns
      PROVE  /\ i \in DOMAIN new /\ new[i] = turns[i] /\ new[i].no = i
             /\ new[i].draft.round \in Nat /\ new[i].draft.round < s
             /\ new[i].draft.cites \subseteq Bindings(c)
    BY GrowthParts DEF Numbered, Drafts
<1>2. ASSUME NEW i \in DOMAIN new \ DOMAIN turns
      PROVE  /\ new[i].no = i /\ new[i].draft.round = r
             /\ new[i].draft.cites \subseteq Bindings(c)
    <2>1. PICK k \in DOMAIN drafts : i = Len(turns) + k
        BY GrowthParts
    <2> QED BY <2>1, GrowthParts DEF OfRound
<1>3. ASSUME NEW i \in DOMAIN new
      PROVE  /\ new[i].no = i /\ new[i].draft.round < t /\ new[i].draft.cites \subseteq Bindings(c)
             /\ new[i].draft.round \in Nat /\ new[i].draft.round <= r
    <2>1. CASE i \in DOMAIN turns
        BY <1>1, <2>1
    <2>2. CASE i \notin DOMAIN turns
        BY <1>2, <2>2
    <2> QED BY <2>1, <2>2
<1>4. ASSUME NEW i \in DOMAIN new, NEW j \in DOMAIN new, i < j
      PROVE  new[i].draft.round <= new[j].draft.round
    <2>1. CASE j \in DOMAIN turns
        <3>1. i \in DOMAIN turns
            BY <1>4, <2>1, GrowthParts
        <3> QED BY <1>1, <1>4, <2>1, <3>1 DEF Numbered
    <2>2. CASE j \notin DOMAIN turns
        BY <1>2, <1>3, <2>2
    <2> QED BY <2>1, <2>2
<1> QED BY <1>3, <1>4 DEF Numbered

\* The turns on a binding are the old ones and those of the drafts.
LEMMA OnGrows ==
    ASSUME NEW turns, NEW drafts, NEW new, Growth(turns, drafts, new), NEW b, NEW D
    PROVE  /\ On(turns, b, D) \subseteq On(new, b, D) /\ On(turns, b, D) \subseteq DOMAIN turns
           /\ On(new, b, D) \cap DOMAIN turns = On(turns, b, D)
           /\ \A i \in On(new, b, D) \ On(turns, b, D) :
                \E k \in DOMAIN drafts : /\ i = Len(turns) + k
                                         /\ drafts[k].binding = b /\ drafts[k].disposition \in D
           /\ \A k \in DOMAIN drafts :
                drafts[k].binding = b /\ drafts[k].disposition \in D => Len(turns) + k \in On(new, b, D)
PROOF
<1>1. \A i \in DOMAIN turns : i \in DOMAIN new /\ new[i] = turns[i]
    BY GrowthParts
<1>2. On(new, b, D) \cap DOMAIN turns = On(turns, b, D)
    BY <1>1 DEF On
<1>3. ASSUME NEW i \in On(new, b, D) \ On(turns, b, D)
      PROVE  \E k \in DOMAIN drafts : /\ i = Len(turns) + k
                                      /\ drafts[k].binding = b /\ drafts[k].disposition \in D
    <2>1. i \in DOMAIN new \ DOMAIN turns /\ new[i].draft.binding = b
          /\ new[i].draft.disposition \in D
        BY <1>2 DEF On
    <2>2. PICK k \in DOMAIN drafts : i = Len(turns) + k
        BY <2>1, GrowthParts
    <2>3. new[i].draft = drafts[k]
        BY <2>2, GrowthParts
    <2> QED BY <2>1, <2>2, <2>3
<1>4. ASSUME NEW k \in DOMAIN drafts, drafts[k].binding = b, drafts[k].disposition \in D
      PROVE  Len(turns) + k \in On(new, b, D)
    <2>1. Len(turns) + k \in DOMAIN new /\ new[Len(turns) + k].draft = drafts[k]
        BY GrowthParts
    <2> QED BY <1>4, <2>1 DEF On
<1>5. On(turns, b, D) \subseteq DOMAIN turns
    BY DEF On
<1> QED BY <1>2, <1>3, <1>4, <1>5

\* Drafts that say none of D of b add nothing to it.
LEMMA NothingOn ==
    ASSUME NEW turns, NEW drafts, NEW new, Growth(turns, drafts, new), NEW b, NEW D,
           \A k \in DOMAIN drafts : ~ (drafts[k].binding = b /\ drafts[k].disposition \in D)
    PROVE  On(new, b, D) = On(turns, b, D)
BY OnGrows

\* Drafts with one that says one of D of b make it the one of which it is said.
LEMMA OneOn ==
    ASSUME NEW turns, NEW drafts, NEW new, Growth(turns, drafts, new), NEW b, NEW D,
           On(turns, b, D) = {}, NEW k \in DOMAIN drafts,
           \A i \in DOMAIN drafts : drafts[i].binding = b <=> i = k,
           drafts[k].disposition \in D
    PROVE  On(new, b, D) = {Len(turns) + k}
BY OnGrows

\* The drafts of a role that speaks once on each binding of S.
OnePerBinding(drafts, S) ==
    /\ \A k \in DOMAIN drafts : drafts[k].binding \in S
    /\ \A b \in S : \E k \in DOMAIN drafts : \A i \in DOMAIN drafts : drafts[i].binding = b <=> i = k

\* What s and t have both, or neither, heard of a binding.
Same7(c, s, t) == (s >= 7 /\ c.verdict = "conflict") <=> (t >= 7 /\ c.verdict = "conflict")
Same8(c, s, t) == (s >= 8 /\ c.verdict = "conflict") <=> (t >= 8 /\ c.verdict = "conflict")

\* What was said in old turns stays as it was said.
LEMMA SaidStays ==
    ASSUME NEW c, NEW turns, NEW drafts, NEW new, Growth(turns, drafts, new), NEW s,
           Debated(c, turns, s), NEW b \in Bindings(c),
           On(new, b, {"challenged"}) = On(turns, b, {"challenged"}),
           On(new, b, Answers) = On(turns, b, Answers)
    PROVE  /\ \A i \in On(new, b, {"challenged"}), j \in On(new, b, Answers) : i < j
           /\ \A i \in On(new, b, Answers) : new[i].draft.disposition = ResponseOf(c, b)
PROOF
<1>1. \A i \in On(turns, b, Answers) : new[i] = turns[i]
    BY OnGrows, GrowthParts
<1> QED BY <1>1 DEF Debated

\* A turn on no binding leaves what was said of bindings.
LEMMA DebatedStays ==
    ASSUME NEW c, NoBinding \notin Bindings(c),
           NEW turns, NEW drafts, NEW new, Growth(turns, drafts, new),
           NEW s \in Nat, NEW t \in Nat, Debated(c, turns, s),
           \A k \in DOMAIN drafts : drafts[k].binding = NoBinding,
           s >= 2 <=> t >= 2, Same7(c, s, t), Same8(c, s, t)
    PROVE  Debated(c, new, t)
PROOF
<1>1. ASSUME NEW b \in Bindings(c), NEW D
      PROVE  On(new, b, D) = On(turns, b, D)
    BY NothingOn
<1>2. ASSUME NEW b \in Bindings(c)
      PROVE  /\ IF t >= 2 THEN One(On(new, b, {"asserted"})) ELSE On(new, b, {"asserted"}) = {}
             /\ IF t >= 7 /\ c.verdict = "conflict"
                THEN One(On(new, b, {"challenged"})) ELSE On(new, b, {"challenged"}) = {}
             /\ IF t >= 8 /\ c.verdict = "conflict"
                THEN One(On(new, b, Answers)) ELSE On(new, b, Answers) = {}
             /\ \A i \in On(new, b, {"challenged"}), j \in On(new, b, Answers) : i < j
             /\ \A i \in On(new, b, Answers) : new[i].draft.disposition = ResponseOf(c, b)
    <2>1. /\ On(new, b, {"asserted"}) = On(turns, b, {"asserted"})
          /\ On(new, b, {"challenged"}) = On(turns, b, {"challenged"})
          /\ On(new, b, Answers) = On(turns, b, Answers)
        BY <1>1
    <2>2. /\ IF s >= 2 THEN One(On(turns, b, {"asserted"})) ELSE On(turns, b, {"asserted"}) = {}
          /\ IF s >= 7 /\ c.verdict = "conflict"
             THEN One(On(turns, b, {"challenged"})) ELSE On(turns, b, {"challenged"}) = {}
          /\ IF s >= 8 /\ c.verdict = "conflict"
             THEN One(On(turns, b, Answers)) ELSE On(turns, b, Answers) = {}
        BY DEF Debated
    <2>3. /\ \A i \in On(new, b, {"challenged"}), j \in On(new, b, Answers) : i < j
          /\ \A i \in On(new, b, Answers) : new[i].draft.disposition = ResponseOf(c, b)
        BY <2>1, SaidStays
    <2>4. IF t >= 2 THEN One(On(new, b, {"asserted"})) ELSE On(new, b, {"asserted"}) = {}
        BY <2>1, <2>2
    <2>5. /\ IF t >= 7 /\ c.verdict = "conflict"
             THEN One(On(new, b, {"challenged"})) ELSE On(new, b, {"challenged"}) = {}
          /\ IF t >= 8 /\ c.verdict = "conflict"
             THEN One(On(new, b, Answers)) ELSE On(new, b, Answers) = {}
        BY <2>1, <2>2 DEF Same7, Same8
    <2> QED BY <2>3, <2>4, <2>5
<1> QED BY <1>2 DEF Debated

\* The stewards assert every binding.
LEMMA DebatedAsserted ==
    ASSUME NEW c, NEW turns, NEW drafts, NEW new, Growth(turns, drafts, new), Debated(c, turns, 1),
           OnePerBinding(drafts, Bindings(c)),
           \A k \in DOMAIN drafts : drafts[k].disposition = "asserted"
    PROVE  Debated(c, new, 2)
PROOF
<1>1. ASSUME NEW b \in Bindings(c)
      PROVE  /\ One(On(new, b, {"asserted"})) /\ On(new, b, {"challenged"}) = {}
             /\ On(new, b, Answers) = {}
    <2>1. /\ On(turns, b, {"asserted"}) = {} /\ On(turns, b, {"challenged"}) = {}
          /\ On(turns, b, Answers) = {}
        BY DEF Debated
    <2>2. PICK k \in DOMAIN drafts : \A i \in DOMAIN drafts : drafts[i].binding = b <=> i = k
        BY DEF OnePerBinding
    <2>3. On(new, b, {"asserted"}) = {Len(turns) + k}
        BY <2>1, <2>2, OneOn
    <2>4. On(new, b, {"challenged"}) = {} /\ On(new, b, Answers) = {}
        BY <2>1, NothingOn DEF Answers
    <2> QED BY <2>3, <2>4 DEF One
<1> QED BY <1>1 DEF Debated

\* The skeptic challenges every binding of a conflict.
LEMMA DebatedChallenged ==
    ASSUME NEW c, NEW turns, NEW drafts, NEW new, Growth(turns, drafts, new), Debated(c, turns, 6),
           c.verdict = "conflict", OnePerBinding(drafts, Bindings(c)),
           \A k \in DOMAIN drafts : drafts[k].disposition = "challenged"
    PROVE  Debated(c, new, 7)
PROOF
<1>1. ASSUME NEW b \in Bindings(c)
      PROVE  /\ One(On(new, b, {"asserted"})) /\ One(On(new, b, {"challenged"}))
             /\ On(new, b, Answers) = {}
    <2>1. /\ One(On(turns, b, {"asserted"})) /\ On(turns, b, {"challenged"}) = {}
          /\ On(turns, b, Answers) = {}
        BY DEF Debated
    <2>2. PICK k \in DOMAIN drafts : \A i \in DOMAIN drafts : drafts[i].binding = b <=> i = k
        BY DEF OnePerBinding
    <2>3. On(new, b, {"challenged"}) = {Len(turns) + k}
        BY <2>1, <2>2, OneOn
    <2>4. On(new, b, {"asserted"}) = On(turns, b, {"asserted"}) /\ On(new, b, Answers) = {}
        BY <2>1, NothingOn DEF Answers
    <2> QED BY <2>1, <2>3, <2>4 DEF One
<1> QED BY <1>1 DEF Debated

\* The stewards answer every challenge.
LEMMA DebatedAnswered ==
    ASSUME NEW c, NEW turns, NEW drafts, NEW new, Growth(turns, drafts, new), Debated(c, turns, 7),
           c.verdict = "conflict", OnePerBinding(drafts, Bindings(c)),
           \A k \in DOMAIN drafts : drafts[k].disposition = ResponseOf(c, drafts[k].binding)
    PROVE  Debated(c, new, 8)
PROOF
<1>1. ASSUME NEW b \in Bindings(c)
      PROVE  /\ One(On(new, b, {"asserted"})) /\ One(On(new, b, {"challenged"}))
             /\ One(On(new, b, Answers))
             /\ \A i \in On(new, b, {"challenged"}), j \in On(new, b, Answers) : i < j
             /\ \A i \in On(new, b, Answers) : new[i].draft.disposition = ResponseOf(c, b)
    <2>1. /\ One(On(turns, b, {"asserted"})) /\ One(On(turns, b, {"challenged"}))
          /\ On(turns, b, Answers) = {}
        BY DEF Debated
    <2>2. PICK k \in DOMAIN drafts : \A i \in DOMAIN drafts : drafts[i].binding = b <=> i = k
        BY DEF OnePerBinding
    <2>3. \A x : ResponseOf(c, x) \in Answers
        BY DEF ResponseOf, Answers
    <2>4. On(new, b, Answers) = {Len(turns) + k}
        BY <2>1, <2>2, <2>3, OneOn
    <2>5. \A i \in DOMAIN drafts : drafts[i].disposition \notin {"asserted", "challenged"}
        BY <2>3 DEF Answers
    <2>6. On(new, b, {"asserted"}) = On(turns, b, {"asserted"})
          /\ On(new, b, {"challenged"}) = On(turns, b, {"challenged"})
        BY <2>5, NothingOn
    <2>7. \A i \in On(turns, b, {"challenged"}) : i < Len(turns) + k
        BY OnGrows, GrowthParts
    <2>8. new[Len(turns) + k].draft.disposition = ResponseOf(c, b)
        BY <2>2, GrowthParts
    <2> QED BY <2>1, <2>4, <2>6, <2>7, <2>8 DEF One
<1> QED BY <1>1 DEF Debated

\* The roles that have spoken are the old ones and those of the drafts.
LEMMA RolesGrow ==
    ASSUME NEW turns, NEW drafts, NEW new, Growth(turns, drafts, new)
    PROVE  /\ RolesHeard(turns) \subseteq RolesHeard(new)
           /\ \A k \in DOMAIN drafts : drafts[k].role \in RolesHeard(new)
PROOF
<1>1. \A i \in DOMAIN turns : i \in DOMAIN new /\ new[i] = turns[i]
    BY GrowthParts
<1>2. \A k \in DOMAIN drafts : \E i \in DOMAIN new : new[i].draft = drafts[k]
    BY GrowthParts
<1> QED BY <1>1, <1>2 DEF RolesHeard

\* The rulings are the old ones and those of the drafts.
LEMMA RulingsGrow ==
    ASSUME NEW turns, NEW drafts, NEW new, Growth(turns, drafts, new)
    PROVE  /\ \A i \in Rulings(turns) : i \in Rulings(new) /\ new[i] = turns[i]
           /\ \A i \in Rulings(new) \ Rulings(turns) :
                \E k \in DOMAIN drafts : i = Len(turns) + k /\ drafts[k].agent = "Authority"
           /\ \A k \in DOMAIN drafts : drafts[k].agent = "Authority" => Len(turns) + k \in Rulings(new)
PROOF
<1>1. \A i \in DOMAIN turns : i \in DOMAIN new /\ new[i] = turns[i]
    BY GrowthParts
<1>2. ASSUME NEW i \in Rulings(new) \ Rulings(turns)
      PROVE  \E k \in DOMAIN drafts : i = Len(turns) + k /\ drafts[k].agent = "Authority"
    <2>1. i \in DOMAIN new \ DOMAIN turns /\ new[i].draft.agent = "Authority"
        BY <1>1 DEF Rulings
    <2>2. PICK k \in DOMAIN drafts : i = Len(turns) + k
        BY <2>1, GrowthParts
    <2>3. new[i].draft = drafts[k]
        BY <2>2, GrowthParts
    <2> QED BY <2>1, <2>2, <2>3
<1>3. \A k \in DOMAIN drafts : Len(turns) + k \in DOMAIN new /\ new[Len(turns) + k].draft = drafts[k]
    BY GrowthParts
<1> QED BY <1>1, <1>2, <1>3 DEF Rulings

\* Turns that are no rulings keep what the audit looks for, and the roles their
\* stages ask for are among theirs.
LEMMA RecordedStays ==
    ASSUME NEW c, NEW turns, NEW drafts, NEW new, Growth(turns, drafts, new),
           NEW s \in Nat, NEW t \in Nat, Recorded(c, turns, s),
           \A k \in DOMAIN drafts : drafts[k].agent # "Authority",
           s >= 10 <=> t >= 10,
           t >= 4 => s >= 4 \/ \E k \in DOMAIN drafts : drafts[k].cites = Bindings(c),
           t >= 1 => s >= 1 \/ \E k \in DOMAIN drafts : drafts[k].role = "orchestrator",
           t >= 2 => s >= 2 \/ \E k \in DOMAIN drafts : drafts[k].role = "steward",
           t >= 3 => s >= 3 \/ \E k \in DOMAIN drafts : drafts[k].role = "investigator",
           t >= 7 => s >= 7 \/ \E k \in DOMAIN drafts : drafts[k].role = "skeptic"
    PROVE  Recorded(c, new, t)
PROOF
<1>1. Rulings(new) = Rulings(turns) /\ \A i \in Rulings(turns) : new[i] = turns[i]
    <2>1. \A i \in Rulings(turns) : i \in Rulings(new) /\ new[i] = turns[i]
        BY RulingsGrow
    <2>2. \A i \in Rulings(new) : i \in Rulings(turns)
        BY RulingsGrow
    <2> QED BY <2>1, <2>2
<1>2. /\ IF t >= 10 THEN One(Rulings(new)) ELSE Rulings(new) = {}
      /\ \A i \in Rulings(new) :
           new[i].draft.disposition = IF c.owner THEN "confirmed" ELSE "refused"
    BY <1>1 DEF Recorded
<1>3. t >= 4 => \E i \in DOMAIN new : new[i].draft.cites = Bindings(c)
    <2>1. \A i \in DOMAIN turns : i \in DOMAIN new /\ new[i] = turns[i]
        BY GrowthParts
    <2>2. \A k \in DOMAIN drafts : \E i \in DOMAIN new : new[i].draft = drafts[k]
        BY GrowthParts
    <2>3. s >= 4 => \E i \in DOMAIN turns : turns[i].draft.cites = Bindings(c)
        BY DEF Recorded
    <2> QED BY <2>1, <2>2, <2>3
<1>4. /\ t >= 1 => "orchestrator" \in RolesHeard(new)
      /\ t >= 2 => "steward" \in RolesHeard(new)
      /\ t >= 3 => "investigator" \in RolesHeard(new)
      /\ t >= 7 => "skeptic" \in RolesHeard(new)
      /\ t >= 10 => "authority" \in RolesHeard(new)
    BY RolesGrow DEF Recorded
<1> QED BY <1>2, <1>3, <1>4 DEF Recorded

\* The authority rules once, as the case says.
LEMMA RecordedRuled ==
    ASSUME NEW c, NEW turns, NEW d, NEW new, Growth(turns, <<d>>, new), Recorded(c, turns, 9),
           d.agent = "Authority", d.role = "authority",
           d.disposition = IF c.owner THEN "confirmed" ELSE "refused"
    PROVE  Recorded(c, new, 10)
PROOF
<1>0. DOMAIN <<d>> = {1} /\ <<d>>[1] = d
    OBVIOUS
<1>1. Rulings(turns) = {}
    BY DEF Recorded
<1>2. Rulings(new) = {Len(turns) + 1}
    BY <1>0, <1>1, RulingsGrow
<1>3. new[Len(turns) + 1].draft = d
    BY <1>0, GrowthParts
<1>4. \E i \in DOMAIN new : new[i].draft.cites = Bindings(c)
    <2>1. \A i \in DOMAIN turns : i \in DOMAIN new /\ new[i] = turns[i]
        BY GrowthParts
    <2> QED BY <2>1 DEF Recorded
<1>5. "authority" \in RolesHeard(new)
    BY <1>0, RolesGrow
<1>6. RolesHeard(turns) \subseteq RolesHeard(new)
    BY RolesGrow
<1> QED BY <1>2, <1>3, <1>4, <1>5, <1>6 DEF Recorded, One

-----------------------------------------------------------------------------
\* What each executor adds.

\* In a case that is heard there is a binding, and a verdict that has a branch;
\* in a conflict all bindings are challenged.
LEMMA ReadyCase ==
    ASSUME NEW c \in Cases, Ready(c)
    PROVE  /\ Bindings(c) # {} /\ c.verdict \in {"conflict", "consistent"}
           /\ c.verdict = "conflict" => ChallengeableBindings(c) = Bindings(c)
           /\ EarnedOutcome(c) = "refusal" <=> c.verdict = "conflict" /\ ~ c.owner
           /\ c.owner \in BOOLEAN
PROOF
<1>0. /\ c.results \in Seq(Seq(Nat)) /\ c.results # <<>>
      /\ c.verdict \in {"conflict", "consistent"} /\ c.owner \in BOOLEAN
      /\ c.verdict = IF \E l, r \in Bindings(c) : EntitySet(c, l) # EntitySet(c, r)
                     THEN "conflict" ELSE "consistent"
      /\ c.proposal <=> c.verdict = "conflict" /\ c.owner
      /\ c.refusal <=> c.verdict = "conflict" /\ ~c.owner
    BY CasesAssumption DEF CasesAssumption, Ready
<1>1. Bindings(c) # {}
    BY <1>0, EmptySeq, CaseResults
<1>2. ASSUME c.verdict = "conflict"
      PROVE  ChallengeableBindings(c) = Bindings(c)
    <2>1. PICK l \in Bindings(c), r \in Bindings(c) : EntitySet(c, l) # EntitySet(c, r)
        BY <1>0, <1>2
    <2> QED BY <2>1 DEF ChallengeableBindings
<1>3. EarnedOutcome(c) = "refusal" <=> c.verdict = "conflict" /\ ~ c.owner
    <2>1. CASE c.verdict = "consistent"
        BY <2>1 DEF EarnedOutcome
    <2>2. CASE c.verdict = "conflict" /\ c.owner
        BY <1>0, <2>2 DEF EarnedOutcome
    <2>3. CASE c.verdict = "conflict" /\ ~ c.owner
        BY <1>0, <2>3 DEF EarnedOutcome
    <2> QED BY <1>0, <2>1, <2>2, <2>3
<1> QED BY <1>0, <1>1, <1>2, <1>3

\* What a draft is.
LEMMA DraftParts ==
    ASSUME NEW round \in Nat, NEW agent \in Speakers, NEW role \in CourtRoles,
           NEW disposition \in Dispositions, NEW binding \in Nat, NEW cites \in SUBSET Nat
    PROVE  LET d == Draft(round, agent, role, disposition, binding, cites) IN
           /\ d \in Drafts /\ d.round = round /\ d.agent = agent /\ d.role = role
           /\ d.disposition = disposition /\ d.binding = binding /\ d.cites = cites
BY DEF Draft, Drafts

\* A role that speaks on each binding of S drafts one turn on each.
LEMMA PerBindingDrafts ==
    ASSUME NEW S \in SUBSET Nat, IsFiniteSet(S),
           NEW T, NEW drafts \in [1 .. Cardinality(S) -> T],
           \A i \in 1 .. Cardinality(S) : drafts[i] \in Drafts /\ drafts[i].binding = InOrder(S)[i]
    PROVE  /\ drafts \in Seq(Drafts) /\ OnePerBinding(drafts, S)
           /\ DOMAIN drafts = 1 .. Cardinality(S)
PROOF
<1>1. Cardinality(S) \in Nat /\ DOMAIN drafts = 1 .. Cardinality(S)
    BY Listed
<1>2. drafts \in Seq(Drafts)
    <2>1. drafts \in [1 .. Cardinality(S) -> Drafts]
        BY <1>1
    <2> QED BY <1>1, <2>1
<1>3. \A k \in DOMAIN drafts : drafts[k].binding \in S
    BY <1>1, Listed
<1>4. ASSUME NEW b \in S
      PROVE  \E k \in DOMAIN drafts : \A i \in DOMAIN drafts : drafts[i].binding = b <=> i = k
    <2>1. PICK k \in 1 .. Cardinality(S) : \A i \in 1 .. Cardinality(S) : InOrder(S)[i] = b <=> i = k
        BY Listed
    <2>2. k \in DOMAIN drafts /\ \A i \in DOMAIN drafts : drafts[i].binding = InOrder(S)[i]
        BY <1>1
    <2>3. \A i \in DOMAIN drafts : drafts[i].binding = b <=> i = k
        BY <1>1, <2>1, <2>2
    <2> QED BY <2>2, <2>3
<1> QED BY <1>1, <1>2, <1>3, <1>4 DEF OnePerBinding

\* The stewards speak once on each binding.
LEMMA StewardTurnsDrafts ==
    ASSUME NEW c \in Cases
    PROVE  /\ StewardTurns(c) \in Seq(Drafts) /\ OnePerBinding(StewardTurns(c), Bindings(c))
           /\ \A k \in DOMAIN StewardTurns(c) : LET d == StewardTurns(c)[k] IN
                d.round = 1 /\ d.role = "steward" /\ d.agent = "Steward"
                /\ d.disposition = "asserted" /\ d.cites \subseteq Bindings(c)
PROOF
<1>0. "Steward" \in Speakers /\ "steward" \in CourtRoles /\ \A b : "asserted" \in Dispositions
    BY DEF Speakers, CourtRoles, Dispositions, Answers, ResponseOf
<1> DEFINE drafts == StewardTurns(c)
           n == Cardinality(Bindings(c))
<1>1. Bindings(c) \in SUBSET Nat /\ IsFiniteSet(Bindings(c)) /\ Bindings(c) \subseteq Bindings(c)
    BY CaseResults, FS_Subset
<1>2. drafts \in [1 .. n -> {drafts[i] : i \in 1 .. n}]
    BY DEF StewardTurns, PerBinding
<1>3. ASSUME NEW i \in 1 .. n
      PROVE  /\ drafts[i] \in Drafts /\ drafts[i].binding = InOrder(Bindings(c))[i]
             /\ drafts[i].round = 1 /\ drafts[i].role = "steward" /\ drafts[i].agent = "Steward"
             /\ drafts[i].disposition = "asserted" /\ drafts[i].cites \subseteq Bindings(c)
    <2>1. PICK b \in Bindings(c) : b = InOrder(Bindings(c))[i]
        BY <1>1, Listed
    <2>2. drafts[i] = Draft(1, "Steward", "steward", "asserted", b, {b})
        BY <2>1 DEF StewardTurns, PerBinding
    <2>3. 1 \in Nat /\ b \in Nat /\ {b} \in SUBSET Nat /\ {b} \subseteq Bindings(c)
        BY <1>1
    <2> HIDE DEF drafts, n
    <2>4. /\ drafts[i] \in Drafts /\ drafts[i].round = 1 /\ drafts[i].agent = "Steward"
          /\ drafts[i].role = "steward" /\ drafts[i].disposition = "asserted"
          /\ drafts[i].binding = b /\ drafts[i].cites = {b}
        BY <1>0, <2>2, <2>3, DraftParts
    <2> QED BY <2>1, <2>3, <2>4
<1> HIDE DEF drafts
<1>4. /\ drafts \in Seq(Drafts) /\ OnePerBinding(drafts, Bindings(c)) /\ DOMAIN drafts = 1 .. n
    BY <1>1, <1>2, <1>3, PerBindingDrafts
<1> QED BY <1>3, <1>4 DEF drafts

\* The skeptic speaks once on each binding that is challenged.
LEMMA SkepticTurnsDrafts ==
    ASSUME NEW c \in Cases, NEW S \in SUBSET Bindings(c)
    PROVE  /\ SkepticTurns(c, S) \in Seq(Drafts) /\ OnePerBinding(SkepticTurns(c, S), S)
           /\ \A k \in DOMAIN SkepticTurns(c, S) : LET d == SkepticTurns(c, S)[k] IN
                d.round = 5 /\ d.role = "skeptic" /\ d.agent = "Skeptic"
                /\ d.disposition = "challenged" /\ d.cites \subseteq Bindings(c)
PROOF
<1>0. "Skeptic" \in Speakers /\ "skeptic" \in CourtRoles /\ \A b : "challenged" \in Dispositions
    BY DEF Speakers, CourtRoles, Dispositions, Answers, ResponseOf
<1> DEFINE drafts == SkepticTurns(c, S)
           n == Cardinality(S)
<1>1. S \in SUBSET Nat /\ IsFiniteSet(S) /\ S \subseteq Bindings(c)
    BY CaseResults, FS_Subset
<1>2. drafts \in [1 .. n -> {drafts[i] : i \in 1 .. n}]
    BY DEF SkepticTurns, PerBinding
<1>3. ASSUME NEW i \in 1 .. n
      PROVE  /\ drafts[i] \in Drafts /\ drafts[i].binding = InOrder(S)[i]
             /\ drafts[i].round = 5 /\ drafts[i].role = "skeptic" /\ drafts[i].agent = "Skeptic"
             /\ drafts[i].disposition = "challenged" /\ drafts[i].cites \subseteq Bindings(c)
    <2>1. PICK b \in S : b = InOrder(S)[i]
        BY <1>1, Listed
    <2>2. drafts[i] = Draft(5, "Skeptic", "skeptic", "challenged", b, {b})
        BY <2>1 DEF SkepticTurns, PerBinding
    <2>3. 5 \in Nat /\ b \in Nat /\ {b} \in SUBSET Nat /\ {b} \subseteq Bindings(c)
        BY <1>1
    <2> HIDE DEF drafts, n
    <2>4. /\ drafts[i] \in Drafts /\ drafts[i].round = 5 /\ drafts[i].agent = "Skeptic"
          /\ drafts[i].role = "skeptic" /\ drafts[i].disposition = "challenged"
          /\ drafts[i].binding = b /\ drafts[i].cites = {b}
        BY <1>0, <2>2, <2>3, DraftParts
    <2> QED BY <2>1, <2>3, <2>4
<1> HIDE DEF drafts
<1>4. /\ drafts \in Seq(Drafts) /\ OnePerBinding(drafts, S) /\ DOMAIN drafts = 1 .. n
    BY <1>1, <1>2, <1>3, PerBindingDrafts
<1> QED BY <1>3, <1>4 DEF drafts

\* The stewards answer once on each binding that was challenged.
LEMMA ResponseTurnsDrafts ==
    ASSUME NEW c \in Cases, NEW S \in SUBSET Bindings(c)
    PROVE  /\ ResponseTurns(c, S) \in Seq(Drafts) /\ OnePerBinding(ResponseTurns(c, S), S)
           /\ \A k \in DOMAIN ResponseTurns(c, S) : LET d == ResponseTurns(c, S)[k] IN
                d.round = 6 /\ d.role = "steward" /\ d.agent = "Steward"
                /\ d.disposition = ResponseOf(c, d.binding) /\ d.cites \subseteq Bindings(c)
PROOF
<1>0. "Steward" \in Speakers /\ "steward" \in CourtRoles /\ \A b : ResponseOf(c, b) \in Dispositions
    BY DEF Speakers, CourtRoles, Dispositions, Answers, ResponseOf
<1> DEFINE drafts == ResponseTurns(c, S)
           n == Cardinality(S)
<1>1. S \in SUBSET Nat /\ IsFiniteSet(S) /\ S \subseteq Bindings(c)
    BY CaseResults, FS_Subset
<1>2. drafts \in [1 .. n -> {drafts[i] : i \in 1 .. n}]
    BY DEF ResponseTurns, PerBinding
<1>3. ASSUME NEW i \in 1 .. n
      PROVE  /\ drafts[i] \in Drafts /\ drafts[i].binding = InOrder(S)[i]
             /\ drafts[i].round = 6 /\ drafts[i].role = "steward" /\ drafts[i].agent = "Steward"
             /\ drafts[i].disposition = ResponseOf(c, drafts[i].binding)
             /\ drafts[i].cites \subseteq Bindings(c)
    <2>1. PICK b \in S : b = InOrder(S)[i]
        BY <1>1, Listed
    <2>2. drafts[i] = Draft(6, "Steward", "steward", ResponseOf(c, b), b, {b})
        BY <2>1 DEF ResponseTurns, PerBinding
    <2>3. 6 \in Nat /\ b \in Nat /\ {b} \in SUBSET Nat /\ {b} \subseteq Bindings(c)
        BY <1>1
    <2> HIDE DEF drafts, n
    <2>4. /\ drafts[i] \in Drafts /\ drafts[i].round = 6 /\ drafts[i].agent = "Steward"
          /\ drafts[i].role = "steward" /\ drafts[i].disposition = ResponseOf(c, b)
          /\ drafts[i].binding = b /\ drafts[i].cites = {b}
        BY <1>0, <2>2, <2>3, DraftParts
    <2> QED BY <2>1, <2>3, <2>4
<1> HIDE DEF drafts
<1>4. /\ drafts \in Seq(Drafts) /\ OnePerBinding(drafts, S) /\ DOMAIN drafts = 1 .. n
    BY <1>1, <1>2, <1>3, PerBindingDrafts
<1> QED BY <1>3, <1>4 DEF drafts

\* Turns on no binding, of one round, that are neither a ruling nor the closing.
LEMMA HeardQuiet ==
    ASSUME NEW c \in Cases, NEW turns, NEW drafts, NEW new, Growth(turns, drafts, new),
           NEW s \in Nat, NEW t \in Nat, NEW r \in Nat, HeardSoFar(c, turns, s),
           s <= t, s <= r + 1, r < t, t # AfterAudit,
           \A k \in DOMAIN drafts : /\ drafts[k].round = r /\ drafts[k].binding = NoBinding
                                    /\ drafts[k].cites \subseteq Bindings(c)
                                    /\ drafts[k].agent # "Authority",
           s >= 2 <=> t >= 2, Same7(c, s, t), Same8(c, s, t), s >= 10 <=> t >= 10,
           t >= 4 => s >= 4 \/ \E k \in DOMAIN drafts : drafts[k].cites = Bindings(c),
           t >= 1 => s >= 1 \/ \E k \in DOMAIN drafts : drafts[k].role = "orchestrator",
           t >= 3 => s >= 3 \/ \E k \in DOMAIN drafts : drafts[k].role = "investigator",
           t >= 7 => s >= 7 \/ \E k \in DOMAIN drafts : drafts[k].role = "skeptic"
    PROVE  HeardSoFar(c, new, t)
PROOF
<1>1. new \in Seq(Turns) /\ NoBinding \notin Bindings(c)
    BY CaseResults DEF Growth
<1>2. Numbered(c, new, t)
    <2>1. Numbered(c, turns, s)
        BY DEF HeardSoFar
    <2>2. OfRound(c, drafts, r)
        BY DEF OfRound
    <2> QED BY <2>1, <2>2, NumberedGrows
<1>3. Debated(c, new, t)
    BY <1>1, DebatedStays DEF HeardSoFar
<1>4. Recorded(c, new, t)
    <2>1. Recorded(c, turns, s)
        BY DEF HeardSoFar
    <2>2. t >= 2 => s >= 2 \/ \E k \in DOMAIN drafts : drafts[k].role = "steward"
        OBVIOUS
    <2>3. \A k \in DOMAIN drafts : drafts[k].agent # "Authority"
        OBVIOUS
    <2> QED BY <2>1, <2>2, <2>3, RecordedStays
<1>5. Closed(c, new, t)
    BY DEF Closed
<1> QED BY <1>1, <1>2, <1>3, <1>4, <1>5 DEF HeardSoFar

\* The same of a single turn.
LEMMA HeardOne ==
    ASSUME NEW c \in Cases, NEW turns, NEW d, NEW new, Growth(turns, <<d>>, new),
           NEW s \in Nat, NEW t \in Nat, HeardSoFar(c, turns, s),
           d.round \in Nat, s <= t, s <= d.round + 1, d.round < t, t # AfterAudit,
           d.binding = NoBinding, d.cites \subseteq Bindings(c), d.agent # "Authority",
           s >= 2 <=> t >= 2, Same7(c, s, t), Same8(c, s, t), s >= 10 <=> t >= 10,
           t >= 4 => s >= 4 \/ d.cites = Bindings(c),
           t >= 1 => s >= 1 \/ d.role = "orchestrator",
           t >= 3 => s >= 3 \/ d.role = "investigator",
           t >= 7 => s >= 7 \/ d.role = "skeptic"
    PROVE  HeardSoFar(c, new, t)
PROOF
<1>1. DOMAIN <<d>> = {1} /\ <<d>>[1] = d
    OBVIOUS
<1>0. PICK r \in Nat : r = d.round
    OBVIOUS
<1>2. PICK drafts : drafts = <<d>>
    OBVIOUS
<1>3. \A k \in DOMAIN drafts : drafts[k] = d
    BY <1>1, <1>2
<1>4. 1 \in DOMAIN drafts
    BY <1>1, <1>2
<1> QED BY <1>0, <1>2, <1>3, <1>4, HeardQuiet

\* Drafts of one turn.
LEMMA SingleDrafts ==
    ASSUME NEW c \in Cases, NEW outcome
    PROVE  /\ Opening \in Seq(Drafts) /\ PlanTurn \in Seq(Drafts) /\ ReviewTurn(c) \in Seq(Drafts)
           /\ ReplanTurn(c) \in Seq(Drafts) /\ ConsensusTurn(c) \in Seq(Drafts)
           /\ ReflectionTurn(c) \in Seq(Drafts) /\ AuthorityTurn(c) \in Seq(Drafts)
           /\ ClosingTurn(outcome) \in Seq(Drafts) /\ <<>> \in Seq(Drafts)
           /\ Len(Opening) = 1 /\ Len(PlanTurn) = 1 /\ Len(ReviewTurn(c)) = 1
           /\ Len(ReplanTurn(c)) = 1 /\ Len(ConsensusTurn(c)) = 1 /\ Len(ReflectionTurn(c)) = 1
           /\ Len(AuthorityTurn(c)) = 1 /\ Len(ClosingTurn(outcome)) = 1
PROOF
<1>1. Bindings(c) \in SUBSET Nat /\ {} \in SUBSET Nat
    BY CaseResults
<1>2. \A d \in Drafts : <<d>> \in Seq(Drafts)
    OBVIOUS
<1>3. /\ Draft(0, "Coordinator", "orchestrator", "asserted", NoBinding, {}) \in Drafts
      /\ Draft(2, "Plan", "investigator", "asserted", NoBinding, {}) \in Drafts
    BY <1>1 DEF Draft, Drafts, Speakers, CourtRoles, Dispositions, NoBinding
<1>4. /\ Draft(3, "Review", "investigator", "confirmed", NoBinding, Bindings(c)) \in Drafts
      /\ Draft(4, "Replan", "investigator", "confirmed", NoBinding, Bindings(c)) \in Drafts
    BY <1>1 DEF Draft, Drafts, Speakers, CourtRoles, Dispositions, NoBinding
<1>5. /\ Draft(5, "Consensus", "skeptic", "confirmed", NoBinding, Bindings(c)) \in Drafts
      /\ Draft(7, "Reflection", "skeptic", "confirmed", NoBinding, Bindings(c)) \in Drafts
    BY <1>1 DEF Draft, Drafts, Speakers, CourtRoles, Dispositions, NoBinding
<1>6. \A d \in Dispositions :
      /\ Draft(8, "Authority", "authority", d, NoBinding, {}) \in Drafts
      /\ Draft(9, "Audit", "orchestrator", d, NoBinding, {}) \in Drafts
    BY <1>1 DEF Draft, Drafts, Speakers, CourtRoles, NoBinding
<1>7. /\ (IF c.owner THEN "confirmed" ELSE "refused") \in Dispositions
      /\ (IF outcome = "refusal" THEN "refused" ELSE "confirmed") \in Dispositions
    BY DEF Dispositions
<1> QED BY <1>2, <1>3, <1>4, <1>5, <1>6, <1>7
        DEF Opening, PlanTurn, ReviewTurn, ReplanTurn, ConsensusTurn, ReflectionTurn,
            AuthorityTurn, ClosingTurn

\* The opening.
LEMMA HeardOpening ==
    ASSUME NEW c \in Cases, NEW turns, NEW new, Growth(turns, Opening, new), HeardSoFar(c, turns, 0)
    PROVE  HeardSoFar(c, new, 1)
PROOF
<1> DEFINE d == Draft(0, "Coordinator", "orchestrator", "asserted", NoBinding, {})
<1>1. Opening = <<d>>
    BY DEF Opening
<1>2. /\ d.round = 0 /\ d.binding = NoBinding /\ d.cites = {} /\ d.agent # "Authority"
      /\ d.role = "orchestrator"
    BY DEF Draft
<1> HIDE DEF d
<1> QED BY <1>1, <1>2, HeardOne DEF Same7, Same8, AfterAudit

\* The plan.
LEMMA HeardPlan ==
    ASSUME NEW c \in Cases, NEW turns, NEW new, Growth(turns, PlanTurn, new), HeardSoFar(c, turns, 2)
    PROVE  HeardSoFar(c, new, 3)
PROOF
<1> DEFINE d == Draft(2, "Plan", "investigator", "asserted", NoBinding, {})
<1>1. PlanTurn = <<d>>
    BY DEF PlanTurn
<1>2. /\ d.round = 2 /\ d.binding = NoBinding /\ d.cites = {} /\ d.agent # "Authority"
      /\ d.role = "investigator"
    BY DEF Draft
<1> HIDE DEF d
<1> QED BY <1>1, <1>2, HeardOne DEF Same7, Same8, AfterAudit

\* The review of the evidence, followed by a re-plan or not.
LEMMA HeardReview ==
    ASSUME NEW c \in Cases, NEW turns, NEW new, Growth(turns, ReviewTurn(c), new),
           HeardSoFar(c, turns, 3), NEW t \in {4, 5}
    PROVE  HeardSoFar(c, new, t)
PROOF
<1> DEFINE d == Draft(3, "Review", "investigator", "confirmed", NoBinding, Bindings(c))
<1>1. ReviewTurn(c) = <<d>>
    BY DEF ReviewTurn
<1>2. /\ d.round = 3 /\ d.binding = NoBinding /\ d.cites = Bindings(c) /\ d.agent # "Authority"
    BY DEF Draft
<1> HIDE DEF d
<1> QED BY <1>1, <1>2, HeardOne DEF Same7, Same8, AfterAudit

\* The re-plan.
LEMMA HeardReplan ==
    ASSUME NEW c \in Cases, NEW turns, NEW new, Growth(turns, ReplanTurn(c), new),
           HeardSoFar(c, turns, 4)
    PROVE  HeardSoFar(c, new, 5)
PROOF
<1> DEFINE d == Draft(4, "Replan", "investigator", "confirmed", NoBinding, Bindings(c))
<1>1. ReplanTurn(c) = <<d>>
    BY DEF ReplanTurn
<1>2. /\ d.round = 4 /\ d.binding = NoBinding /\ d.cites = Bindings(c) /\ d.agent # "Authority"
    BY DEF Draft
<1> HIDE DEF d
<1> QED BY <1>1, <1>2, HeardOne DEF Same7, Same8, AfterAudit

\* The branch says nothing.
LEMMA HeardBranch ==
    ASSUME NEW c \in Cases, NEW turns, NEW new, Growth(turns, <<>>, new), HeardSoFar(c, turns, 5)
    PROVE  HeardSoFar(c, new, 6)
PROOF
<1>1. PICK drafts : drafts = <<>> /\ DOMAIN drafts = {}
    OBVIOUS
<1>2. PICK r \in Nat : r = 4
    OBVIOUS
<1> QED BY <1>1, <1>2, HeardQuiet DEF Same7, Same8, AfterAudit

\* An agreement is confirmed, and nobody is challenged.
LEMMA HeardConsensus ==
    ASSUME NEW c \in Cases, NEW turns, NEW new, Growth(turns, ConsensusTurn(c), new),
           HeardSoFar(c, turns, 6), c.verdict = "consistent"
    PROVE  HeardSoFar(c, new, 9)
PROOF
<1> DEFINE d == Draft(5, "Consensus", "skeptic", "confirmed", NoBinding, Bindings(c))
<1>1. ConsensusTurn(c) = <<d>>
    BY DEF ConsensusTurn
<1>2. /\ d.round = 5 /\ d.binding = NoBinding /\ d.cites = Bindings(c) /\ d.agent # "Authority"
      /\ d.role = "skeptic"
    BY DEF Draft
<1> HIDE DEF d
<1> QED BY <1>1, <1>2, HeardOne DEF Same7, Same8, AfterAudit

\* The reflection.
LEMMA HeardReflection ==
    ASSUME NEW c \in Cases, NEW turns, NEW new, Growth(turns, ReflectionTurn(c), new),
           HeardSoFar(c, turns, 8)
    PROVE  HeardSoFar(c, new, 9)
PROOF
<1> DEFINE d == Draft(7, "Reflection", "skeptic", "confirmed", NoBinding, Bindings(c))
<1>1. ReflectionTurn(c) = <<d>>
    BY DEF ReflectionTurn
<1>2. /\ d.round = 7 /\ d.binding = NoBinding /\ d.cites = Bindings(c) /\ d.agent # "Authority"
    BY DEF Draft
<1> HIDE DEF d
<1> QED BY <1>1, <1>2, HeardOne DEF Same7, Same8, AfterAudit

\* The stewards' assertions.
LEMMA HeardStewards ==
    ASSUME NEW c \in Cases, Ready(c), NEW turns, NEW new, Growth(turns, StewardTurns(c), new),
           HeardSoFar(c, turns, 1)
    PROVE  HeardSoFar(c, new, 2)
PROOF
<1>1. PICK drafts : drafts = StewardTurns(c)
    OBVIOUS
<1>2. /\ OnePerBinding(drafts, Bindings(c)) /\ Growth(turns, drafts, new)
      /\ \A k \in DOMAIN drafts :
           /\ drafts[k].round = 1 /\ drafts[k].role = "steward" /\ drafts[k].agent = "Steward"
           /\ drafts[k].disposition = "asserted" /\ drafts[k].cites \subseteq Bindings(c)
    BY <1>1, StewardTurnsDrafts
<1>3. \E k \in DOMAIN drafts : drafts[k].role = "steward"
    BY <1>2, ReadyCase DEF OnePerBinding
<1>4. Numbered(c, new, 2)
    <2>1. OfRound(c, drafts, 1) /\ Numbered(c, turns, 1)
        BY <1>2 DEF OfRound, HeardSoFar
    <2> QED BY <1>2, <2>1, NumberedGrows
<1>5. Debated(c, new, 2)
    BY <1>2, DebatedAsserted DEF HeardSoFar
<1>6. Recorded(c, new, 2)
    <2>1. Recorded(c, turns, 1) /\ \A k \in DOMAIN drafts : drafts[k].agent # "Authority"
        BY <1>2 DEF HeardSoFar
    <2> QED BY <1>2, <1>3, <2>1, RecordedStays
<1>7. new \in Seq(Turns) /\ Closed(c, new, 2)
    BY <1>2 DEF Growth, Closed, AfterAudit
<1> QED BY <1>4, <1>5, <1>6, <1>7 DEF HeardSoFar

\* The skeptic's challenges.
LEMMA HeardSkeptics ==
    ASSUME NEW c \in Cases, Ready(c), c.verdict = "conflict", NEW turns, NEW new,
           Growth(turns, SkepticTurns(c, ChallengeableBindings(c)), new), HeardSoFar(c, turns, 6)
    PROVE  HeardSoFar(c, new, 7)
PROOF
<1>1. PICK drafts : drafts = SkepticTurns(c, ChallengeableBindings(c))
    OBVIOUS
<1>2. /\ OnePerBinding(drafts, Bindings(c)) /\ Growth(turns, drafts, new)
      /\ \A k \in DOMAIN drafts :
           /\ drafts[k].round = 5 /\ drafts[k].role = "skeptic" /\ drafts[k].agent = "Skeptic"
           /\ drafts[k].disposition = "challenged" /\ drafts[k].cites \subseteq Bindings(c)
    BY <1>1, ReadyCase, SkepticTurnsDrafts
<1>3. \E k \in DOMAIN drafts : drafts[k].role = "skeptic"
    BY <1>2, ReadyCase DEF OnePerBinding
<1>4. Numbered(c, new, 7)
    <2>1. OfRound(c, drafts, 5) /\ Numbered(c, turns, 6)
        BY <1>2 DEF OfRound, HeardSoFar
    <2> QED BY <1>2, <2>1, NumberedGrows
<1>5. Debated(c, new, 7)
    BY <1>2, DebatedChallenged DEF HeardSoFar
<1>6. Recorded(c, new, 7)
    <2>1. Recorded(c, turns, 6) /\ \A k \in DOMAIN drafts : drafts[k].agent # "Authority"
        BY <1>2 DEF HeardSoFar
    <2> QED BY <1>2, <1>3, <2>1, RecordedStays
<1>7. new \in Seq(Turns) /\ Closed(c, new, 7)
    BY <1>2 DEF Growth, Closed, AfterAudit
<1> QED BY <1>4, <1>5, <1>6, <1>7 DEF HeardSoFar

\* The stewards' answers.
LEMMA HeardAnswers ==
    ASSUME NEW c \in Cases, Ready(c), c.verdict = "conflict", NEW turns, NEW new,
           Growth(turns, ResponseTurns(c, ChallengeableBindings(c)), new), HeardSoFar(c, turns, 7)
    PROVE  HeardSoFar(c, new, 8)
PROOF
<1>1. PICK drafts : drafts = ResponseTurns(c, ChallengeableBindings(c))
    OBVIOUS
<1>2. /\ OnePerBinding(drafts, Bindings(c)) /\ Growth(turns, drafts, new)
      /\ \A k \in DOMAIN drafts :
           /\ drafts[k].round = 6 /\ drafts[k].role = "steward" /\ drafts[k].agent = "Steward"
           /\ drafts[k].disposition = ResponseOf(c, drafts[k].binding)
           /\ drafts[k].cites \subseteq Bindings(c)
    BY <1>1, ReadyCase, ResponseTurnsDrafts
<1>4. Numbered(c, new, 8)
    <2>1. OfRound(c, drafts, 6) /\ Numbered(c, turns, 7)
        BY <1>2 DEF OfRound, HeardSoFar
    <2> QED BY <1>2, <2>1, NumberedGrows
<1>5. Debated(c, new, 8)
    BY <1>2, DebatedAnswered DEF HeardSoFar
<1>6. Recorded(c, new, 8)
    <2>1. Recorded(c, turns, 7) /\ \A k \in DOMAIN drafts : drafts[k].agent # "Authority"
        BY <1>2 DEF HeardSoFar
    <2> QED BY <1>2, <2>1, RecordedStays
<1>7. new \in Seq(Turns) /\ Closed(c, new, 8)
    BY <1>2 DEF Growth, Closed, AfterAudit
<1> QED BY <1>4, <1>5, <1>6, <1>7 DEF HeardSoFar

\* The ruling.
LEMMA HeardAuthority ==
    ASSUME NEW c \in Cases, NEW turns, NEW new, Growth(turns, AuthorityTurn(c), new),
           HeardSoFar(c, turns, 9)
    PROVE  HeardSoFar(c, new, 10)
PROOF
<1> DEFINE d == Draft(8, "Authority", "authority",
                      IF c.owner THEN "confirmed" ELSE "refused", NoBinding, {})
<1>1. AuthorityTurn(c) = <<d>>
    BY DEF AuthorityTurn
<1>2. /\ d.round = 8 /\ d.binding = NoBinding /\ d.cites = {} /\ d.agent = "Authority"
      /\ d.role = "authority" /\ d.disposition = IF c.owner THEN "confirmed" ELSE "refused"
    BY DEF Draft
<1> HIDE DEF d
<1>3. PICK drafts : drafts = <<d>> /\ \A k \in DOMAIN drafts : drafts[k] = d
    <2>1. \A k \in DOMAIN <<d>> : <<d>>[k] = d
        OBVIOUS
    <2> QED BY <2>1
<1>g. Growth(turns, drafts, new) /\ Growth(turns, <<d>>, new)
    BY <1>1, <1>3
<1>4. Numbered(c, new, 10)
    <2>1. OfRound(c, drafts, 8) /\ Numbered(c, turns, 9)
        BY <1>2, <1>3 DEF OfRound, HeardSoFar
    <2> QED BY <1>g, <2>1, NumberedGrows
<1>5. Debated(c, new, 10)
    <2>1. Debated(c, turns, 9) /\ NoBinding \notin Bindings(c)
        BY CaseResults DEF HeardSoFar
    <2>2. \A k \in DOMAIN drafts : drafts[k].binding = NoBinding
        BY <1>2, <1>3
    <2> QED BY <1>g, <2>1, <2>2, DebatedStays DEF Same7, Same8
<1>6. Recorded(c, new, 10)
    <2>1. Recorded(c, turns, 9)
        BY DEF HeardSoFar
    <2> QED BY <1>2, <1>g, <2>1, RecordedRuled
<1>7. new \in Seq(Turns) /\ Closed(c, new, 10)
    BY <1>g DEF Growth, Closed, AfterAudit
<1> QED BY <1>4, <1>5, <1>6, <1>7 DEF HeardSoFar

\* The closing, which says what the case earned.
LEMMA HeardClosing ==
    ASSUME NEW c \in Cases, NEW turns, NEW new,
           Growth(turns, ClosingTurn(EarnedOutcome(c)), new), HeardSoFar(c, turns, 10)
    PROVE  HeardSoFar(c, new, AfterAudit)
PROOF
<1> DEFINE d == Draft(9, "Audit", "orchestrator",
                      IF EarnedOutcome(c) = "refusal" THEN "refused" ELSE "confirmed", NoBinding, {})
<1>0. AfterAudit = 11
    BY DEF AfterAudit
<1>1. ClosingTurn(EarnedOutcome(c)) = <<d>>
    BY DEF ClosingTurn
<1>2. /\ d.round = 9 /\ d.binding = NoBinding /\ d.cites = {} /\ d.agent = "Audit"
      /\ d.disposition = IF EarnedOutcome(c) = "refusal" THEN "refused" ELSE "confirmed"
    BY DEF Draft
<1> HIDE DEF d
<1>3. PICK drafts : drafts = <<d>> /\ Len(drafts) = 1 /\ \A k \in DOMAIN drafts : drafts[k] = d
    <2>1. Len(<<d>>) = 1 /\ \A k \in DOMAIN <<d>> : <<d>>[k] = d
        OBVIOUS
    <2> QED BY <2>1
<1>g. Growth(turns, drafts, new)
    BY <1>1, <1>3
<1>4. Numbered(c, new, 11)
    <2>1. OfRound(c, drafts, 9) /\ Numbered(c, turns, 10)
        BY <1>2, <1>3 DEF OfRound, HeardSoFar
    <2> QED BY <1>g, <2>1, NumberedGrows
<1>5. Debated(c, new, 11)
    <2>1. Debated(c, turns, 10) /\ NoBinding \notin Bindings(c)
        BY CaseResults DEF HeardSoFar
    <2>2. \A k \in DOMAIN drafts : drafts[k].binding = NoBinding
        BY <1>2, <1>3
    <2> QED BY <1>g, <2>1, <2>2, DebatedStays DEF Same7, Same8
<1>6. Recorded(c, new, 11)
    <2>1. Recorded(c, turns, 10) /\ \A k \in DOMAIN drafts : drafts[k].agent # "Authority"
        BY <1>2, <1>3 DEF HeardSoFar
    <2> QED BY <1>g, <2>1, RecordedStays
<1>7. new \in Seq(Turns) /\ Closed(c, new, 11)
    <2>1. /\ new \in Seq(Turns) /\ Len(new) = Len(turns) + 1 /\ Len(turns) \in Nat
          /\ new[Len(turns) + 1].draft = d
        BY <1>3, <1>g, GrowthParts DEF Growth
    <2>2. new # <<>>
        BY <2>1
    <2>3. new[Len(new)].draft = d
        BY <2>1
    <2> QED BY <1>2, <2>1, <2>2, <2>3 DEF Closed
<1> QED BY <1>0, <1>4, <1>5, <1>6, <1>7 DEF HeardSoFar

-----------------------------------------------------------------------------
\* The steps of the hearing.

\* Whatever a model says, at most one more turn is odd, and none if no more may be.
LEMMA Narrated ==
    ASSUME NEW n \in Nat, NEW k \in Nat, NEW said \in Narrations(n, k)
    PROVE  /\ DOMAIN said = 1 .. n
           /\ \A i \in 1 .. n : said[i] \in {Reviewed, Generated} \union Oddities
           /\ Cardinality({i \in DOMAIN said : said[i] # Usual}) \in 0 .. k
PROOF
<1> DEFINE strange == {i \in DOMAIN said : said[i] # Usual}
<1>0. Usual \in {Reviewed, Generated}
    BY DEF Usual
<1>1. CASE said = [i \in 1 .. n |-> Usual]
    <2>1. strange = {}
        BY <1>1
    <2> HIDE DEF strange
    <2>2. Cardinality(strange) = 0
        BY <2>1, FS_EmptySet
    <2> QED BY <1>0, <1>1, <2>2 DEF strange
<1>2. CASE k # 0 /\ \E j \in 1 .. n, o \in Oddities :
                      said = [i \in 1 .. n |-> IF i = j THEN o ELSE Usual]
    <2>1. PICK j \in 1 .. n, o \in Oddities : said = [i \in 1 .. n |-> IF i = j THEN o ELSE Usual]
        BY <1>2
    <2>2. strange \in SUBSET {j}
        BY <2>1
    <2>3. DOMAIN said = 1 .. n /\ \A i \in 1 .. n : said[i] \in {Reviewed, Generated} \union Oddities
        BY <1>0, <2>1
    <2> HIDE DEF strange
    <2>4. IsFiniteSet({j}) /\ Cardinality({j}) = 1
        BY FS_Singleton
    <2>5. Cardinality(strange) <= 1 /\ IsFiniteSet(strange)
        BY <2>2, <2>4, FS_Subset
    <2>6. Cardinality(strange) \in Nat
        BY <2>5, FS_CardinalityType
    <2>7. Cardinality(strange) \in 0 .. k
        BY <1>2, <2>5, <2>6
    <2> QED BY <2>3, <2>7 DEF strange
<1> QED BY <1>1, <1>2 DEF Narrations

\* The trace grows by one node.
LEMMA TraceGrows ==
    ASSUME NEW c, NEW trace, NEW s \in Nat, NEW t \in Nat, Traced(c, trace, s), s < t,
           NEW node \in Nodes \ {"none"}
    PROVE  /\ Append(trace, node) \in Seq(Nodes \ {"none"}) /\ Len(Append(trace, node)) <= t
           /\ node # "Replan" => ReplanAt(Append(trace, node)) = ReplanAt(trace)
           /\ node = "Replan" => ReplanAt(Append(trace, node)) = ReplanAt(trace) \union {Len(trace) + 1}
PROOF
<1> DEFINE next == Append(trace, node)
<1>1. trace \in Seq(Nodes \ {"none"}) /\ Len(trace) \in Nat /\ DOMAIN trace = 1 .. Len(trace)
      /\ Len(trace) <= s
    BY LenProperties DEF Traced
<1>2. /\ next \in Seq(Nodes \ {"none"}) /\ Len(next) = Len(trace) + 1
      /\ \A i \in 1 .. Len(trace) : next[i] = trace[i]
      /\ next[Len(trace) + 1] = node
    BY <1>1, AppendProperties
<1> HIDE DEF next
<1>3. DOMAIN next = (1 .. Len(trace)) \union {Len(trace) + 1}
    <2>1. DOMAIN next = 1 .. Len(trace) + 1
        BY <1>1, <1>2, LenProperties
    <2> QED BY <1>1, <2>1
<1>4. /\ node # "Replan" => ReplanAt(next) = ReplanAt(trace)
      /\ node = "Replan" => ReplanAt(next) = ReplanAt(trace) \union {Len(trace) + 1}
    BY <1>1, <1>2, <1>3 DEF ReplanAt
<1>5. Len(next) <= t
    BY <1>1, <1>2
<1> QED BY <1>2, <1>4, <1>5 DEF next

\* A node that is no re-plan leaves the trace as the next stage has it, if the
\* re-plan is not just due.
LEMMA TracedOn ==
    ASSUME NEW c, NEW trace, NEW s \in Nat, NEW t \in Nat, Traced(c, trace, s), s < t,
           NEW node \in Nodes \ {"none"}, node # "Replan",
           NeedsTargetedReplan(c) => (s >= 5 <=> t >= 5)
    PROVE  Traced(c, Append(trace, node), t)
PROOF
<1>1. /\ Append(trace, node) \in Seq(Nodes \ {"none"}) /\ Len(Append(trace, node)) <= t
      /\ ReplanAt(Append(trace, node)) = ReplanAt(trace)
    BY TraceGrows
<1>2. IF s >= 5 /\ NeedsTargetedReplan(c) THEN One(ReplanAt(trace)) ELSE ReplanAt(trace) = {}
    BY DEF Traced
<1>3. IF t >= 5 /\ NeedsTargetedReplan(c) THEN One(ReplanAt(trace)) ELSE ReplanAt(trace) = {}
    BY <1>2
<1> QED BY <1>1, <1>3 DEF Traced

\* The board an executor makes, whatever is said.
LEMMA ExecutorRuns ==
    ASSUME CourtInv, court.node # "none", NEW drafts \in Seq(Drafts),
           NEW said \in Narrations(Len(drafts), MaxOdd - odd),
           odd' = odd + Cardinality({i \in DOMAIN said : said[i] # Usual})
    PROVE  /\ odd' \in 0 .. MaxOdd
           /\ \E turns \in Seq(Turns), trace \in Seq(Nodes \ {"none"}) :
                /\ Advanced(drafts, said) = [court EXCEPT !.turns = turns, !.trace = trace]
                /\ trace = Append(court.trace, court.node)
                /\ Growth(court.turns, drafts, turns)
PROOF
<1>1. /\ court.turns \in Seq(Turns) /\ court.trace \in Seq(Nodes \ {"none"})
      /\ court.node \in Nodes \ {"none"} /\ odd \in Nat /\ MaxOdd \in Nat /\ odd <= MaxOdd
    BY CasesAssumption DEF CourtInv, Boards, CasesAssumption
<1>2. Len(drafts) \in Nat /\ MaxOdd - odd \in Nat
    BY <1>1, LenProperties
<1>3. /\ \A i \in 1 .. Len(drafts) : said[i] \in {Reviewed, Generated} \union Oddities
      /\ Cardinality({i \in DOMAIN said : said[i] # Usual}) \in 0 .. MaxOdd - odd
    BY <1>2, Narrated
<1>4. odd' \in 0 .. MaxOdd
    BY <1>1, <1>3
<1>5. PICK turns : turns = court.turns \o Voiced(drafts, said, Len(court.turns))
    OBVIOUS
<1>6. Growth(court.turns, drafts, turns)
    BY <1>1, <1>3, <1>5, VoicedGrow
<1>7. PICK trace : trace = Append(court.trace, court.node)
    OBVIOUS
<1>8. trace \in Seq(Nodes \ {"none"})
    BY <1>1, <1>7, AppendProperties
<1>9. Advanced(drafts, said) = [court EXCEPT !.turns = turns, !.trace = trace]
    BY <1>5, <1>7 DEF Advanced
<1> QED BY <1>4, <1>6, <1>7, <1>8, <1>9 DEF Growth

\* The edges that are open from each node.
LEMMA NextNodes ==
    ASSUME NEW board
    PROVE  /\ Successors("Coordinator", board) = {"Panel"}
           /\ Successors("Panel", board) = {"Plan"}
           /\ Successors("Plan", board) = {"Review"}
           /\ board.replan => Successors("Review", board) = {"Replan"}
           /\ ~ board.replan => Successors("Review", board) = {"Branch"}
           /\ Successors("Replan", board) = {"Branch"}
           /\ case.verdict = "conflict" => Successors("Branch", board) = {"Skeptic"}
           /\ case.verdict = "consistent" => Successors("Branch", board) = {"Consensus"}
           /\ Successors("Skeptic", board) = {"Response"}
           /\ Successors("Response", board) = {"Reflection"}
           /\ Successors("Reflection", board) = {"Authority"}
           /\ Successors("Consensus", board) = {"Authority"}
           /\ Successors("Authority", board) = {"Audit"}
PROOF
<1>1. \A n : n \in Successors("Coordinator", board) <=> n = "Panel"
    BY DEF Successors, Edges, Open
<1>2. \A n : n \in Successors("Panel", board) <=> n = "Plan"
    BY DEF Successors, Edges, Open
<1>3. \A n : n \in Successors("Plan", board) <=> n = "Review"
    BY DEF Successors, Edges, Open
<1>4. board.replan => \A n : n \in Successors("Review", board) <=> n = "Replan"
    BY DEF Successors, Edges, Open
<1>5. ~ board.replan => \A n : n \in Successors("Review", board) <=> n = "Branch"
    BY DEF Successors, Edges, Open
<1>6. \A n : n \in Successors("Replan", board) <=> n = "Branch"
    BY DEF Successors, Edges, Open
<1>7. case.verdict = "conflict" => \A n : n \in Successors("Branch", board) <=> n = "Skeptic"
    BY DEF Successors, Edges, Open
<1>8. case.verdict = "consistent" => \A n : n \in Successors("Branch", board) <=> n = "Consensus"
    BY DEF Successors, Edges, Open
<1>9. \A n : n \in Successors("Skeptic", board) <=> n = "Response"
    BY DEF Successors, Edges, Open
<1>10. \A n : n \in Successors("Response", board) <=> n = "Reflection"
    BY DEF Successors, Edges, Open
<1>11. \A n : n \in Successors("Reflection", board) <=> n = "Authority"
    BY DEF Successors, Edges, Open
<1>12. \A n : n \in Successors("Consensus", board) <=> n = "Authority"
    BY DEF Successors, Edges, Open
<1>13. \A n : n \in Successors("Authority", board) <=> n = "Audit"
    BY DEF Successors, Edges, Open
<1> QED BY <1>1, <1>2, <1>3, <1>4, <1>5, <1>6, <1>7, <1>8, <1>9, <1>10, <1>11, <1>12, <1>13

\* With one edge open the board is sent along it.
LEMMA SentOn ==
    ASSUME NEW board, Send(board), NEW n, Successors(court.node, board) = {n}
    PROVE  court' = [board EXCEPT !.node = n] /\ answer' = answer
BY DEF Send

\* The board an executor sends on, but for what it says of the re-plan and the
\* challenges: the turns it drafted are added, and the node it ran at.
Ran(drafts, board) ==
    /\ board \in Boards(case) /\ board.truth = court.truth /\ board.outcome = court.outcome
    /\ board.challenged = court.challenged
    /\ Growth(court.turns, drafts, board.turns)
    /\ board.trace = Append(court.trace, court.node)

\* Whatever is said, the advanced board is such a one.
LEMMA Advances ==
    ASSUME CourtInv, court.node # "none", NEW drafts \in Seq(Drafts),
           NEW said \in Narrations(Len(drafts), MaxOdd - odd),
           odd' = odd + Cardinality({i \in DOMAIN said : said[i] # Usual})
    PROVE  odd' \in 0 .. MaxOdd /\ Ran(drafts, Advanced(drafts, said))
PROOF
<1>1. odd' \in 0 .. MaxOdd
    BY ExecutorRuns
<1>2. PICK turns \in Seq(Turns), trace \in Seq(Nodes \ {"none"}) :
        /\ Advanced(drafts, said) = [court EXCEPT !.turns = turns, !.trace = trace]
        /\ trace = Append(court.trace, court.node)
        /\ Growth(court.turns, drafts, turns)
    BY ExecutorRuns
<1>3. PICK board : board = [court EXCEPT !.turns = turns, !.trace = trace]
    OBVIOUS
<1>4. court \in Boards(case)
    BY DEF CourtInv
<1>5. /\ board \in Boards(case) /\ board.truth = court.truth /\ board.outcome = court.outcome
      /\ board.challenged = court.challenged /\ board.turns = turns /\ board.trace = trace
    BY <1>3, <1>4 DEF Boards
<1>6. Ran(drafts, board)
    BY <1>2, <1>5 DEF Ran
<1> QED BY <1>1, <1>2, <1>3, <1>6

\* What the invariant says of the node that is to run.
LEMMA Seated ==
    ASSUME CourtInv, court.node # "none"
    PROVE  /\ case \in Cases /\ Ready(case) /\ court \in Boards(case) /\ answer = NoAnswer
           /\ HeardSoFar(case, court.turns, Stage[court.node])
           /\ Traced(case, court.trace, Stage[court.node])
           /\ court.node \in Nodes \ {"none"}
           /\ court.truth = TruthDigest(case) /\ court.outcome = EarnedOutcome(case)
           /\ court.node \in {"Skeptic", "Response", "Reflection"} => case.verdict = "conflict"
           /\ court.node = "Consensus" => case.verdict = "consistent"
           /\ court.node = "Replan" => NeedsTargetedReplan(case)
           /\ court.node = "Response" => court.challenged = ChallengeableBindings(case)
BY DEF CourtInv, Sitting, Boards

\* The stages, and the nodes that have one.
LEMMA Stages ==
    /\ Stage["Coordinator"] = 0 /\ Stage["Panel"] = 1 /\ Stage["Plan"] = 2
    /\ Stage["Review"] = 3 /\ Stage["Replan"] = 4 /\ Stage["Branch"] = 5
    /\ Stage["Skeptic"] = 6 /\ Stage["Consensus"] = 6 /\ Stage["Response"] = 7
    /\ Stage["Reflection"] = 8 /\ Stage["Authority"] = 9 /\ Stage["Audit"] = 10
    /\ {"Coordinator", "Panel", "Plan", "Review", "Replan", "Branch", "Skeptic", "Consensus",
        "Response", "Reflection", "Authority", "Audit"} \subseteq Nodes \ {"none"}
BY DEF Stage, Nodes, Edges

\* The trace of such a board, if the re-plan was not to run.
LEMMA RanTraced ==
    ASSUME CourtInv, court.node # "none", court.node # "Replan", NEW drafts, NEW board,
           Ran(drafts, board)
    PROVE  \A t \in Nat : /\ Stage[court.node] < t
                          /\ NeedsTargetedReplan(case) => (Stage[court.node] >= 5 <=> t >= 5)
                          => Traced(case, board.trace, t)
PROOF
<1>0. PICK s \in Nat : s = Stage[court.node]
    BY Seated, Stages DEF Nodes, Edges
<1>1. Traced(case, court.trace, s) /\ court.node \in Nodes \ {"none"}
    BY <1>0, Seated
<1>2. board.trace = Append(court.trace, court.node)
    BY DEF Ran
<1> QED BY <1>0, <1>1, <1>2, TracedOn

\* A board that arrives at a node with what its stage has heard.
LEMMA Arrives ==
    ASSUME CourtInv, court.node # "none", UNCHANGED <<case, llm, answer>>, odd' \in 0 .. MaxOdd,
           NEW board \in Boards(case), board.truth = court.truth, board.outcome = court.outcome,
           NEW n \in Nodes \ {"none"}, court' = [board EXCEPT !.node = n],
           HeardSoFar(case, board.turns, Stage[n]), Traced(case, board.trace, Stage[n]),
           n \in {"Skeptic", "Response", "Reflection"} => case.verdict = "conflict",
           n = "Consensus" => case.verdict = "consistent",
           n = "Replan" => NeedsTargetedReplan(case),
           n = "Response" => board.challenged = ChallengeableBindings(case)
    PROVE  CourtInv'
PROOF
<1>1. /\ court' \in Boards(case) /\ court'.node = n /\ court'.outcome = board.outcome
      /\ court'.truth = board.truth /\ court'.turns = board.turns /\ court'.trace = board.trace
      /\ court'.challenged = board.challenged
    BY DEF Boards
<1>2. case \in Cases /\ llm \in {"disabled", "ollama"}
    BY DEF CourtInv
<1>3. Sitting(case, court')
    BY <1>1, Seated DEF Sitting
<1>4. case' = case /\ llm' = llm /\ answer' = NoAnswer /\ answer'.kind = "none"
    BY Seated DEF NoAnswer
<1>5. Answered'
    BY <1>4 DEF Answered
<1>6. (court \in Boards(case))' /\ Sitting(case, court)'
    BY <1>1, <1>3, <1>4
<1> QED BY <1>1, <1>2, <1>4, <1>5, <1>6 DEF CourtInv

\* The coordinator opens.
LEMMA CoordinateStep ==
    ASSUME CourtInv, Coordinate
    PROVE  CourtInv'
PROOF
<1>1. /\ court.node = "Coordinator" /\ UNCHANGED <<case, llm>>
      /\ \E said \in Narrations(Len(Opening), MaxOdd - odd) :
           /\ Send(Advanced(Opening, said))
           /\ odd' = odd + Cardinality({i \in DOMAIN said : said[i] # Usual})
    BY DEF Coordinate, Executor, Same
<1>2. Opening \in Seq(Drafts)
    BY <1>1, Seated, SingleDrafts
<1>3. PICK board : Ran(Opening, board) /\ Send(board) /\ odd' \in 0 .. MaxOdd
    BY <1>1, <1>2, Advances
<1>4. court' = [board EXCEPT !.node = "Panel"] /\ answer' = answer
    <2>1. Successors(court.node, board) = {"Panel"}
        BY <1>1, NextNodes
    <2> QED BY <1>3, <2>1, SentOn
<1>5. HeardSoFar(case, board.turns, 1)
    BY <1>1, <1>3, Seated, Stages, HeardOpening DEF Ran
<1>6. Traced(case, board.trace, 1)
    <2>1. court.node # "none" /\ court.node # "Replan" /\ Stage[court.node] = 0
        BY <1>1, Stages
    <2> QED BY <1>3, <2>1, RanTraced
<1> QED BY <1>1, <1>3, <1>4, <1>5, <1>6, Seated, Stages, Arrives DEF Ran

\* The panel of stewards.
LEMMA HearStewardsStep ==
    ASSUME CourtInv, HearStewards
    PROVE  CourtInv'
PROOF
<1>1. /\ court.node = "Panel" /\ UNCHANGED <<case, llm>>
      /\ \E said \in Narrations(Len(StewardTurns(case)), MaxOdd - odd) :
           /\ Send(Advanced(StewardTurns(case), said))
           /\ odd' = odd + Cardinality({i \in DOMAIN said : said[i] # Usual})
    BY DEF HearStewards, Executor, Same
<1>2. StewardTurns(case) \in Seq(Drafts)
    BY <1>1, Seated, StewardTurnsDrafts
<1>3. PICK board : Ran(StewardTurns(case), board) /\ Send(board) /\ odd' \in 0 .. MaxOdd
    BY <1>1, <1>2, Advances
<1>4. court' = [board EXCEPT !.node = "Plan"] /\ answer' = answer
    <2>1. Successors(court.node, board) = {"Plan"}
        BY <1>1, NextNodes
    <2> QED BY <1>3, <2>1, SentOn
<1>5. HeardSoFar(case, board.turns, 2)
    BY <1>1, <1>3, Seated, Stages, HeardStewards DEF Ran
<1>6. Traced(case, board.trace, 2)
    <2>1. court.node # "none" /\ court.node # "Replan" /\ Stage[court.node] = 1
        BY <1>1, Stages
    <2> QED BY <1>3, <2>1, RanTraced
<1> QED BY <1>1, <1>3, <1>4, <1>5, <1>6, Seated, Stages, Arrives DEF Ran

\* The plan.
LEMMA PlanHearingStep ==
    ASSUME CourtInv, PlanHearing
    PROVE  CourtInv'
PROOF
<1>1. /\ court.node = "Plan" /\ UNCHANGED <<case, llm>>
      /\ \E said \in Narrations(Len(PlanTurn), MaxOdd - odd) :
           /\ Send(Advanced(PlanTurn, said))
           /\ odd' = odd + Cardinality({i \in DOMAIN said : said[i] # Usual})
    BY DEF PlanHearing, Executor, Same
<1>2. PlanTurn \in Seq(Drafts)
    BY <1>1, Seated, SingleDrafts
<1>3. PICK board : Ran(PlanTurn, board) /\ Send(board) /\ odd' \in 0 .. MaxOdd
    BY <1>1, <1>2, Advances
<1>4. court' = [board EXCEPT !.node = "Review"] /\ answer' = answer
    <2>1. Successors(court.node, board) = {"Review"}
        BY <1>1, NextNodes
    <2> QED BY <1>3, <2>1, SentOn
<1>5. HeardSoFar(case, board.turns, 3)
    BY <1>1, <1>3, Seated, Stages, HeardPlan DEF Ran
<1>6. Traced(case, board.trace, 3)
    <2>1. court.node # "none" /\ court.node # "Replan" /\ Stage[court.node] = 2
        BY <1>1, Stages
    <2> QED BY <1>3, <2>1, RanTraced
<1> QED BY <1>1, <1>3, <1>4, <1>5, <1>6, Seated, Stages, Arrives DEF Ran

\* The stewards answer what was challenged.
LEMMA HearResponsesStep ==
    ASSUME CourtInv, HearResponses
    PROVE  CourtInv'
PROOF
<1>0. court.node = "Response" /\ court.challenged = ChallengeableBindings(case)
    BY Seated DEF HearResponses, Executor
<1>1. /\ court.node = "Response" /\ UNCHANGED <<case, llm>>
      /\ \E said \in Narrations(Len(ResponseTurns(case, ChallengeableBindings(case))), MaxOdd - odd) :
           /\ Send(Advanced(ResponseTurns(case, ChallengeableBindings(case)), said))
           /\ odd' = odd + Cardinality({i \in DOMAIN said : said[i] # Usual})
    BY <1>0 DEF HearResponses, Executor, Same
<1>2. ResponseTurns(case, ChallengeableBindings(case)) \in Seq(Drafts)
    BY <1>1, Seated, ReadyCase, ResponseTurnsDrafts
<1>3. PICK board : /\ Ran(ResponseTurns(case, ChallengeableBindings(case)), board)
                   /\ Send(board) /\ odd' \in 0 .. MaxOdd
    BY <1>1, <1>2, Advances
<1>4. court' = [board EXCEPT !.node = "Reflection"] /\ answer' = answer
    <2>1. Successors(court.node, board) = {"Reflection"}
        BY <1>1, NextNodes
    <2> QED BY <1>3, <2>1, SentOn
<1>5. HeardSoFar(case, board.turns, 8)
    BY <1>1, <1>3, Seated, Stages, HeardAnswers DEF Ran
<1>6. Traced(case, board.trace, 8)
    <2>1. court.node # "none" /\ court.node # "Replan" /\ Stage[court.node] = 7
        BY <1>1, Stages
    <2> QED BY <1>3, <2>1, RanTraced
<1> QED BY <1>1, <1>3, <1>4, <1>5, <1>6, Seated, Stages, Arrives DEF Ran

\* The reflection.
LEMMA ReflectStep ==
    ASSUME CourtInv, Reflect
    PROVE  CourtInv'
PROOF
<1>1. /\ court.node = "Reflection" /\ UNCHANGED <<case, llm>>
      /\ \E said \in Narrations(Len(ReflectionTurn(case)), MaxOdd - odd) :
           /\ Send(Advanced(ReflectionTurn(case), said))
           /\ odd' = odd + Cardinality({i \in DOMAIN said : said[i] # Usual})
    BY DEF Reflect, Executor, Same
<1>2. ReflectionTurn(case) \in Seq(Drafts)
    BY <1>1, Seated, SingleDrafts
<1>3. PICK board : Ran(ReflectionTurn(case), board) /\ Send(board) /\ odd' \in 0 .. MaxOdd
    BY <1>1, <1>2, Advances
<1>4. court' = [board EXCEPT !.node = "Authority"] /\ answer' = answer
    <2>1. Successors(court.node, board) = {"Authority"}
        BY <1>1, NextNodes
    <2> QED BY <1>3, <2>1, SentOn
<1>5. HeardSoFar(case, board.turns, 9)
    BY <1>1, <1>3, Seated, Stages, HeardReflection DEF Ran
<1>6. Traced(case, board.trace, 9)
    <2>1. court.node # "none" /\ court.node # "Replan" /\ Stage[court.node] = 8
        BY <1>1, Stages
    <2> QED BY <1>3, <2>1, RanTraced
<1> QED BY <1>1, <1>3, <1>4, <1>5, <1>6, Seated, Stages, Arrives DEF Ran

\* An agreement goes straight to the authority.
LEMMA ConfirmConsensusStep ==
    ASSUME CourtInv, ConfirmConsensus
    PROVE  CourtInv'
PROOF
<1>1. /\ court.node = "Consensus" /\ UNCHANGED <<case, llm>>
      /\ \E said \in Narrations(Len(ConsensusTurn(case)), MaxOdd - odd) :
           /\ Send(Advanced(ConsensusTurn(case), said))
           /\ odd' = odd + Cardinality({i \in DOMAIN said : said[i] # Usual})
    BY DEF ConfirmConsensus, Executor, Same
<1>2. ConsensusTurn(case) \in Seq(Drafts)
    BY <1>1, Seated, SingleDrafts
<1>3. PICK board : Ran(ConsensusTurn(case), board) /\ Send(board) /\ odd' \in 0 .. MaxOdd
    BY <1>1, <1>2, Advances
<1>4. court' = [board EXCEPT !.node = "Authority"] /\ answer' = answer
    <2>1. Successors(court.node, board) = {"Authority"}
        BY <1>1, NextNodes
    <2> QED BY <1>3, <2>1, SentOn
<1>5. HeardSoFar(case, board.turns, 9)
    BY <1>1, <1>3, Seated, Stages, HeardConsensus DEF Ran
<1>6. Traced(case, board.trace, 9)
    <2>1. court.node # "none" /\ court.node # "Replan" /\ Stage[court.node] = 6
        BY <1>1, Stages
    <2> QED BY <1>3, <2>1, RanTraced
<1> QED BY <1>1, <1>3, <1>4, <1>5, <1>6, Seated, Stages, Arrives DEF Ran

\* The authority rules.
LEMMA ResolveAuthorityStep ==
    ASSUME CourtInv, ResolveAuthority
    PROVE  CourtInv'
PROOF
<1>1. /\ court.node = "Authority" /\ UNCHANGED <<case, llm>>
      /\ \E said \in Narrations(Len(AuthorityTurn(case)), MaxOdd - odd) :
           /\ Send(Advanced(AuthorityTurn(case), said))
           /\ odd' = odd + Cardinality({i \in DOMAIN said : said[i] # Usual})
    BY DEF ResolveAuthority, Executor, Same
<1>2. AuthorityTurn(case) \in Seq(Drafts)
    BY <1>1, Seated, SingleDrafts
<1>3. PICK board : Ran(AuthorityTurn(case), board) /\ Send(board) /\ odd' \in 0 .. MaxOdd
    BY <1>1, <1>2, Advances
<1>4. court' = [board EXCEPT !.node = "Audit"] /\ answer' = answer
    <2>1. Successors(court.node, board) = {"Audit"}
        BY <1>1, NextNodes
    <2> QED BY <1>3, <2>1, SentOn
<1>5. HeardSoFar(case, board.turns, 10)
    BY <1>1, <1>3, Seated, Stages, HeardAuthority DEF Ran
<1>6. Traced(case, board.trace, 10)
    <2>1. court.node # "none" /\ court.node # "Replan" /\ Stage[court.node] = 9
        BY <1>1, Stages
    <2> QED BY <1>3, <2>1, RanTraced
<1> QED BY <1>1, <1>3, <1>4, <1>5, <1>6, Seated, Stages, Arrives DEF Ran

\* The skeptic challenges, and the challenges are noted.
LEMMA CrossExamineStep ==
    ASSUME CourtInv, CrossExamine
    PROVE  CourtInv'
PROOF
<1> DEFINE drafts == SkepticTurns(case, ChallengeableBindings(case))
<1>1. /\ court.node = "Skeptic" /\ UNCHANGED <<case, llm>>
      /\ \E said \in Narrations(Len(drafts), MaxOdd - odd) :
           /\ Send([Advanced(drafts, said) EXCEPT !.challenged = ChallengeableBindings(case)])
           /\ odd' = odd + Cardinality({i \in DOMAIN said : said[i] # Usual})
    BY DEF CrossExamine, Executor
<1>2. drafts \in Seq(Drafts) /\ ChallengeableBindings(case) \in SUBSET Bindings(case)
    BY <1>1, Seated, ReadyCase, SkepticTurnsDrafts
<1> HIDE DEF drafts
<1>3. PICK ran : /\ Ran(drafts, ran) /\ odd' \in 0 .. MaxOdd
                 /\ Send([ran EXCEPT !.challenged = ChallengeableBindings(case)])
    BY <1>1, <1>2, Advances
<1>4. PICK board : board = [ran EXCEPT !.challenged = ChallengeableBindings(case)]
    OBVIOUS
<1>5. /\ board \in Boards(case) /\ board.truth = court.truth /\ board.outcome = court.outcome
      /\ board.turns = ran.turns /\ board.trace = ran.trace
      /\ board.challenged = ChallengeableBindings(case)
    BY <1>2, <1>3, <1>4 DEF Ran, Boards
<1>6. court' = [board EXCEPT !.node = "Response"] /\ answer' = answer
    <2>1. Successors(court.node, board) = {"Response"}
        BY <1>1, NextNodes
    <2> QED BY <1>3, <1>4, <2>1, SentOn
<1>7. HeardSoFar(case, board.turns, 7)
    BY <1>1, <1>3, <1>5, Seated, Stages, HeardSkeptics DEF Ran, drafts
<1>8. Traced(case, board.trace, 7)
    <2>1. court.node # "none" /\ court.node # "Replan" /\ Stage[court.node] = 6
        BY <1>1, Stages
    <2> QED BY <1>3, <1>5, <2>1, RanTraced
<1> QED BY <1>1, <1>3, <1>5, <1>6, <1>7, <1>8, Seated, Stages, Arrives

\* The review leads to a re-plan if one is due.
LEMMA ReviewEvidenceStep ==
    ASSUME CourtInv, ReviewEvidence
    PROVE  CourtInv'
PROOF
<1>1. /\ court.node = "Review" /\ UNCHANGED <<case, llm>>
      /\ \E said \in Narrations(Len(ReviewTurn(case)), MaxOdd - odd) :
           /\ Send([Advanced(ReviewTurn(case), said) EXCEPT !.replan = NeedsTargetedReplan(case)])
           /\ odd' = odd + Cardinality({i \in DOMAIN said : said[i] # Usual})
    BY DEF ReviewEvidence, Executor
<1>2. ReviewTurn(case) \in Seq(Drafts) /\ NeedsTargetedReplan(case) \in BOOLEAN
    BY <1>1, Seated, SingleDrafts DEF NeedsTargetedReplan
<1>3. PICK ran : /\ Ran(ReviewTurn(case), ran) /\ odd' \in 0 .. MaxOdd
                 /\ Send([ran EXCEPT !.replan = NeedsTargetedReplan(case)])
    BY <1>1, <1>2, Advances
<1>4. PICK due \in BOOLEAN : due = NeedsTargetedReplan(case)
    BY <1>2
<1>5. PICK board : board = [ran EXCEPT !.replan = due]
    OBVIOUS
<1>6. /\ board \in Boards(case) /\ board.truth = court.truth /\ board.outcome = court.outcome
      /\ board.turns = ran.turns /\ board.trace = ran.trace /\ board.replan = due
    BY <1>3, <1>5 DEF Ran, Boards
<1>7. Send(board)
    BY <1>3, <1>4, <1>5
<1>8. CASE due
    <2>1. Successors(court.node, board) = {"Replan"}
        BY <1>1, <1>6, <1>8, NextNodes
    <2>2. court' = [board EXCEPT !.node = "Replan"] /\ answer' = answer
        BY <1>7, <2>1, SentOn
    <2>3. HeardSoFar(case, board.turns, 4)
        BY <1>1, <1>3, <1>6, Seated, Stages, HeardReview DEF Ran
    <2>4. Traced(case, board.trace, 4)
        <3>1. court.node # "none" /\ court.node # "Replan" /\ Stage[court.node] = 3
            BY <1>1, Stages
        <3> QED BY <1>3, <1>6, <3>1, RanTraced
    <2> QED BY <1>1, <1>3, <1>4, <1>6, <1>8, <2>2, <2>3, <2>4, Seated, Stages, Arrives
<1>9. CASE ~ due
    <2>1. Successors(court.node, board) = {"Branch"}
        BY <1>1, <1>6, <1>9, NextNodes
    <2>2. court' = [board EXCEPT !.node = "Branch"] /\ answer' = answer
        BY <1>7, <2>1, SentOn
    <2>3. HeardSoFar(case, board.turns, 5)
        BY <1>1, <1>3, <1>6, Seated, Stages, HeardReview DEF Ran
    <2>4. Traced(case, board.trace, 5)
        <3>1. court.node # "none" /\ court.node # "Replan" /\ Stage[court.node] = 3
            BY <1>1, Stages
        <3> QED BY <1>3, <1>4, <1>6, <1>9, <3>1, RanTraced
    <2> QED BY <1>1, <1>3, <1>6, <2>2, <2>3, <2>4, Seated, Stages, Arrives
<1> QED BY <1>8, <1>9

\* The re-plan, which is heard once.
LEMMA ReplanStep ==
    ASSUME CourtInv, Replan
    PROVE  CourtInv'
PROOF
<1>1. /\ court.node = "Replan" /\ UNCHANGED <<case, llm>>
      /\ \E said \in Narrations(Len(ReplanTurn(case)), MaxOdd - odd) :
           /\ Send([Advanced(ReplanTurn(case), said) EXCEPT !.replan = FALSE])
           /\ odd' = odd + Cardinality({i \in DOMAIN said : said[i] # Usual})
    BY DEF Replan, Executor
<1>2. ReplanTurn(case) \in Seq(Drafts)
    BY <1>1, Seated, SingleDrafts
<1>3. PICK ran : /\ Ran(ReplanTurn(case), ran) /\ odd' \in 0 .. MaxOdd
                 /\ Send([ran EXCEPT !.replan = FALSE])
    BY <1>1, <1>2, Advances
<1>4. PICK board : board = [ran EXCEPT !.replan = FALSE]
    OBVIOUS
<1>5. /\ board \in Boards(case) /\ board.truth = court.truth /\ board.outcome = court.outcome
      /\ board.turns = ran.turns /\ board.trace = ran.trace
    BY <1>3, <1>4 DEF Ran, Boards
<1>6. court' = [board EXCEPT !.node = "Branch"] /\ answer' = answer
    <2>1. Successors(court.node, board) = {"Branch"}
        BY <1>1, NextNodes
    <2> QED BY <1>3, <1>4, <2>1, SentOn
<1>7. HeardSoFar(case, board.turns, 5)
    BY <1>1, <1>3, <1>5, Seated, Stages, HeardReplan DEF Ran
<1>8. Traced(case, board.trace, 5)
    <2>1. Traced(case, court.trace, 4) /\ NeedsTargetedReplan(case)
        BY <1>1, Seated, Stages
    <2>2. /\ board.trace \in Seq(Nodes \ {"none"}) /\ Len(board.trace) <= 5
          /\ ReplanAt(board.trace) = ReplanAt(court.trace) \union {Len(court.trace) + 1}
        <3>1. PICK node \in Nodes \ {"none"} : node = "Replan" /\ node = court.node
            BY <1>1, Stages
        <3>2. board.trace = Append(court.trace, node)
            BY <1>3, <1>5, <3>1 DEF Ran
        <3> QED BY <2>1, <3>1, <3>2, TraceGrows
    <2>3. ReplanAt(court.trace) = {}
        BY <2>1 DEF Traced
    <2> QED BY <2>1, <2>2, <2>3 DEF Traced, One
<1> QED BY <1>1, <1>3, <1>5, <1>6, <1>7, <1>8, Seated, Stages, Arrives

\* The verdict chooses the branch.
LEMMA RouteVerdictStep ==
    ASSUME CourtInv, RouteVerdict
    PROVE  CourtInv'
PROOF
<1>1. /\ court.node = "Branch" /\ UNCHANGED <<case, llm>>
      /\ \E said \in Narrations(Len(<<>>), MaxOdd - odd) :
           /\ Send(Advanced(<<>>, said))
           /\ odd' = odd + Cardinality({i \in DOMAIN said : said[i] # Usual})
    BY DEF RouteVerdict, Executor, Same
<1>2. <<>> \in Seq(Drafts)
    BY <1>1, Seated, SingleDrafts
<1>3. PICK board : Ran(<<>>, board) /\ Send(board) /\ odd' \in 0 .. MaxOdd
    BY <1>1, <1>2, Advances
<1>4. HeardSoFar(case, board.turns, 6)
    BY <1>1, <1>3, Seated, Stages, HeardBranch DEF Ran
<1>5. Traced(case, board.trace, 6)
    <2>1. court.node # "none" /\ court.node # "Replan" /\ Stage[court.node] = 5
        BY <1>1, Stages
    <2> QED BY <1>3, <2>1, RanTraced
<1>6. CASE case.verdict = "conflict"
    <2>1. Successors(court.node, board) = {"Skeptic"}
        BY <1>1, <1>6, NextNodes
    <2>2. court' = [board EXCEPT !.node = "Skeptic"] /\ answer' = answer
        BY <1>3, <2>1, SentOn
    <2> QED BY <1>1, <1>3, <1>4, <1>5, <1>6, <2>2, Seated, Stages, Arrives DEF Ran
<1>7. CASE case.verdict = "consistent"
    <2>1. Successors(court.node, board) = {"Consensus"}
        BY <1>1, <1>7, NextNodes
    <2>2. court' = [board EXCEPT !.node = "Consensus"] /\ answer' = answer
        BY <1>3, <2>1, SentOn
    <2> QED BY <1>1, <1>3, <1>4, <1>5, <1>7, <2>2, Seated, Stages, Arrives DEF Ran
<1> QED BY <1>1, <1>6, <1>7, Seated, ReadyCase

\* Nothing was heard yet.
LEMMA NothingHeard ==
    ASSUME NEW c \in Cases
    PROVE  HeardSoFar(c, <<>>, 0) /\ Traced(c, <<>>, 0) /\ NoCourt \in Boards(c)
PROOF
<1>0. <<>> \in Seq(Turns) /\ <<>> \in Seq(Nodes \ {"none"})
    BY EmptySeq
<1>1. PICK turns : turns = <<>> /\ DOMAIN turns = {}
    OBVIOUS
<1>2. /\ \A b, D : On(turns, b, D) = {}
      /\ Rulings(turns) = {}
    BY <1>1 DEF On, Rulings
<1>3. Numbered(c, turns, 0)
    BY <1>1 DEF Numbered
<1>4. Debated(c, turns, 0)
    BY <1>2 DEF Debated
<1>5. Recorded(c, turns, 0) /\ Closed(c, turns, 0)
    BY <1>2 DEF Recorded, Closed, AfterAudit
<1>6. HeardSoFar(c, turns, 0)
    BY <1>0, <1>1, <1>3, <1>4, <1>5 DEF HeardSoFar
<1>7. PICK trace : trace = <<>> /\ DOMAIN trace = {} /\ Len(trace) = 0
    OBVIOUS
<1>8. Traced(c, trace, 0)
    BY <1>0, <1>7 DEF Traced, ReplanAt
<1>9. NoCourt \in Boards(c)
    BY <1>0 DEF NoCourt, Boards, Nodes
<1> QED BY <1>1, <1>6, <1>7, <1>8, <1>9

\* A hearing is convened over a ready case.
LEMMA ConveneStep ==
    ASSUME CourtInv, Convene
    PROVE  CourtInv'
PROOF
<1>1. /\ case' = case /\ llm' = llm /\ odd' = odd /\ answer = NoAnswer /\ court = NoCourt
      /\ case \in Cases /\ llm \in {"disabled", "ollama"} /\ odd \in 0 .. MaxOdd
    BY DEF Convene, CourtInv
<1>2. HeardSoFar(case, <<>>, 0) /\ Traced(case, <<>>, 0) /\ NoCourt \in Boards(case)
    BY <1>1, NothingHeard
<1>3. CASE ~ Ready(case)
    <2>1. answer' = [kind |-> "not_ready"] /\ court' = NoCourt
        BY <1>1, <1>3 DEF Convene
    <2>2. answer'.kind = "not_ready" /\ court'.node = "none"
        BY <2>1 DEF NoCourt
    <2>3. Answered'
        BY <2>1, <2>2 DEF Answered
    <2>4. (court \in Boards(case))' /\ Sitting(case, court)'
        BY <1>1, <1>2, <2>1, <2>2 DEF Sitting
    <2> QED BY <1>1, <2>1, <2>2, <2>3, <2>4 DEF CourtInv
<1>4. CASE Ready(case)
    <2>1. /\ court' = [NoCourt EXCEPT !.node = "Coordinator", !.outcome = EarnedOutcome(case),
                                      !.truth = TruthDigest(case)]
          /\ answer' = NoAnswer
        BY <1>1, <1>4 DEF Convene
    <2>2. /\ court'.node = "Coordinator" /\ court'.outcome = EarnedOutcome(case)
          /\ court'.truth = TruthDigest(case) /\ court'.turns = <<>> /\ court'.trace = <<>>
        BY <2>1 DEF NoCourt
    <2>3. court' \in Boards(case)
        <3>1. EarnedOutcome(case) \in {"proposal", "refusal", "no_action"}
            BY DEF EarnedOutcome
        <3> QED BY <1>2, <2>1, <3>1, Stages DEF Boards, NoCourt
    <2>4. Sitting(case, court')
        BY <1>2, <1>4, <2>2, Stages DEF Sitting
    <2>5. (court \in Boards(case))' /\ Sitting(case, court)'
        BY <1>1, <2>3, <2>4
    <2>6. Answered'
        BY <2>1 DEF Answered, NoAnswer
    <2> QED BY <1>1, <2>1, <2>2, <2>5, <2>6 DEF CourtInv
<1> QED BY <1>3, <1>4

\* A hearing that is heard in full, of the board the audit is given.
LEMMA AuditFindsNoFault ==
    ASSUME NEW board, board.truth = TruthDigest(case), board.outcome = EarnedOutcome(case),
           HeardSoFar(case, board.turns, AfterAudit)
    PROVE  AuditPasses(board)
PROOF
<1> DEFINE turns == board.turns
<1>0. AfterAudit = 11
    BY DEF AfterAudit
<1>1. Numbered(case, turns, 11) /\ Recorded(case, turns, 11)
    BY <1>0 DEF HeardSoFar
<1>2. UNION {turns[i].draft.cites : i \in DOMAIN turns} = Bindings(case)
    <2>1. \A i \in DOMAIN turns : turns[i].draft.cites \subseteq Bindings(case)
        BY <1>1 DEF Numbered
    <2>2. \E i \in DOMAIN turns : turns[i].draft.cites = Bindings(case)
        BY <1>1 DEF Recorded
    <2> HIDE DEF turns
    <2> QED BY <2>1, <2>2
<1>3. One(Rulings(turns))
    BY <1>1 DEF Recorded
<1>4. Cardinality(Rulings(turns)) = 1
    BY <1>3, FS_Singleton DEF One
<1>5. \A i \in Rulings(turns) :
         turns[i].draft.disposition = IF case.owner THEN "confirmed" ELSE "refused"
    BY <1>1 DEF Recorded
<1> QED BY <1>2, <1>4, <1>5 DEF AuditPasses, Rulings

\* The digest does not cover the digest.
LEMMA SealedParts ==
    ASSUME NEW verdict, NEW outcome, NEW owner, NEW evidence, NEW trace, NEW turns, NEW mode,
           NEW rounds, NEW digest
    PROVE  LET r == [verdict |-> verdict, outcome |-> outcome, owner |-> owner,
                     evidence |-> evidence, trace |-> trace, turns |-> turns, mode |-> mode,
                     rounds |-> rounds, digest |-> digest] IN
           /\ Sealed(r) = [verdict |-> verdict, outcome |-> outcome, owner |-> owner,
                           evidence |-> evidence, trace |-> trace, turns |-> turns, mode |-> mode,
                           rounds |-> rounds, digest |-> ContentDigest(r)]
           /\ ContentDigest(Sealed(r)) = ContentDigest(r)
PROOF
<1> DEFINE r == [verdict |-> verdict, outcome |-> outcome, owner |-> owner,
                 evidence |-> evidence, trace |-> trace, turns |-> turns, mode |-> mode,
                 rounds |-> rounds, digest |-> digest]
<1>1. PICK new : new = ContentDigest(r)
    OBVIOUS
<1>2. PICK s : s = [verdict |-> verdict, outcome |-> outcome, owner |-> owner,
                    evidence |-> evidence, trace |-> trace, turns |-> turns, mode |-> mode,
                    rounds |-> rounds, digest |-> new]
    OBVIOUS
<1>3. Sealed(r) = s
    BY <1>1, <1>2 DEF Sealed
<1>4. /\ s.verdict = verdict /\ s.outcome = outcome /\ s.owner = owner /\ s.evidence = evidence
      /\ s.trace = trace /\ s.turns = turns
    BY <1>2
<1>5. ContentDigest(s) = ContentDigest(r)
    BY <1>4 DEF ContentDigest
<1> QED BY <1>1, <1>2, <1>3, <1>5

\* The audit passes, and its transcript is that of the case.
LEMMA AuditStep ==
    ASSUME CourtInv, Audit
    PROVE  CourtInv'
PROOF
<1>0. PICK earned : earned = EarnedOutcome(case)
    OBVIOUS
<1>1. /\ court.node = "Audit" /\ case' = case /\ llm' = llm /\ court' = NoCourt
      /\ court.outcome = earned
    BY <1>0, Seated DEF Audit
<1>2. ClosingTurn(earned) \in Seq(Drafts) /\ Len(ClosingTurn(earned)) = 1
    BY <1>1, Seated, SingleDrafts
<1>3. PICK said \in Narrations(Len(ClosingTurn(earned)), MaxOdd - odd) :
        /\ answer' = IF AuditPasses(Advanced(ClosingTurn(earned), said))
                     THEN [kind |-> "heard",
                           transcript |-> TranscriptOf(Advanced(ClosingTurn(earned), said))]
                     ELSE [kind |-> "failed"]
        /\ odd' = odd + Cardinality({i \in DOMAIN said : said[i] # Usual})
    BY <1>1, <1>2 DEF Audit
<1>4. PICK board : board = Advanced(ClosingTurn(earned), said)
    OBVIOUS
<1>5. odd' \in 0 .. MaxOdd /\ Ran(ClosingTurn(earned), board)
    BY <1>1, <1>2, <1>3, <1>4, Advances
<1>6. /\ board \in Boards(case) /\ board.truth = TruthDigest(case) /\ board.outcome = earned
    BY <1>1, <1>5, Seated DEF Ran
<1>7. HeardSoFar(case, board.turns, AfterAudit)
    <2>1. Growth(court.turns, ClosingTurn(EarnedOutcome(case)), board.turns)
        BY <1>0, <1>5 DEF Ran
    <2>2. case \in Cases /\ HeardSoFar(case, court.turns, 10)
        BY <1>1, Seated, Stages
    <2> QED BY <2>1, <2>2, HeardClosing
<1>8. Traced(case, board.trace, AfterAudit)
    <2>1. /\ court.node # "none" /\ court.node # "Replan" /\ Stage[court.node] = 10
          /\ AfterAudit = 11
        BY <1>1, Stages DEF AfterAudit
    <2> QED BY <1>5, <2>1, RanTraced
<1>9. answer' = [kind |-> "heard", transcript |-> TranscriptOf(board)]
    BY <1>0, <1>3, <1>4, <1>6, <1>7, AuditFindsNoFault
<1>10. Transcript(case, TranscriptOf(board))
    <2>1. PICK mode : mode = IF \E i \in DOMAIN board.turns : board.turns[i].voice.generated
                             THEN "live_captured" ELSE "deterministic_fallback"
        OBVIOUS
    <2>2. PICK rounds : rounds =
            1 + board.turns[CHOOSE i \in DOMAIN board.turns : \A j \in DOMAIN board.turns :
                              board.turns[j].draft.round <= board.turns[i].draft.round].draft.round
        OBVIOUS
    <2>3. PICK r : r = [verdict |-> case.verdict, outcome |-> board.outcome, owner |-> case.owner,
                        evidence |-> Bindings(case), trace |-> board.trace, turns |-> board.turns,
                        mode |-> mode, rounds |-> rounds, digest |-> <<>>]
        OBVIOUS
    <2>4. PICK t : t = Sealed(r)
        OBVIOUS
    <2>5. TranscriptOf(board) = t
        BY <2>1, <2>2, <2>3, <2>4 DEF TranscriptOf
    <2>6. /\ t = [verdict |-> case.verdict, outcome |-> board.outcome, owner |-> case.owner,
                  evidence |-> Bindings(case), trace |-> board.trace, turns |-> board.turns,
                  mode |-> mode, rounds |-> rounds, digest |-> ContentDigest(r)]
          /\ ContentDigest(t) = ContentDigest(r)
        BY <2>3, <2>4, SealedParts
    <2>7. /\ t.trace = board.trace /\ t.turns = board.turns /\ t.mode = mode
          /\ t.rounds = rounds /\ t.digest = ContentDigest(t)
        BY <2>6
    <2>8. t = [verdict |-> case.verdict, outcome |-> EarnedOutcome(case), owner |-> case.owner,
               evidence |-> Bindings(case), trace |-> t.trace, turns |-> t.turns, mode |-> t.mode,
               rounds |-> t.rounds, digest |-> t.digest]
        BY <1>0, <1>6, <2>6, <2>7
    <2> QED BY <1>7, <1>8, <2>1, <2>5, <2>7, <2>8 DEF Transcript
<1>11. PICK t : t = TranscriptOf(board)
    OBVIOUS
<1>12. /\ answer' = [kind |-> "heard", transcript |-> t] /\ answer'.kind = "heard"
       /\ answer'.transcript = t
    BY <1>9, <1>11
<1>13. Answered'
    BY <1>1, <1>10, <1>11, <1>12, Seated DEF Answered
<1>14. /\ court'.node = "none" /\ (court \in Boards(case))' /\ Sitting(case, court)'
    BY <1>1, Seated, NothingHeard DEF NoCourt, Sitting
<1>15. case' \in Cases /\ llm' \in {"disabled", "ollama"}
    BY <1>1 DEF CourtInv
<1> QED BY <1>1, <1>5, <1>13, <1>14, <1>15 DEF CourtInv

\* The narrator is silent for too long, and the caller gets the error.
LEMMA NarratorTimesOutStep ==
    ASSUME CourtInv, NarratorTimesOut
    PROVE  CourtInv'
PROOF
<1>1. /\ case' = case /\ llm' = llm /\ odd' = odd /\ court' = NoCourt
      /\ answer' = [kind |-> "unvoiced"]
      /\ case \in Cases /\ llm \in {"disabled", "ollama"} /\ odd \in 0 .. MaxOdd
    BY DEF NarratorTimesOut, CourtInv
<1>2. /\ court'.node = "none" /\ (court \in Boards(case))' /\ Sitting(case, court)'
    BY <1>1, NothingHeard DEF NoCourt, Sitting
<1>3. answer'.kind = "unvoiced"
    BY <1>1
<1>4. Answered'
    BY <1>1, <1>3 DEF Answered
<1> QED BY <1>1, <1>2, <1>4 DEF CourtInv

\* Every step of the court, and none, keeps the invariant.
LEMMA CourtStep ==
    ASSUME CourtInv, CourtNext \/ UNCHANGED courtVars
    PROVE  CourtInv'
PROOF
<1>1. CASE UNCHANGED courtVars
    BY <1>1 DEF courtVars, CourtInv, Answered
<1>2. CASE Convene
    BY <1>2, ConveneStep
<1>3. CASE Hearing
    BY <1>3, CoordinateStep, HearStewardsStep, PlanHearingStep, ReviewEvidenceStep, ReplanStep,
       RouteVerdictStep, CrossExamineStep, HearResponsesStep, ReflectStep, ConfirmConsensusStep,
       ResolveAuthorityStep, AuditStep, NarratorTimesOutStep DEF Hearing
<1> QED BY <1>1, <1>2, <1>3 DEF CourtNext

\* The invariant holds at the start.
LEMMA CourtStarts ==
    ASSUME CourtInit
    PROVE  CourtInv
PROOF
<1>1. /\ case \in Cases /\ llm \in {"disabled", "ollama"} /\ court = NoCourt
      /\ answer = NoAnswer /\ odd = 0 /\ MaxOdd \in Nat
    BY CasesAssumption DEF CourtInit, CasesAssumption
<1>2. court.node = "none" /\ answer.kind = "none"
    BY <1>1 DEF NoCourt, NoAnswer
<1>3. court \in Boards(case) /\ Sitting(case, court) /\ Answered
    BY <1>1, <1>2, NothingHeard DEF Sitting, Answered
<1> QED BY <1>1, <1>2, <1>3 DEF CourtInv

-----------------------------------------------------------------------------
\* The capture and its file.

\* Turns with words that are not identifiers.
CleanTurns == [no: Nat, draft: Drafts,
               voice: [generated: BOOLEAN, words: {"reviewed", "fresh", "redacted", "keyword"},
                       reason: {"plain", "none", "keyword"}]]

\* s is t with such turns for its own.
Cleaned(t, s) ==
    /\ Parts(s)
    /\ s.verdict = t.verdict /\ s.outcome = t.outcome /\ s.owner = t.owner
    /\ s.evidence = t.evidence /\ s.trace = t.trace /\ s.mode = t.mode /\ s.rounds = t.rounds
    /\ s.turns \in Seq(CleanTurns)
    /\ DOMAIN s.turns = DOMAIN t.turns
    /\ \A i \in DOMAIN t.turns : s.turns[i] = RedactedTurn(t.turns[i])
    /\ s.digest = ContentDigest(s)

\* Redacting a turn.
LEMMA TurnRedacted ==
    ASSUME NEW turn \in Turns
    PROVE  LET clean == RedactedTurn(turn) IN
           /\ clean \in CleanTurns
           /\ clean.no = turn.no /\ clean.draft = turn.draft
           /\ clean.voice.generated = turn.voice.generated
           /\ clean.voice.reason = turn.voice.reason
           /\ clean.voice.words = Redacted(turn.voice.words)
           /\ [clean EXCEPT !.voice = turn.voice] = turn
PROOF
<1>1. PICK no \in Nat, draft \in Drafts, voice \in Voices :
        turn = [no |-> no, draft |-> draft, voice |-> voice]
    BY DEF Turns
<1>2. PICK generated \in BOOLEAN, words \in {"reviewed", "fresh", "identifier", "keyword"},
           reason \in {"plain", "none", "keyword"} :
        voice = [generated |-> generated, words |-> words, reason |-> reason]
    BY DEF Voices
<1>3. PICK said \in {"reviewed", "fresh", "redacted", "keyword"} : said = Redacted(words)
    BY DEF Redacted
<1>4. PICK clean : clean = [no |-> no, draft |-> draft,
                            voice |-> [generated |-> generated, words |-> said, reason |-> reason]]
    OBVIOUS
<1>5. RedactedTurn(turn) = clean
    BY <1>1, <1>2, <1>3, <1>4 DEF RedactedTurn
<1>6. [clean EXCEPT !.voice = turn.voice] = turn
    BY <1>1, <1>4
<1> QED BY <1>1, <1>2, <1>3, <1>4, <1>5, <1>6 DEF CleanTurns

\* Redacting a transcript.
LEMMA TranscriptRedacted ==
    ASSUME NEW t, Parts(t), t.turns \in Seq(Turns)
    PROVE  Cleaned(t, SanitizeTranscript(t))
PROOF
<1>1. PICK clean : clean = [i \in DOMAIN t.turns |-> RedactedTurn(t.turns[i])]
    OBVIOUS
<1>2. PICK r : r = [verdict |-> t.verdict, outcome |-> t.outcome, owner |-> t.owner,
                    evidence |-> t.evidence, trace |-> t.trace, turns |-> clean, mode |-> t.mode,
                    rounds |-> t.rounds, digest |-> t.digest]
    OBVIOUS
<1>3. r = [t EXCEPT !.turns = [i \in DOMAIN t.turns |-> RedactedTurn(t.turns[i])]]
    BY <1>1, <1>2 DEF Parts
<1>4. PICK s : s = Sealed(r)
    OBVIOUS
<1>5. SanitizeTranscript(t) = s
    BY <1>3, <1>4 DEF SanitizeTranscript
<1>6. /\ s = [verdict |-> t.verdict, outcome |-> t.outcome, owner |-> t.owner,
              evidence |-> t.evidence, trace |-> t.trace, turns |-> clean, mode |-> t.mode,
              rounds |-> t.rounds, digest |-> ContentDigest(r)]
      /\ ContentDigest(s) = ContentDigest(r)
    BY <1>2, <1>4, SealedParts
<1>7. /\ s.verdict = t.verdict /\ s.outcome = t.outcome /\ s.owner = t.owner
      /\ s.evidence = t.evidence /\ s.trace = t.trace /\ s.mode = t.mode /\ s.rounds = t.rounds
      /\ s.turns = clean /\ s.digest = ContentDigest(s)
    BY <1>6
<1>8. Parts(s)
    BY <1>6, <1>7 DEF Parts
<1>9. Len(t.turns) \in Nat /\ DOMAIN t.turns = 1 .. Len(t.turns)
      /\ \A i \in DOMAIN t.turns : t.turns[i] \in Turns
    BY LenProperties
<1>10. \A i \in DOMAIN t.turns : clean[i] \in CleanTurns /\ clean[i] = RedactedTurn(t.turns[i])
    BY <1>1, <1>9, TurnRedacted
<1>11. clean \in Seq(CleanTurns) /\ DOMAIN clean = DOMAIN t.turns
    <2>1. clean \in [1 .. Len(t.turns) -> CleanTurns]
        BY <1>1, <1>9, <1>10
    <2> QED BY <1>9, <2>1
<1> QED BY <1>5, <1>7, <1>8, <1>10, <1>11 DEF Cleaned

\* The debate of a transcript, cleaned, is the same debate, voiced by the same.
LEMMA CleanedIsSame ==
    ASSUME NEW t, NEW s, Parts(t), t.turns \in Seq(Turns), Cleaned(t, s)
    PROVE  SameDebate(s, t) /\ SameProvenance(s, t)
PROOF
<1>1. ASSUME NEW i \in DOMAIN s.turns
      PROVE  /\ s.turns[i].no = t.turns[i].no /\ s.turns[i].draft = t.turns[i].draft
             /\ s.turns[i].voice.generated = t.turns[i].voice.generated
             /\ s.turns[i].voice.reason = t.turns[i].voice.reason
             /\ s.turns[i].voice.words = Redacted(t.turns[i].voice.words)
    <2>1. /\ i \in DOMAIN t.turns /\ t.turns[i] \in Turns
          /\ s.turns[i] = RedactedTurn(t.turns[i])
        BY LenProperties DEF Cleaned
    <2> QED BY <2>1, TurnRedacted
<1> QED BY <1>1 DEF SameDebate, SameProvenance, Cleaned

\* What a digest covers is what two transcripts with the same digest share.
LEMMA DigestCovers ==
    ASSUME NEW t, NEW s, ContentDigest(t) = ContentDigest(s)
    PROVE  /\ t.verdict = s.verdict /\ t.outcome = s.outcome /\ t.owner = s.owner
           /\ t.evidence = s.evidence /\ t.trace = s.trace
           /\ DOMAIN t.turns = DOMAIN s.turns
           /\ \A i \in DOMAIN t.turns :
                /\ t.turns[i].no = s.turns[i].no /\ t.turns[i].draft = s.turns[i].draft
                /\ t.turns[i].voice.words = s.turns[i].voice.words
PROOF
<1> DEFINE Covered(u) == [i \in DOMAIN u.turns |-> [no |-> u.turns[i].no,
                                                    draft |-> u.turns[i].draft,
                                                    words |-> u.turns[i].voice.words]]
<1>1. ASSUME NEW u
      PROVE  /\ ContentDigest(u).verdict = u.verdict /\ ContentDigest(u).outcome = u.outcome
             /\ ContentDigest(u).owner = u.owner /\ ContentDigest(u).evidence = u.evidence
             /\ ContentDigest(u).trace = u.trace /\ ContentDigest(u).turns = Covered(u)
    <2>1. ContentDigest(u) = [verdict |-> u.verdict, outcome |-> u.outcome, owner |-> u.owner,
                              evidence |-> u.evidence, trace |-> u.trace, turns |-> Covered(u)]
        BY Zenon DEF ContentDigest
    <2> HIDE DEF Covered
    <2> QED BY <2>1
<1>2. Covered(t) = Covered(s)
    <2>1. ContentDigest(t).turns = Covered(t)
        BY <1>1
    <2>2. ContentDigest(s).turns = Covered(s)
        BY <1>1
    <2> HIDE DEF Covered
    <2> QED BY <2>1, <2>2
<1>3. DOMAIN Covered(t) = DOMAIN t.turns /\ DOMAIN Covered(s) = DOMAIN s.turns
    OBVIOUS
<1>4. DOMAIN t.turns = DOMAIN s.turns
    BY <1>2, <1>3
<1>5. ASSUME NEW i \in DOMAIN t.turns
      PROVE  /\ t.turns[i].no = s.turns[i].no /\ t.turns[i].draft = s.turns[i].draft
             /\ t.turns[i].voice.words = s.turns[i].voice.words
    <2>1. /\ Covered(t)[i] = [no |-> t.turns[i].no, draft |-> t.turns[i].draft,
                              words |-> t.turns[i].voice.words]
          /\ Covered(s)[i] = [no |-> s.turns[i].no, draft |-> s.turns[i].draft,
                              words |-> s.turns[i].voice.words]
        BY <1>4
    <2> HIDE DEF Covered
    <2>2. [no |-> t.turns[i].no, draft |-> t.turns[i].draft, words |-> t.turns[i].voice.words]
            = [no |-> s.turns[i].no, draft |-> s.turns[i].draft, words |-> s.turns[i].voice.words]
        BY <1>2, <2>1
    <2> QED BY <2>2
<1> HIDE DEF Covered
<1>6. /\ t.verdict = s.verdict /\ t.outcome = s.outcome /\ t.owner = s.owner
      /\ t.evidence = s.evidence /\ t.trace = s.trace
    BY <1>1
<1> QED BY <1>4, <1>5, <1>6

\* Setting a part of a transcript that is not its digest.
LEMMA PartSet ==
    ASSUME NEW t, Parts(t), NEW v
    PROVE  /\ LET u == [t EXCEPT !.turns = v] IN
                Parts(u) /\ u.turns = v /\ u.digest = t.digest
           /\ LET u == [t EXCEPT !.outcome = v] IN
                Parts(u) /\ u.turns = t.turns /\ u.digest = t.digest
           /\ LET u == [t EXCEPT !.mode = v] IN
                Parts(u) /\ u.turns = t.turns /\ u.digest = t.digest
PROOF
<1> DEFINE Fields == {"verdict", "outcome", "owner", "evidence", "trace", "turns", "mode",
                      "rounds", "digest"}
<1>1. DOMAIN t = Fields
    BY DEF Parts
<1>2. ASSUME NEW f \in Fields \ {"digest"}
      PROVE  LET u == [t EXCEPT ![f] = v] IN
             /\ Parts(u) /\ u[f] = v
             /\ \A g \in Fields \ {f} : u[g] = t[g]
    <2>1. PICK u : u = [t EXCEPT ![f] = v]
        OBVIOUS
    <2>2. u = [g \in Fields |-> IF g = f THEN v ELSE t[g]]
        BY <1>1, <2>1
    <2>3. u = [verdict |-> u.verdict, outcome |-> u.outcome, owner |-> u.owner,
               evidence |-> u.evidence, trace |-> u.trace, turns |-> u.turns, mode |-> u.mode,
               rounds |-> u.rounds, digest |-> u.digest]
        BY <2>2
    <2> QED BY <2>1, <2>2, <2>3 DEF Parts
<1>3. /\ "turns" \in Fields \ {"digest"} /\ "outcome" \in Fields \ {"digest"}
      /\ "mode" \in Fields \ {"digest"}
      /\ "digest" \in Fields \ {"turns"} /\ "digest" \in Fields \ {"outcome"}
      /\ "turns" \in Fields \ {"outcome"}
      /\ "digest" \in Fields \ {"mode"} /\ "turns" \in Fields \ {"mode"}
    OBVIOUS
<1>4. LET u == [t EXCEPT !.turns = v] IN Parts(u) /\ u.turns = v /\ u.digest = t.digest
    BY <1>2, <1>3
<1>5. LET u == [t EXCEPT !.outcome = v] IN
        Parts(u) /\ u.turns = t.turns /\ u.digest = t.digest
    BY <1>2, <1>3
<1>6. LET u == [t EXCEPT !.mode = v] IN
        Parts(u) /\ u.turns = t.turns /\ u.digest = t.digest
    BY <1>2, <1>3
<1> QED BY <1>4, <1>5, <1>6

\* Another part than its digest is set: the transcript may stand in the file still.
LEMMA EditedIsFiled ==
    ASSUME NEW s, NEW t, FiledFor(s, t), NEW u,
           \/ \E i \in {1, Len(t.turns)} : u = [t EXCEPT !.turns[i].voice.words = "edited"]
           \/ \E i \in {1, Len(t.turns)}, g \in BOOLEAN :
                u = [t EXCEPT !.turns[i].voice.generated = g]
           \/ \E outcome : u = [t EXCEPT !.outcome = outcome]
           \/ \E mode : u = [t EXCEPT !.mode = mode]
    PROVE  FiledFor(s, u)
PROOF
<1>1. /\ Parts(t) /\ t.turns \in Seq(FiledTurns) /\ t.turns # <<>> /\ t.digest = s.digest
      /\ Len(t.turns) \in Nat /\ DOMAIN t.turns = 1 .. Len(t.turns)
      /\ \A i \in DOMAIN t.turns : t.turns[i] \in FiledTurns
    BY LenProperties DEF FiledFor
<1>2. 1 \in DOMAIN t.turns /\ Len(t.turns) \in DOMAIN t.turns
    BY <1>1, EmptySeq
<1>3. ASSUME NEW i \in DOMAIN t.turns, NEW turn \in FiledTurns,
             u = [t EXCEPT !.turns = [t.turns EXCEPT ![i] = turn]]
      PROVE  FiledFor(s, u)
    <2>1. PICK turns : turns = [t.turns EXCEPT ![i] = turn]
        OBVIOUS
    <2>2. Parts(u) /\ u.turns = turns /\ u.digest = t.digest
        BY <1>1, <1>3, <2>1, PartSet
    <2>3. turns \in [1 .. Len(t.turns) -> FiledTurns]
        BY <1>1, <2>1
    <2>4. turns \in Seq(FiledTurns) /\ turns # <<>>
        BY <1>1, <1>2, <2>3
    <2> QED BY <1>1, <2>2, <2>4 DEF FiledFor
<1>4. ASSUME NEW i \in DOMAIN t.turns
      PROVE  /\ [t.turns[i] EXCEPT !.voice.words = "edited"] \in FiledTurns
             /\ \A g \in BOOLEAN : [t.turns[i] EXCEPT !.voice.generated = g] \in FiledTurns
    <2>1. t.turns[i] \in FiledTurns
        BY <1>1
    <2>2. PICK turn : turn = t.turns[i]
        OBVIOUS
    <2>3. [turn EXCEPT !.voice.words = "edited"] \in FiledTurns
        BY <2>1, <2>2 DEF FiledTurns
    <2>4. \A g \in BOOLEAN : [turn EXCEPT !.voice.generated = g] \in FiledTurns
        BY <2>1, <2>2 DEF FiledTurns
    <2> QED BY <2>2, <2>3, <2>4
<1>5. CASE \E i \in {1, Len(t.turns)} : u = [t EXCEPT !.turns[i].voice.words = "edited"]
    <2>1. PICK i \in {1, Len(t.turns)} : u = [t EXCEPT !.turns[i].voice.words = "edited"]
        BY <1>5
    <2>2. PICK turn : turn = [t.turns[i] EXCEPT !.voice.words = "edited"]
        OBVIOUS
    <2>3. u = [t EXCEPT !.turns = [t.turns EXCEPT ![i] = turn]]
        BY <2>1, <2>2
    <2> QED BY <1>2, <1>3, <1>4, <2>1, <2>2, <2>3
<1>6. CASE \E i \in {1, Len(t.turns)}, g \in BOOLEAN :
             u = [t EXCEPT !.turns[i].voice.generated = g]
    <2>1. PICK i \in {1, Len(t.turns)}, g \in BOOLEAN :
             u = [t EXCEPT !.turns[i].voice.generated = g]
        BY <1>6
    <2>2. PICK turn : turn = [t.turns[i] EXCEPT !.voice.generated = g]
        OBVIOUS
    <2>3. u = [t EXCEPT !.turns = [t.turns EXCEPT ![i] = turn]]
        BY <2>1, <2>2
    <2> QED BY <1>2, <1>3, <1>4, <2>1, <2>2, <2>3
<1>7. CASE \E outcome : u = [t EXCEPT !.outcome = outcome]
    <2>1. PICK outcome : u = [t EXCEPT !.outcome = outcome]
        BY <1>7
    <2>2. Parts(u) /\ u.turns = t.turns /\ u.digest = t.digest
        BY <1>1, <2>1, PartSet
    <2> QED BY <1>1, <2>2 DEF FiledFor
<1>8. CASE \E mode : u = [t EXCEPT !.mode = mode]
    <2>1. PICK mode : u = [t EXCEPT !.mode = mode]
        BY <1>8
    <2>2. Parts(u) /\ u.turns = t.turns /\ u.digest = t.digest
        BY <1>1, <2>1, PartSet
    <2> QED BY <1>1, <2>2 DEF FiledFor
<1> QED BY <1>5, <1>6, <1>7, <1>8

\* An answer is the last thing a hearing gives.
LEMMA AnswerLasts ==
    ASSUME CourtInv, CourtNext
    PROVE  answer = NoAnswer
BY DEF CourtNext, Convene, Hearing, Coordinate, HearStewards, PlanHearing, ReviewEvidence,
       Replan, RouteVerdict, CrossExamine, HearResponses, Reflect, ConfirmConsensus,
       ResolveAuthority, Audit, NarratorTimesOut, Executor, CourtInv

\* What was heard is a whole transcript.
LEMMA HeardIsWhole ==
    ASSUME CourtInv, answer.kind = "heard"
    PROVE  LET h == answer.transcript IN
           /\ Ready(case) /\ case \in Cases /\ Parts(h) /\ h.turns \in Seq(Turns)
           /\ HeardSoFar(case, h.turns, AfterAudit) /\ Traced(case, h.trace, AfterAudit)
           /\ h.mode = IF \E i \in DOMAIN h.turns : h.turns[i].voice.generated
                       THEN "live_captured" ELSE "deterministic_fallback"
           /\ h.verdict = case.verdict /\ h.outcome = EarnedOutcome(case)
           /\ Cleaned(h, SanitizeTranscript(h))
           /\ h.turns # <<>>
PROOF
<1> DEFINE h == answer.transcript
<1>1. Ready(case) /\ case \in Cases /\ Transcript(case, h)
    BY DEF CourtInv, Answered
<1>2. /\ h = [verdict |-> case.verdict, outcome |-> EarnedOutcome(case), owner |-> case.owner,
              evidence |-> Bindings(case), trace |-> h.trace, turns |-> h.turns, mode |-> h.mode,
              rounds |-> h.rounds, digest |-> h.digest]
      /\ HeardSoFar(case, h.turns, AfterAudit) /\ Traced(case, h.trace, AfterAudit)
      /\ h.mode = IF \E i \in DOMAIN h.turns : h.turns[i].voice.generated
                  THEN "live_captured" ELSE "deterministic_fallback"
    BY <1>1 DEF Transcript
<1> HIDE DEF h
<1>3. /\ h.verdict = case.verdict /\ h.outcome = EarnedOutcome(case) /\ h.owner = case.owner
      /\ h.evidence = Bindings(case)
    BY <1>2
<1>4. Parts(h)
    BY <1>2, <1>3 DEF Parts
<1>5. h.turns \in Seq(Turns) /\ h.turns # <<>>
    BY <1>2 DEF HeardSoFar, Closed
<1>6. Cleaned(h, SanitizeTranscript(h))
    BY <1>4, <1>5, TranscriptRedacted
<1> QED BY <1>1, <1>2, <1>3, <1>4, <1>5, <1>6 DEF h

\* A cleaned transcript may stand in the file.
LEMMA CleanedIsFiled ==
    ASSUME NEW h, NEW s, Cleaned(h, s), h.turns \in Seq(Turns), h.turns # <<>>
    PROVE  FiledFor(s, s)
PROOF
<1>1. /\ s.turns \in Seq(CleanTurns) /\ DOMAIN s.turns = DOMAIN h.turns
      /\ Len(h.turns) \in Nat /\ DOMAIN h.turns = 1 .. Len(h.turns)
      /\ Len(s.turns) \in Nat /\ DOMAIN s.turns = 1 .. Len(s.turns)
      /\ \A i \in DOMAIN s.turns : s.turns[i] \in CleanTurns
    BY LenProperties DEF Cleaned
<1>2. \A turn \in CleanTurns : turn \in FiledTurns
    BY DEF CleanTurns, FiledTurns
<1>3. s.turns \in Seq(FiledTurns)
    <2>1. s.turns \in [1 .. Len(s.turns) -> CleanTurns]
        BY <1>1
    <2>2. s.turns \in [1 .. Len(s.turns) -> FiledTurns]
        BY <1>2, <2>1
    <2> QED BY <1>1, <2>2
<1>4. s.turns # <<>>
    <2>1. 1 \in DOMAIN h.turns
        BY <1>1, EmptySeq
    <2> QED BY <1>1, <2>1
<1> QED BY <1>3, <1>4 DEF FiledFor, Cleaned

\* Every step of the capture, and of the court by itself, keeps the invariant.
LEMMA RecordStep ==
    ASSUME CourtInv, RecordInv,
           RecordNext \/ (CourtNext /\ UNCHANGED recordVars) \/ UNCHANGED <<courtVars, recordVars>>
    PROVE  RecordInv'
PROOF
<1>0. /\ capture \in [pc: {"idle", "setup", "run", "hearing", "drop", "open", "write", "ended"},
                      why: {"none", "setup", "run", "hearing", "drop", "killed"}]
      /\ scratch \in {"none", "open"} /\ touched \in BOOLEAN
    BY DEF RecordInv, RecordTypeOK
<1>a. ASSUME UNCHANGED <<file, touched, answer>>
      PROVE  Filed'
    BY <1>a DEF RecordInv, Filed
<1>1. CASE UNCHANGED <<courtVars, recordVars>>
    <2>1. UNCHANGED <<capture, scratch, file, touched, answer>>
        BY <1>1 DEF courtVars, recordVars
    <2> QED BY <1>a, <2>1 DEF RecordInv, RecordTypeOK
<1>2. CASE CourtNext /\ UNCHANGED recordVars
    <2>1. answer.kind = "none" /\ UNCHANGED <<capture, scratch, file, touched>>
        BY <1>2, AnswerLasts DEF NoAnswer, recordVars
    <2>2. file.kind = "none" /\ capture.pc \notin {"open", "write"}
          /\ ~ (capture.pc = "drop" /\ capture.why = "none")
        BY <2>1 DEF RecordInv, RecordTypeOK
    <2>3. Filed'
        BY <2>1, <2>2 DEF RecordInv, Filed
    <2> QED BY <2>1, <2>2, <2>3 DEF RecordInv, RecordTypeOK
<1>3. CASE CreateSchema
    <2>1. UNCHANGED <<file, touched, answer>>
        BY <1>3 DEF CreateSchema, courtVars
    <2> QED BY <1>0, <1>3, <1>a, <2>1 DEF CreateSchema, To, RecordInv, RecordTypeOK
<1>4. CASE SetUp
    <2>1. UNCHANGED <<scratch, file, touched, answer>>
        BY <1>4 DEF SetUp, courtVars
    <2> QED BY <1>0, <1>4, <1>a, <2>1 DEF SetUp, To, EndsFor, RecordInv, RecordTypeOK
<1>5. CASE RunCase
    <2>1. UNCHANGED <<scratch, file, touched, answer>>
        BY <1>5 DEF RunCase, courtVars
    <2> QED BY <1>0, <1>5, <1>a, <2>1 DEF RunCase, To, RecordInv, RecordTypeOK
<1>6. CASE Deliberate
    BY <1>2, <1>6 DEF Deliberate
<1>7. CASE Conclude
    <2>1. UNCHANGED <<scratch, file, touched, answer>>
        BY <1>7 DEF Conclude, courtVars
    <2> QED BY <1>0, <1>7, <1>a, <2>1 DEF Conclude, RecordInv, RecordTypeOK
<1>8. CASE DropSchema
    <2>1. UNCHANGED <<file, touched, answer>>
        BY <1>8 DEF DropSchema, courtVars
    <2> QED BY <1>0, <1>8, <1>a, <2>1 DEF DropSchema, EndsFor, Ended, RecordInv, RecordTypeOK
<1>9. CASE OpenFile
    <2>1. UNCHANGED <<scratch, answer>> /\ file' = TornTranscript /\ touched' = FALSE
        BY <1>9 DEF OpenFile, courtVars
    <2>2. Filed'
        BY <2>1 DEF Filed, TornTranscript
    <2>3. /\ capture' \in [pc: {"idle", "setup", "run", "hearing", "drop", "open", "write", "ended"},
                            why: {"none", "setup", "run", "hearing", "drop", "killed"}]
          /\ capture.pc = "open" /\ capture'.pc = "write" /\ file'.kind = "torn"
        BY <1>0, <1>9, <2>1 DEF OpenFile, To, TornTranscript
    <2>4. scratch = "none" /\ answer.kind = "heard"
        BY <2>3 DEF RecordInv
    <2> QED BY <2>1, <2>2, <2>3, <2>4 DEF RecordInv, RecordTypeOK
<1>10. CASE WriteTranscript
    <2>1. /\ UNCHANGED <<scratch, touched, answer>>
          /\ file' = Saved(SanitizeTranscript(answer.transcript)) /\ file'.kind = "whole"
          /\ file'.transcript = SanitizeTranscript(answer.transcript)
          /\ capture.pc = "write"
        BY <1>10 DEF WriteTranscript, courtVars, Saved
    <2>2. Filed'
        <3>1. answer.kind = "heard"
            BY <2>1 DEF RecordInv
        <3>2. FiledFor(SanitizeTranscript(answer.transcript), SanitizeTranscript(answer.transcript))
            BY <3>1, HeardIsWhole, CleanedIsFiled
        <3> QED BY <2>1, <3>2 DEF Filed
    <2> QED BY <1>0, <1>10, <2>1, <2>2 DEF WriteTranscript, To, RecordInv, RecordTypeOK
<1>11. CASE CaptureDies
    <2>1. UNCHANGED <<scratch, file, touched, answer>>
        BY <1>11 DEF CaptureDies, courtVars
    <2> QED BY <1>0, <1>11, <1>a, <2>1 DEF CaptureDies, EndsFor, RecordInv, RecordTypeOK
<1>b. ASSUME file.kind = "whole"
      PROVE  /\ capture.pc \in {"write", "ended"} /\ scratch = "none" /\ answer.kind = "heard"
             /\ file = Saved(file.transcript)
             /\ FiledFor(SanitizeTranscript(answer.transcript), file.transcript)
    BY <1>b DEF RecordInv, Filed
<1>c. ASSUME file.kind = "whole", file'.kind = "whole", touched' \in BOOLEAN, Filed',
             UNCHANGED <<capture, scratch, answer>>
      PROVE  RecordInv'
    BY <1>b, <1>c DEF RecordInv, RecordTypeOK
<1> DEFINE S == SanitizeTranscript(answer.transcript)
<1>d. ASSUME file.kind = "whole", NEW u, FiledFor(S, u), file' = Saved(u), touched' = TRUE,
             UNCHANGED <<capture, scratch, answer>>
      PROVE  RecordInv'
    <2>1. file'.kind = "whole" /\ file'.transcript = u
        BY <1>d DEF Saved
    <2>2. Filed'
        BY <1>d, <2>1 DEF Filed
    <2> QED BY <1>c, <1>d, <2>1, <2>2
<1>12. CASE EditFile
    <2>1. /\ UNCHANGED <<capture, scratch, answer>> /\ file.kind = "whole" /\ touched' = TRUE
        BY <1>12 DEF EditFile, courtVars
    <2> DEFINE t == file.transcript
    <2>2. PICK u : /\ file' = Saved(u)
                   /\ \/ \E i \in {1, Len(t.turns)} : u = [t EXCEPT !.turns[i].voice.words = "edited"]
                      \/ \E i \in {1, Len(t.turns)}, g \in BOOLEAN :
                           u = [t EXCEPT !.turns[i].voice.generated = g]
                      \/ \E outcome : u = [t EXCEPT !.outcome = outcome]
                      \/ \E mode : u = [t EXCEPT !.mode = mode]
        BY <1>12 DEF EditFile
    <2>3. FiledFor(S, file.transcript)
        BY <1>b, <2>1
    <2> HIDE DEF S
    <2>4. FiledFor(S, u)
        BY <2>2, <2>3, EditedIsFiled
    <2> QED BY <1>d, <2>1, <2>2, <2>4
<1>13. CASE SaveReplay
    <2>1. /\ UNCHANGED <<capture, scratch, answer>> /\ file.kind = "whole" /\ touched' = TRUE
          /\ file' = [file EXCEPT !.transcript = Replayed(file.transcript)]
        BY <1>13 DEF SaveReplay, courtVars
    <2>2. FiledFor(S, file.transcript) /\ file = Saved(file.transcript)
        BY <1>b, <2>1
    <2> HIDE DEF S
    <2>3. file' = Saved(Replayed(file.transcript))
        BY <2>1, <2>2 DEF Saved
    <2>4. FiledFor(S, Replayed(file.transcript))
        BY <2>2, PartSet DEF FiledFor, Replayed
    <2> QED BY <1>d, <2>1, <2>3, <2>4
<1> QED BY <1>1, <1>2, <1>3, <1>4, <1>5, <1>6, <1>7, <1>8, <1>9, <1>10, <1>11, <1>12, <1>13
        DEF RecordNext

\* The invariant of the record holds at the start.
LEMMA RecordStarts ==
    ASSUME RecordInit
    PROVE  RecordInv
BY DEF RecordInit, RecordInv, RecordTypeOK, Filed, NoTranscript

-----------------------------------------------------------------------------
\* What the invariants say of a finished hearing and of its file.

\* A set of one element, and of none.
LEMMA OneCounts ==
    ASSUME NEW S
    PROVE  (One(S) => Cardinality(S) = 1) /\ (S = {} => Cardinality(S) = 0)
BY FS_Singleton, FS_EmptySet DEF One

\* What was said of a binding when the hearing is over.
LEMMA BindingHeard ==
    ASSUME NEW c \in Cases, Ready(c), NEW turns, HeardSoFar(c, turns, AfterAudit),
           NEW b \in Bindings(c)
    PROVE  /\ One(On(turns, b, {"asserted"}))
           /\ IF c.verdict = "conflict" THEN One(On(turns, b, {"challenged"}))
                                        ELSE On(turns, b, {"challenged"}) = {}
           /\ IF c.verdict = "conflict" THEN One(On(turns, b, Answers))
                                        ELSE On(turns, b, Answers) = {}
           /\ \A i \in On(turns, b, {"challenged"}), j \in On(turns, b, Answers) : i < j
           /\ \A d \in Answers : On(turns, b, {d}) # {} <=>
                                   c.verdict = "conflict" /\ ResponseOf(c, b) = d
PROOF
<1>1. Debated(c, turns, 11)
    BY DEF HeardSoFar, AfterAudit
<1>2. /\ One(On(turns, b, {"asserted"}))
      /\ IF c.verdict = "conflict" THEN One(On(turns, b, {"challenged"}))
                                   ELSE On(turns, b, {"challenged"}) = {}
      /\ IF c.verdict = "conflict" THEN One(On(turns, b, Answers))
                                   ELSE On(turns, b, Answers) = {}
      /\ \A i \in On(turns, b, {"challenged"}), j \in On(turns, b, Answers) : i < j
      /\ \A i \in On(turns, b, Answers) : turns[i].draft.disposition = ResponseOf(c, b)
    BY <1>1 DEF Debated
<1>3. ASSUME NEW d \in Answers
      PROVE  On(turns, b, {d}) # {} <=> c.verdict = "conflict" /\ ResponseOf(c, b) = d
    <2>1. \A i : i \in On(turns, b, {d}) <=>
                   i \in On(turns, b, Answers) /\ turns[i].draft.disposition = d
        BY DEF On
    <2>2. c.verdict = "conflict" => \E i : i \in On(turns, b, Answers)
        BY <1>2 DEF One
    <2>3. c.verdict # "conflict" => \A i : i \notin On(turns, b, Answers)
        BY <1>2
    <2> QED BY <1>2, <2>1, <2>2, <2>3
<1> QED BY <1>2, <1>3

\* A hearing that is over was heard in full.
LEMMA InvHeardInFull ==
    ASSUME CourtInv
    PROVE  HeardInFull
PROOF
<1>1. answer.kind # "failed"
    BY DEF CourtInv, Answered
<1>2. Len(court.trace) <= MaxIterations
    <2>1. CASE court.node = "none"
        BY <2>1 DEF CourtInv, NoCourt, MaxIterations
    <2>2. CASE court.node # "none"
        <3>1. Len(court.trace) <= Stage[court.node] /\ court.trace \in Seq(Nodes \ {"none"})
              /\ court.node \in Nodes \ {"none"}
            BY <2>2, Seated DEF Traced
        <3>2. Stage[court.node] \in 0 .. 10
            BY <3>1, Stages DEF Nodes, Edges
        <3>3. Len(court.trace) \in Nat
            BY <3>1, LenProperties
        <3> QED BY <3>1, <3>2, <3>3 DEF MaxIterations
    <2> QED BY <2>1, <2>2
<1>3. ASSUME answer.kind = "heard"
      PROVE  LET t == answer.transcript
                 turns == t.turns IN
             /\ \A i \in DOMAIN turns : turns[i].no = i
             /\ \A i, j \in DOMAIN turns : i < j => turns[i].draft.round <= turns[j].draft.round
             /\ \A b \in Bindings(case) :
                  LET asserted == On(turns, b, {"asserted"})
                      challenged == On(turns, b, {"challenged"})
                      answered == On(turns, b, Answers) IN
                  /\ Cardinality(asserted) = 1
                  /\ Cardinality(challenged) = IF t.verdict = "conflict" THEN 1 ELSE 0
                  /\ Cardinality(answered) = Cardinality(challenged)
                  /\ \A i \in challenged, j \in answered : i < j
                  /\ On(turns, b, {"defended"}) # {} <=>
                       t.verdict = "conflict" /\ case.owner /\ b = case.candidate
                  /\ On(turns, b, {"narrowed"}) # {} =>
                       \A o \in Bindings(case) : On(turns, o, {"defended"}) # {} =>
                         /\ EntitySet(case, o) \subseteq EntitySet(case, b)
                         /\ EntitySet(case, o) # EntitySet(case, b)
             /\ Cardinality({i \in DOMAIN t.trace : t.trace[i] = "Replan"}) =
                  IF \E l, r \in Bindings(case) :
                       /\ EntitySet(case, l) # EntitySet(case, r)
                       /\ Cardinality(EntitySet(case, l)) = Cardinality(EntitySet(case, r))
                  THEN 1 ELSE 0
             /\ t.outcome = "refusal" <=> turns[Len(turns)].draft.disposition = "refused"
             /\ t.outcome = "refusal" <=> t.verdict = "conflict" /\ ~case.owner
    <2> DEFINE t == answer.transcript
               turns == t.turns
    <2>1. /\ Ready(case) /\ case \in Cases
          /\ HeardSoFar(case, turns, AfterAudit) /\ Traced(case, t.trace, AfterAudit)
          /\ t.verdict = case.verdict /\ t.outcome = EarnedOutcome(case)
        BY <1>3, HeardIsWhole
    <2> HIDE DEF t
    <2>2. /\ \A i \in DOMAIN turns : turns[i].no = i
          /\ \A i, j \in DOMAIN turns : i < j => turns[i].draft.round <= turns[j].draft.round
        BY <2>1 DEF HeardSoFar, Numbered
    <2>3. case.owner \in BOOLEAN
        BY <2>1, ReadyCase
    <2>4. \A b \in Bindings(case) :
            /\ ResponseOf(case, b) = "defended" <=> case.owner /\ b = case.candidate
            /\ ResponseOf(case, b) = "narrowed" =>
                 /\ EntitySet(case, case.candidate) \subseteq EntitySet(case, b)
                 /\ EntitySet(case, case.candidate) # EntitySet(case, b)
        BY <2>3 DEF ResponseOf, Admits
    <2>5. "defended" \in Answers /\ "narrowed" \in Answers
        BY DEF Answers
    <2>6. ASSUME NEW b \in Bindings(case)
          PROVE  /\ Cardinality(On(turns, b, {"asserted"})) = 1
                 /\ Cardinality(On(turns, b, {"challenged"})) =
                      IF t.verdict = "conflict" THEN 1 ELSE 0
                 /\ Cardinality(On(turns, b, Answers)) = Cardinality(On(turns, b, {"challenged"}))
                 /\ \A i \in On(turns, b, {"challenged"}), j \in On(turns, b, Answers) : i < j
                 /\ On(turns, b, {"defended"}) # {} <=>
                      t.verdict = "conflict" /\ case.owner /\ b = case.candidate
                 /\ On(turns, b, {"narrowed"}) # {} =>
                      \A o \in Bindings(case) : On(turns, o, {"defended"}) # {} =>
                        /\ EntitySet(case, o) \subseteq EntitySet(case, b)
                        /\ EntitySet(case, o) # EntitySet(case, b)
        <3>1. /\ One(On(turns, b, {"asserted"}))
              /\ IF case.verdict = "conflict" THEN One(On(turns, b, {"challenged"}))
                                              ELSE On(turns, b, {"challenged"}) = {}
              /\ IF case.verdict = "conflict" THEN One(On(turns, b, Answers))
                                              ELSE On(turns, b, Answers) = {}
              /\ \A i \in On(turns, b, {"challenged"}), j \in On(turns, b, Answers) : i < j
            BY <2>1, BindingHeard
        <3>2. \A o \in Bindings(case) : On(turns, o, {"defended"}) # {} <=>
                 case.verdict = "conflict" /\ case.owner /\ o = case.candidate
            BY <2>1, <2>4, <2>5, BindingHeard
        <3>3. On(turns, b, {"narrowed"}) # {} => ResponseOf(case, b) = "narrowed"
            BY <2>1, <2>5, BindingHeard
        <3>4. /\ Cardinality(On(turns, b, {"asserted"})) = 1
              /\ Cardinality(On(turns, b, {"challenged"})) =
                   IF case.verdict = "conflict" THEN 1 ELSE 0
              /\ Cardinality(On(turns, b, Answers)) = IF case.verdict = "conflict" THEN 1 ELSE 0
            BY <3>1, OneCounts
        <3> QED BY <2>1, <2>4, <3>1, <3>2, <3>3, <3>4
    <2>7. Cardinality({i \in DOMAIN t.trace : t.trace[i] = "Replan"}) =
            IF \E l, r \in Bindings(case) :
                 /\ EntitySet(case, l) # EntitySet(case, r)
                 /\ Cardinality(EntitySet(case, l)) = Cardinality(EntitySet(case, r))
            THEN 1 ELSE 0
        <3>1. IF NeedsTargetedReplan(case) THEN One(ReplanAt(t.trace)) ELSE ReplanAt(t.trace) = {}
            BY <2>1 DEF Traced, AfterAudit
        <3>2. Cardinality(ReplanAt(t.trace)) = IF NeedsTargetedReplan(case) THEN 1 ELSE 0
            BY <3>1, OneCounts
        <3> QED BY <2>1, <3>2, EqualTotals DEF ReplanAt
    <2>8. /\ t.outcome = "refusal" <=> turns[Len(turns)].draft.disposition = "refused"
          /\ t.outcome = "refusal" <=> t.verdict = "conflict" /\ ~case.owner
        BY <2>1, ReadyCase DEF HeardSoFar, Closed
    <2> QED BY <2>2, <2>6, <2>7, <2>8 DEF t
<1> QED BY <1>1, <1>2, <1>3 DEF HeardInFull

\* The types, from both invariants.
LEMMA InvTypes ==
    ASSUME CourtInv, RecordInv
    PROVE  CourtAndRecordTypeOK
PROOF
<1>1. \A i \in DOMAIN court.trace : court.trace[i] \in Nodes \ {"none"}
    BY LenProperties DEF CourtInv, Boards
<1>2. CourtTypeOK
    BY <1>1 DEF CourtTypeOK, CourtInv, Boards, Answered
<1>3. RecordTypeOK
    BY DEF RecordInv
<1> QED BY <1>2, <1>3 DEF CourtAndRecordTypeOK

\* The capture cleans up after itself.
LEMMA InvCaptureCleansUp ==
    ASSUME RecordInv
    PROVE  CaptureCleansUp
BY DEF RecordInv, CaptureCleansUp

\* The digest is that of the words, whatever the mode.
LEMMA ReplayedParts ==
    ASSUME NEW t, Parts(t)
    PROVE  LET r == Replayed(t) IN
           /\ r.mode = "replayed" /\ r.digest = t.digest /\ r.turns = t.turns
           /\ ContentDigest(r) = ContentDigest(t)
PROOF
<1>1. PICK r : r = [t EXCEPT !.mode = "replayed"]
    OBVIOUS
<1>2. /\ r.mode = "replayed" /\ r.verdict = t.verdict /\ r.outcome = t.outcome
      /\ r.owner = t.owner /\ r.evidence = t.evidence /\ r.trace = t.trace
      /\ r.turns = t.turns /\ r.digest = t.digest
    BY <1>1 DEF Parts
<1>3. ContentDigest(r) = ContentDigest(t)
    BY <1>2 DEF ContentDigest
<1> QED BY <1>1, <1>2, <1>3 DEF Replayed

\* The roles of a debate that is over.
LEMMA AllRoles ==
    ASSUME NEW c, NEW turns, HeardSoFar(c, turns, AfterAudit)
    PROVE  CourtRoles \subseteq RolesHeard(turns)
BY DEF HeardSoFar, AfterAudit, Recorded, CourtRoles

\* What the command wrote keeps the record of what was heard.
LEMMA WrittenKeeps ==
    ASSUME CourtInv, answer.kind = "heard",
           NEW s, s = SanitizeTranscript(answer.transcript)
    PROVE  /\ ~ SecretShaped(s) => Accepted(Saved(s))
           /\ SameDebate(s, answer.transcript) /\ SameProvenance(s, answer.transcript)
           /\ s.digest = ContentDigest(s)
PROOF
<1> DEFINE h == answer.transcript
<1>1. /\ Parts(h) /\ h.turns \in Seq(Turns) /\ HeardSoFar(case, h.turns, AfterAudit)
      /\ h.mode = IF \E i \in DOMAIN h.turns : h.turns[i].voice.generated
                  THEN "live_captured" ELSE "deterministic_fallback"
      /\ Cleaned(h, s)
    BY HeardIsWhole
<1> HIDE DEF h
<1>2. ASSUME NEW i \in DOMAIN h.turns
      PROVE  s.turns[i].draft = h.turns[i].draft
    <2>1. h.turns[i] \in Turns /\ s.turns[i] = RedactedTurn(h.turns[i])
        BY <1>1, LenProperties DEF Cleaned
    <2> QED BY <2>1, TurnRedacted
<1>3. DOMAIN s.turns = DOMAIN h.turns /\ s.mode = h.mode /\ s.digest = ContentDigest(s)
    BY <1>1 DEF Cleaned
<1>4. CourtRoles \subseteq {s.turns[i].draft.role : i \in DOMAIN s.turns}
    <2>1. CourtRoles \subseteq {h.turns[i].draft.role : i \in DOMAIN h.turns}
        BY <1>1, AllRoles DEF RolesHeard
    <2> QED BY <1>2, <1>3, <2>1
<1>5. s.mode \in CaptureModes
    BY <1>1, <1>3 DEF CaptureModes
<1>6. ~ SecretShaped(s) => Accepted(Saved(s))
    BY <1>3, <1>4, <1>5 DEF Accepted, Saved
<1>7. SameDebate(s, h) /\ SameProvenance(s, h)
    BY <1>1, CleanedIsSame
<1> QED BY <1>3, <1>6, <1>7 DEF h

\* A file keeps the record of the debate, or is refused.
LEMMA InvReplayKeeps ==
    ASSUME CourtInv, RecordInv
    PROVE  ReplayKeepsTheRecord
PROOF
<1> SUFFICES ASSUME file.kind = "whole"
             PROVE  LET t == file.transcript
                        h == answer.transcript IN
                    /\ Accepted(file) => SameDebate(t, h)
                    /\ ~touched => /\ SameDebate(t, h) /\ SameProvenance(t, h)
                                   /\ ~SecretShaped(t) => Accepted(file)
                    /\ \A i \in DOMAIN t.turns : t.turns[i].voice.words # "identifier"
                    /\ ~Accepted(Saved(Replayed(t)))
                    /\ Replayed(t).digest = ContentDigest(Replayed(t)) <=> t.digest = ContentDigest(t)
    BY DEF ReplayKeepsTheRecord
<1>1. PICK s : s = SanitizeTranscript(answer.transcript)
    OBVIOUS
<1>2. PICK t : t = file.transcript
    OBVIOUS
<1>3. /\ answer.kind = "heard" /\ file = Saved(t) /\ FiledFor(s, t)
      /\ touched = FALSE => file = Saved(s)
    BY <1>1, <1>2 DEF RecordInv, Filed
<1>4. /\ ~ SecretShaped(s) => Accepted(Saved(s))
      /\ SameDebate(s, answer.transcript) /\ SameProvenance(s, answer.transcript)
      /\ s.digest = ContentDigest(s)
    BY <1>1, <1>3, WrittenKeeps
<1>5. touched = FALSE => t = s
    BY <1>3 DEF Saved
<1>6. Accepted(file) => SameDebate(t, answer.transcript)
    <2> SUFFICES ASSUME Accepted(file) PROVE SameDebate(t, answer.transcript)
        OBVIOUS
    <2>1. ContentDigest(t) = ContentDigest(s)
        BY <1>2, <1>3, <1>4 DEF Accepted, FiledFor
    <2> QED BY <1>4, <2>1, DigestCovers DEF SameDebate
<1>7. \A i \in DOMAIN t.turns : t.turns[i].voice.words # "identifier"
    <2>1. \A i \in DOMAIN t.turns : t.turns[i] \in FiledTurns
        BY <1>3, LenProperties DEF FiledFor
    <2> QED BY <2>1 DEF FiledTurns
<1>8. /\ Replayed(t).mode = "replayed" /\ Replayed(t).digest = t.digest
      /\ ContentDigest(Replayed(t)) = ContentDigest(t)
    BY <1>3, ReplayedParts DEF FiledFor
<1>9. ~ Accepted(Saved(Replayed(t)))
    BY <1>8 DEF Accepted, Saved, CaptureModes
<1>10. touched \in BOOLEAN
    BY DEF RecordInv, RecordTypeOK
<1> QED BY <1>2, <1>3, <1>4, <1>5, <1>6, <1>7, <1>8, <1>9, <1>10

-----------------------------------------------------------------------------
\* The theorems.

\* Every step of the composition keeps both invariants.
LEMMA BothStep ==
    ASSUME CourtInv, RecordInv, [MCCourtNext]_mcCourtVars
    PROVE  CourtInv' /\ RecordInv'
PROOF
<1>1. CourtNext \/ UNCHANGED courtVars
    BY DEF MCCourtNext, mcCourtVars, RecordNext, CreateSchema, SetUp, RunCase, Deliberate,
           Conclude, DropSchema, OpenFile, WriteTranscript, CaptureDies, EditFile, SaveReplay
<1>2. RecordNext \/ (CourtNext /\ UNCHANGED recordVars) \/ UNCHANGED <<courtVars, recordVars>>
    BY DEF MCCourtNext, mcCourtVars
<1> QED BY <1>1, <1>2, CourtStep, RecordStep

\* The invariants hold in every reachable state of hearing and capture.
THEOREM CourtInvariance == MCCourtSpec => [](CourtInv /\ RecordInv)
PROOF
<1>1. MCCourtInit => CourtInv /\ RecordInv
    BY CourtStarts, RecordStarts DEF MCCourtInit
<1>2. (CourtInv /\ RecordInv) /\ [MCCourtNext]_mcCourtVars => (CourtInv /\ RecordInv)'
    BY BothStep
<1> QED BY <1>1, <1>2, PTL DEF MCCourtSpec

\* The blackboard, the answer, the capture and the file have their types, and no
\* hearing fails.
THEOREM CourtTypes == MCCourtSpec => []CourtAndRecordTypeOK
PROOF
<1>1. CourtInv /\ RecordInv => CourtAndRecordTypeOK
    BY InvTypes
<1> QED BY <1>1, CourtInvariance, PTL

\* Every hearing of a ready case is heard in full (workflow.py, orchestrator.py):
\* no verdict is without a branch, no audit finds fault, and in the transcript
\* every binding has had its say as the verdict asks.
THEOREM HearingsAreFull == MCCourtSpec => []HeardInFull
PROOF
<1>1. CourtInv => HeardInFull
    BY InvHeardInFull
<1> QED BY <1>1, CourtInvariance, PTL

\* A file the check accepts has the verdict, the turns and the words of the debate
\* that was heard, though sentences, outcome, mode and voices of the file may have
\* been edited; what the command wrote has its mode and its voices too (capture.py,
\* replay.py, deliberation_check.py).
THEOREM RecordKept == MCCourtSpec => []ReplayKeepsTheRecord
PROOF
<1>1. CourtInv /\ RecordInv => ReplayKeepsTheRecord
    BY InvReplayKeeps
<1> QED BY <1>1, CourtInvariance, PTL

\* A capture drops its schema, unless making it ready or dropping it failed or
\* the command was killed (capture.py, _fresh_runner).
THEOREM CapturesCleanUp == MCCourtSpec => []CaptureCleansUp
PROOF
<1>1. RecordInv => CaptureCleansUp
    BY InvCaptureCleansUp
<1> QED BY <1>1, CourtInvariance, PTL
=============================================================================
