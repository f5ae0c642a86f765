-------------------------- MODULE RepositoryProofs --------------------------
(***************************************************************************)
(* What ReconciliationRepository guarantees for every number of runs,      *)
(* terms, owners, requests and workers, proved with TLAPS.                 *)
(***************************************************************************)
EXTENDS ReconciliationRepository, FiniteSetTheorems, WellFoundedInduction, TLAPS

-----------------------------------------------------------------------------
\* Versions: _next_version takes a maximum, which has to exist.

\* A finite nonempty set of numbers has a largest element: a smallest set
\* without one would have one.
LEMMA LargestExists ==
    ASSUME NEW S \in SUBSET Nat, S # {}, IsFiniteSet(S)
    PROVE  \E m \in S : \A n \in S : m >= n
PROOF
<1> DEFINE Largest(T) == \E m \in T : \A n \in T : m >= n
           Bad == {T \in SUBSET S : T # {} /\ ~ Largest(T)}
           Smaller == StrictSubsetOrdering(S)
<1>1. SUFFICES ASSUME Bad # {} PROVE FALSE
    OBVIOUS
<1>2. Bad \subseteq FiniteSubsetsOf(S)
    BY FS_FiniteSubsetsOfFinite
<1>3. IsWellFoundedOn(Smaller, FiniteSubsetsOf(S))
    BY FS_StrictSubsetOrderingWellFounded
<1>4. PICK T \in Bad : \A U \in Bad : <<U, T>> \notin Smaller
    <2> HIDE DEF Bad, Smaller
    <2> QED BY <1>1, <1>2, <1>3, WFMin
<1>5. PICK x \in T : TRUE
    OBVIOUS
<1> DEFINE U == T \ {x}
<1>6. U \in SUBSET S /\ <<U, T>> \in Smaller
    BY DEF StrictSubsetOrdering
<1>7. U = {} \/ Largest(U)
    BY <1>4, <1>6
<1>8. CASE U = {}
    BY <1>8
<1>9. CASE Largest(U)
    <2>1. PICK m \in U : \A n \in U : m >= n
        BY <1>9
    <2>2. m \in Nat /\ x \in Nat /\ T \subseteq Nat
        OBVIOUS
    <2>3. \A n \in T : n = x \/ n \in U
        OBVIOUS
    <2>4. CASE m >= x
        BY <2>1, <2>2, <2>3, <2>4
    <2>5. CASE x >= m
        BY <2>1, <2>2, <2>3, <2>5
    <2> QED BY <2>2, <2>4, <2>5
<1> QED BY <1>7, <1>8, <1>9

\* _next_version returns a number above the version of every row it is given.
LEMMA NextVersionAbove ==
    ASSUME TypeOK, NEW rows \in SUBSET Rows
    PROVE  /\ NextVersion(rows) \in Nat
           /\ \A i \in rows : defs[i].version < NextVersion(rows)
PROOF
<1> DEFINE V == {defs[i].version : i \in rows}
           S == {0} \cup V
           f == [i \in rows |-> defs[i].version]
<1>1. \A i \in rows : defs[i].version \in Nat
    BY DEF TypeOK, DefRow
<1>2. S \in SUBSET Nat /\ S # {}
    BY <1>1
<1>3. IsFiniteSet(rows)
    BY FS_Subset, ConstantsAssumption DEF TypeOK
<1>4. f \in Surjection(rows, V)
    BY DEF Surjection
<1>5. IsFiniteSet(V)
    BY <1>3, <1>4, FS_Surjection
<1>6. IsFiniteSet(S)
    <2>1. IsFiniteSet(V \cup {0})
        BY <1>5, FS_AddElement
    <2>2. V \cup {0} = S
        OBVIOUS
    <2> QED BY <2>1, <2>2
<1>7. \E m \in S : \A n \in S : m >= n
    <2> HIDE DEF S
    <2> QED BY <1>2, <1>6, LargestExists
<1>8. Max(S) \in S /\ \A n \in S : Max(S) >= n
    <2> HIDE DEF S
    <2> QED BY <1>7 DEF Max
<1>9. NextVersion(rows) = Max(S) + 1
    BY DEF NextVersion
<1> QED
    <2>1. \A i \in rows : defs[i].version \in S
        OBVIOUS
    <2>2. Max(S) \in Nat /\ \A i \in rows : Max(S) >= defs[i].version
        <3> HIDE DEF S
        <3> QED BY <1>2, <1>8, <2>1
    <2> HIDE DEF S
    <2> QED BY <1>1, <1>9, <2>2

-----------------------------------------------------------------------------
\* Types.

\* What a request's own fields are taken from.
LEMMA RequestTypes ==
    ASSUME TypeOK, NEW q \in Requests
    PROVE  /\ job[q] \in Jobs
           /\ run(q) \in Runs
           /\ term(q) \in Terms
           /\ OwnerOf[run(q)] \in Owners
           /\ SlugOf[OwnerOf[run(q)]] \in Slugs
           /\ job[q].op \in Ops
           /\ job[q].actor \in Owners
PROOF
BY ConstantsAssumption DEF TypeOK, Jobs, run, term

\* An empty or seeded registry with all requests waiting has the types.
LEMMA TypeInit == Init => TypeOK
PROOF
<1> SUFFICES ASSUME Init PROVE TypeOK
    OBVIOUS
<1> USE ConstantsAssumption DEF Init
<1>1. Rows = {} /\ defs \in [Rows -> DefRow]
    BY DEF Rows
<1>2. terms \subseteq Terms /\ runs \subseteq Runs
    OBVIOUS
<1>3. job \in [Requests -> Jobs]
    BY DEF ClientJobs
<1> QED BY <1>1, <1>2, <1>3 DEF TypeOK, Statements, Outcomes, Rows

\* Every statement of every session writes values of the columns' types; the
\* version an approval computes is a number because a maximum exists.
LEMMA TypeStep == TypeOK /\ [Next]_vars => TypeOK'
PROOF
<1> SUFFICES ASSUME TypeOK, [Next]_vars PROVE TypeOK'
    OBVIOUS
<1>u. CASE UNCHANGED vars
    BY <1>u DEF TypeOK, vars, tables, local, Rows
<1>q. SUFFICES ASSUME NEW q \in Requests, Start(q) \/ Step(q) \/ Fail(q)
               PROVE  TypeOK'
    BY <1>u DEF Next
<1>t. /\ job[q] \in Jobs /\ run(q) \in Runs /\ term(q) \in Terms
      /\ OwnerOf[run(q)] \in Owners /\ SlugOf[OwnerOf[run(q)]] \in Slugs
      /\ job[q].op \in Ops /\ job[q].actor \in Owners
    BY RequestTypes
<1> USE DEF TypeOK, tables, local, Goto, Answer, Statements, Outcomes, Rows
<1>1. CASE Start(q)
    BY <1>1, <1>t DEF Start, FirstStep, Jobs
<1>2. CASE Fail(q)
    BY <1>2, <1>t DEF Fail
<1>3. CASE HasRun(q)
    BY <1>3, <1>t DEF HasRun
<1>4. CASE SelectTerm(q)
    BY <1>4, <1>t DEF SelectTerm
<1>5. CASE InsertTerm(q)
    <2>1. <<"term", term(q)>> \in Key
        BY <1>t DEF Key
    <2>2. made' \in [Requests -> SUBSET Key]
        BY <1>5, <2>1 DEF InsertTerm, IntegrityError
    <2> QED BY <1>5, <2>2 DEF InsertTerm, IntegrityError
<1>6. CASE InsertRun(q)
    <2>1. <<"run", run(q)>> \in Key
        BY <1>t DEF Key
    <2>2. made' \in [Requests -> SUBSET Key]
        BY <1>6, <2>1 DEF InsertRun, IntegrityError
    <2> QED BY <1>6, <2>2 DEF InsertRun, IntegrityError
<1>7. CASE CommitSave(q)
    BY <1>7, <1>t DEF CommitSave
<1>8. CASE Recheck(q)
    BY <1>8, <1>t DEF Recheck
<1>9. CASE LockProposal(q)
    <2>1. \/ \E o \in {"not_found", "already_decided", "unauthorized"} : Answer(q, o)
          \/ \E l \in {"snapshot", "decide"} : Goto(q, l) /\ UNCHANGED <<outcome, made>>
        BY <1>9 DEF LockProposal
    <2>2. UNCHANGED <<tables, job, snap, prior, version, found>>
        BY <1>9 DEF LockProposal
    <2> QED BY <2>1, <2>2
<1>10. CASE SnapshotDefinitions(q)
    BY <1>10, <1>t DEF SnapshotDefinitions, RowsOf
<1>11. CASE LockDefinitions(q)
    <2>1. NextVersion(snap[q]) \in Nat
        BY NextVersionAbove
    <2>2. prior' \in [Requests -> SUBSET Requests]
        BY <1>11 DEF LockDefinitions
    <2> QED BY <1>11, <2>1, <2>2 DEF LockDefinitions
<1>12. CASE SelectUnit(q)
    BY <1>12, <1>t DEF SelectUnit
<1>13. CASE InsertUnit(q)
    <2>1. <<"unit", SlugOf[OwnerOf[run(q)]]>> \in Key
        BY <1>t DEF Key
    <2>2. made' \in [Requests -> SUBSET Key]
        BY <1>13, <2>1 DEF InsertUnit
    <2> QED BY <1>13, <2>2 DEF InsertUnit
<1>14. CASE CommitApproval(q)
    <2>1. Rows' \subseteq Requests /\ Rows \subseteq Rows' /\ defs' \in [Rows' -> DefRow]
        <3>1. defs' = Promoted(q) /\ Rows' = Rows \cup {q}
            BY <1>14, <1>t DEF CommitApproval, Promoted
        <3>2. \A i \in Rows \cup {q} : Promoted(q)[i] \in DefRow
            BY <1>t DEF Promoted, DefRow
        <3>3. Promoted(q) \in [Rows \cup {q} -> DefRow]
            BY <3>2 DEF Promoted
        <3> QED BY <3>1, <3>3
    <2>2. decisions' \subseteq Decision /\ promotions' \subseteq Promotion
        BY <1>14, <1>t DEF CommitApproval, Decision, Promotion
    <2>3. /\ status' \in [Runs -> {"none", "draft", "approved", "rejected"}]
          /\ link' \in [Runs -> Requests \cup {NoDef}]
          /\ units' \subseteq Slugs
        BY <1>14, <1>t DEF CommitApproval, Linked
    <2>4. /\ pc' \in [Requests -> Statements \cup {"waiting", "done"}]
          /\ outcome' \in [Requests -> Outcomes]
          /\ made' \in [Requests -> SUBSET Key]
          /\ UNCHANGED <<terms, runs, job, snap, prior, version, found>>
        BY <1>14, <1>t DEF CommitApproval
    <2> HIDE DEF Rows
    <2> QED BY <2>1, <2>2, <2>3, <2>4
<1>15. CASE CommitRejection(q)
    BY <1>15, <1>t DEF CommitRejection, Decision
<1>16. CASE FindTerm(q)
    BY <1>16, <1>t DEF FindTerm
<1>17. CASE FindCanonical(q)
    <2>1. CanonicalOf(term(q)) \subseteq Requests
        BY DEF CanonicalOf, RowsOf
    <2>2. found' \in [Requests -> Requests \cup {NoDef}]
        BY <1>17, <2>1 DEF FindCanonical
    <2> QED BY <1>17, <2>2 DEF FindCanonical
<1>18. CASE FindProposal(q)
    BY <1>18, <1>t DEF FindProposal
<1>19. CASE FindPromotion(q)
    BY <1>19, <1>t DEF FindPromotion
<1> QED
    BY <1>q, <1>1, <1>2, <1>3, <1>4, <1>5, <1>6, <1>7, <1>8, <1>9, <1>10, <1>11, <1>12,
       <1>13, <1>14, <1>15, <1>16, <1>17, <1>18, <1>19 DEF Step

\* Every reachable state has the types of TypeOK.
THEOREM TypeCorrect == Spec => []TypeOK
PROOF
<1>1. Init => TypeOK
    BY TypeInit
<1>2. TypeOK /\ [Next]_vars => TypeOK'
    BY TypeStep
<1> QED BY <1>1, <1>2, PTL DEF Spec

-----------------------------------------------------------------------------
\* Frames: what one step of one request leaves alone.

Moves(q) == Start(q) \/ Step(q) \/ Fail(q)

Commits(q) == CommitSave(q) \/ CommitApproval(q) \/ CommitRejection(q)

\* A step of q changes no other request, and no request changes what it asks.
LEMMA OthersUnmoved ==
    ASSUME TypeOK, NEW q \in Requests, Moves(q)
    PROVE  /\ job' = job
           /\ \A p \in Requests \ {q} :
                /\ pc'[p] = pc[p]
                /\ made'[p] = made[p]
                /\ snap'[p] = snap[p]
                /\ prior'[p] = prior[p]
                /\ version'[p] = version[p]
                /\ found'[p] = found[p]
                /\ outcome'[p] = outcome[p]
PROOF
<1> USE DEF TypeOK, Goto, Answer, IntegrityError, local
<1>1. CASE Start(q)
    BY <1>1 DEF Start
<1>2. CASE Fail(q)
    BY <1>2 DEF Fail
<1>3. CASE HasRun(q) \/ SelectTerm(q) \/ InsertTerm(q) \/ InsertRun(q) \/ Recheck(q)
    BY <1>3 DEF HasRun, SelectTerm, InsertTerm, InsertRun, Recheck
<1>4. CASE CommitSave(q) \/ CommitApproval(q) \/ CommitRejection(q)
    BY <1>4 DEF CommitSave, CommitApproval, CommitRejection
<1>5. CASE LockProposal(q)
    BY <1>5 DEF LockProposal
<1>6. CASE SnapshotDefinitions(q) \/ LockDefinitions(q)
    BY <1>6 DEF SnapshotDefinitions, LockDefinitions
<1>7. CASE SelectUnit(q) \/ InsertUnit(q)
    BY <1>7 DEF SelectUnit, InsertUnit
<1>8. CASE FindTerm(q) \/ FindCanonical(q) \/ FindProposal(q) \/ FindPromotion(q)
    BY <1>8 DEF FindTerm, FindCanonical, FindProposal, FindPromotion
<1> QED
    BY <1>1, <1>2, <1>3, <1>4, <1>5, <1>6, <1>7, <1>8 DEF Moves, Step

\* Nothing is visible to other sessions before a commit.
LEMMA OnlyCommitsWrite ==
    ASSUME NEW q \in Requests, Moves(q), ~ Commits(q)
    PROVE  UNCHANGED tables
PROOF
BY DEF Moves, Commits, Step, Start, Fail, HasRun, SelectTerm, InsertTerm, InsertRun, Recheck,
       LockProposal, SnapshotDefinitions, LockDefinitions, SelectUnit, InsertUnit,
       FindTerm, FindCanonical, FindProposal, FindPromotion

\* The rows after an approval: the old ones, of the same term and version, and
\* the new one; only rows it had locked as canonical change state.
LEMMA PromotedRows ==
    ASSUME TypeOK, NEW q \in Requests, CommitApproval(q)
    PROVE  /\ Rows' = Rows \cup {q}
           /\ defs'[q] = [term |-> term(q), version |-> version[q], state |-> "canonical"]
           /\ \A i \in Rows \ {q} :
                /\ defs'[i].term = defs[i].term
                /\ defs'[i].version = defs[i].version
                /\ defs'[i].state = IF i \in prior[q] THEN "superseded" ELSE defs[i].state
PROOF
<1>1. defs' = Promoted(q)
    BY DEF CommitApproval
<1>2. \A i \in Rows : defs[i] \in DefRow
    BY DEF TypeOK
<1> QED BY <1>1, <1>2 DEF Promoted, Rows, DefRow

-----------------------------------------------------------------------------
\* The inductive invariant, one lemma per part.

\* A session goes from one statement of its operation to another of it.
LEMMA SessionsStep ==
    ASSUME TypeOK, SessionsInOrder, NEW q \in Requests, Moves(q)
    PROVE  SessionsInOrder'
PROOF
<1>1. /\ job' = job
      /\ \A p \in Requests \ {q} :
           pc'[p] = pc[p] /\ made'[p] = made[p] /\ outcome'[p] = outcome[p]
    BY OthersUnmoved
<1>2. SUFFICES /\ pc'[q] \in StatementsOf(job[q].op) \cup {"waiting", "done"}
               /\ pc'[q] # "done" => outcome'[q] = "none"
               /\ pc'[q] \in {"waiting", "done"} => made'[q] = {}
    BY <1>1 DEF SessionsInOrder, Active
<1>3. /\ pc[q] \in StatementsOf(job[q].op) \cup {"waiting", "done"}
      /\ pc[q] # "done" => outcome[q] = "none"
      /\ pc[q] \in {"waiting", "done"} => made[q] = {}
    BY DEF SessionsInOrder, Active
<1>4. job[q].op \in {"save", "import", "approved", "rejected", "lookup"}
    BY RequestTypes, ConstantsAssumption
<1> USE DEF TypeOK, Goto, Answer, IntegrityError, local, StatementsOf
<1>5. CASE Start(q)
    BY <1>3, <1>4, <1>5 DEF Start, FirstStep
<1>6. CASE Fail(q) \/ HasRun(q) \/ SelectTerm(q) \/ Recheck(q)
    BY <1>3, <1>4, <1>6 DEF Fail, HasRun, SelectTerm, Recheck
<1>7. CASE InsertTerm(q)
    BY <1>3, <1>4, <1>7 DEF InsertTerm
<1>8. CASE InsertRun(q)
    BY <1>3, <1>4, <1>8 DEF InsertRun
<1>9. CASE Commits(q)
    BY <1>3, <1>4, <1>9 DEF Commits, CommitSave, CommitApproval, CommitRejection
<1>10. CASE LockProposal(q)
    BY <1>3, <1>4, <1>10 DEF LockProposal
<1>11. CASE SnapshotDefinitions(q) \/ LockDefinitions(q)
    BY <1>3, <1>4, <1>11 DEF SnapshotDefinitions, LockDefinitions
<1>12. CASE SelectUnit(q) \/ InsertUnit(q)
    BY <1>3, <1>4, <1>12 DEF SelectUnit, InsertUnit
<1>13. CASE FindTerm(q) \/ FindCanonical(q) \/ FindProposal(q) \/ FindPromotion(q)
    BY <1>3, <1>4, <1>13 DEF FindTerm, FindCanonical, FindProposal, FindPromotion
<1> QED
    BY <1>5, <1>6, <1>7, <1>8, <1>9, <1>10, <1>11, <1>12, <1>13 DEF Moves, Step, Commits

\* The run keys a step adds or takes away are those of its own run.
LEMMA RunKeysMade ==
    ASSUME TypeOK, NEW q \in Requests, Moves(q), NEW r \in Runs, <<"run", r>> \in made'[q]
    PROVE  \/ <<"run", r>> \in made[q] /\ pc'[q] # "done"
           \/ InsertRun(q) /\ r = run(q) /\ r \notin runs /\ KeyFree(q, <<"run", r>>)
PROOF
<1> USE DEF TypeOK, Goto, Answer, IntegrityError, local
<1>1. CASE Start(q)
    BY <1>1 DEF Start, FirstStep
<1>2. CASE Fail(q) \/ HasRun(q) \/ SelectTerm(q) \/ Recheck(q) \/ LockProposal(q)
    BY <1>2 DEF Fail, HasRun, SelectTerm, Recheck, LockProposal
<1>3. CASE InsertTerm(q)
    BY <1>3 DEF InsertTerm
<1>4. CASE InsertRun(q)
    BY <1>4 DEF InsertRun
<1>5. CASE Commits(q)
    BY <1>5 DEF Commits, CommitSave, CommitApproval, CommitRejection
<1>6. CASE SnapshotDefinitions(q) \/ LockDefinitions(q) \/ SelectUnit(q)
    BY <1>6 DEF SnapshotDefinitions, LockDefinitions, SelectUnit
<1>7. CASE InsertUnit(q)
    BY <1>7 DEF InsertUnit
<1>8. CASE FindTerm(q) \/ FindCanonical(q) \/ FindProposal(q) \/ FindPromotion(q)
    BY <1>8 DEF FindTerm, FindCanonical, FindProposal, FindPromotion
<1> QED
    BY <1>1, <1>2, <1>3, <1>4, <1>5, <1>6, <1>7, <1>8 DEF Moves, Step, Commits

\* runs only grows, by the run of a save that held its key.
LEMMA RunsGrow ==
    ASSUME TypeOK, RunKeys, NEW q \in Requests, Moves(q)
    PROVE  /\ runs \subseteq runs'
           /\ \A r \in runs' \ runs : CommitSave(q) /\ r = run(q) /\ <<"run", r>> \in made[q]
PROOF
<1>1. CASE CommitSave(q)
    BY <1>1 DEF CommitSave, RunKeys
<1>2. CASE CommitApproval(q) \/ CommitRejection(q)
    BY <1>2 DEF CommitApproval, CommitRejection
<1>3. CASE ~ Commits(q)
    BY <1>3, OnlyCommitsWrite DEF tables
<1> QED BY <1>1, <1>2, <1>3 DEF Commits

\* The unique run id keeps two transactions from saving the same run.
LEMMA RunKeysStep ==
    ASSUME TypeOK, RunKeys, ProposalLocks, NEW q \in Requests, Moves(q)
    PROVE  RunKeys'
PROOF
<1>1. /\ job' = job
      /\ \A p \in Requests \ {q} : pc'[p] = pc[p] /\ made'[p] = made[p]
    BY OthersUnmoved
<1>2. \A p \in Requests, r \in Runs : <<"run", r>> \in made'[p] =>
        /\ r \notin runs'
        /\ \A o \in Requests \ {p} : <<"run", r>> \notin made'[o]
    <2> SUFFICES ASSUME NEW p \in Requests, NEW r \in Runs, <<"run", r>> \in made'[p]
                 PROVE  /\ r \notin runs'
                        /\ \A o \in Requests \ {p} : <<"run", r>> \notin made'[o]
        OBVIOUS
    <2>1. CASE p = q /\ <<"run", r>> \in made[q] /\ pc'[q] # "done"
        <3>1. ~ CommitSave(q)
            BY <2>1 DEF CommitSave, Answer, Goto, TypeOK
        <3> QED BY <1>1, <2>1, <3>1, RunsGrow DEF RunKeys
    <2>2. CASE p = q /\ InsertRun(q) /\ r \notin runs /\ KeyFree(q, <<"run", r>>)
        <3>1. runs' = runs
            BY <2>2 DEF InsertRun, tables
        <3> QED BY <1>1, <2>2, <3>1 DEF KeyFree
    <2>3. CASE p # q
        <3>1. <<"run", r>> \in made[p]
            BY <1>1, <2>3
        <3>2. r \notin runs'
            BY <2>3, <3>1, RunsGrow DEF RunKeys
        <3>3. <<"run", r>> \notin made'[q]
            BY <2>3, <3>1, RunKeysMade DEF RunKeys, KeyFree
        <3> QED BY <1>1, <2>3, <3>1, <3>2, <3>3 DEF RunKeys
    <2> QED BY <2>1, <2>2, <2>3, RunKeysMade
<1>3. \A p \in Requests : pc'[p] = "commit_save" => <<"run", run(p)>> \in made'[p]
    <2>1. pc'[q] = "commit_save" => InsertRun(q) /\ run(q) \notin runs
        BY DEF TypeOK, Moves, Step, Goto, Answer, IntegrityError, local, Start, FirstStep, Fail,
               HasRun, SelectTerm, InsertTerm, InsertRun, Recheck, CommitSave, CommitApproval,
               CommitRejection, LockProposal, SnapshotDefinitions, LockDefinitions, SelectUnit,
               InsertUnit, FindTerm, FindCanonical, FindProposal, FindPromotion
    <2>2. pc'[q] = "commit_save" => <<"run", run(q)>> \in made'[q]
        BY <2>1 DEF InsertRun, TypeOK
    <2> QED BY <1>1, <2>2 DEF RunKeys
<1>4. \A r \in Runs : status'[r] # "none" => r \in runs'
    <2>1. CASE CommitSave(q)
        BY <2>1 DEF CommitSave, TypeOK, RunKeys
    <2>2. CASE CommitApproval(q) \/ CommitRejection(q)
        BY <2>2 DEF CommitApproval, CommitRejection, TypeOK, RunKeys, ProposalLocks, HoldsProposal
    <2>3. CASE ~ Commits(q)
        BY <2>3, OnlyCommitsWrite DEF tables, RunKeys
    <2> QED BY <2>1, <2>2, <2>3 DEF Commits
<1> QED BY <1>1, <1>2, <1>3, <1>4 DEF RunKeys, run

\* A proposal's status changes when its run is saved and when the request that
\* holds it decides it, and at no other time.
LEMMA StatusChanges ==
    ASSUME TypeOK, RunKeys, ProposalLocks, NEW q \in Requests, Moves(q), NEW r \in Runs,
           status'[r] # status[r]
    PROVE  /\ r = run(q)
           /\ \/ CommitSave(q) /\ status[r] = "none" /\ status'[r] = "draft"
              \/ /\ CommitApproval(q) /\ HoldsProposal(q)
                 /\ status[r] = "draft" /\ status'[r] = "approved"
              \/ /\ CommitRejection(q) /\ HoldsProposal(q)
                 /\ status[r] = "draft" /\ status'[r] = "rejected"
PROOF
<1>1. CASE CommitSave(q)
    BY <1>1, RequestTypes DEF CommitSave, TypeOK, RunKeys
<1>2. CASE CommitApproval(q)
    BY <1>2, RequestTypes DEF CommitApproval, TypeOK, ProposalLocks, HoldsProposal
<1>3. CASE CommitRejection(q)
    BY <1>3, RequestTypes DEF CommitRejection, TypeOK, ProposalLocks, HoldsProposal
<1>4. CASE ~ Commits(q)
    BY <1>4, OnlyCommitsWrite DEF tables
<1> QED BY <1>1, <1>2, <1>3, <1>4 DEF Commits

\* A step that ends with its proposal locked took the lock, or had it already.
LEMMA ProposalHeld ==
    ASSUME TypeOK, NEW q \in Requests, Moves(q), HoldsProposal(q)'
    PROVE  \/ HoldsProposal(q) /\ pc'[q] # "done" /\ ~ Commits(q)
           \/ /\ LockProposal(q)
              /\ status[run(q)] = "draft"
              /\ job[q].actor = OwnerOf[run(q)]
PROOF
BY DEF TypeOK, Moves, Step, Commits, Goto, Answer, IntegrityError, local, Start, FirstStep, Fail,
       HasRun, SelectTerm, InsertTerm, InsertRun, Recheck, CommitSave, CommitApproval,
       CommitRejection, LockProposal, SnapshotDefinitions, LockDefinitions, SelectUnit,
       InsertUnit, FindTerm, FindCanonical, FindProposal, FindPromotion, HoldsProposal

\* The FOR UPDATE of decide_proposal keeps its proposal a draft, for it alone.
LEMMA ProposalLocksStep ==
    ASSUME TypeOK, RunKeys, ProposalLocks, NEW q \in Requests, Moves(q)
    PROVE  ProposalLocks'
PROOF
<1>1. job' = job /\ \A p \in Requests \ {q} : pc'[p] = pc[p]
    BY OthersUnmoved
<1>2. \A p \in Requests \ {q} : HoldsProposal(p)' <=> HoldsProposal(p)
    BY <1>1 DEF HoldsProposal
<1>3. \A p \in Requests : run(p)' = run(p) /\ run(p) \in Runs
    BY <1>1, RequestTypes DEF run
<1>4. HoldsProposal(q)' =>
        /\ status'[run(q)] = "draft"
        /\ job[q].actor = OwnerOf[run(q)]
        /\ \A p \in Requests \ {q} : HoldsProposal(p) => run(p) # run(q)
    <2>1. CASE HoldsProposal(q) /\ ~ Commits(q)
        BY <2>1, OnlyCommitsWrite DEF ProposalLocks, tables
    <2>2. CASE LockProposal(q) /\ status[run(q)] = "draft" /\ job[q].actor = OwnerOf[run(q)]
        BY <2>2 DEF LockProposal, tables
    <2> QED BY <2>1, <2>2, ProposalHeld
<1>5. \A p \in Requests \ {q} : HoldsProposal(p) => status'[run(p)] = "draft"
    BY <1>3, StatusChanges DEF ProposalLocks
<1> QED
    <2> SUFFICES ASSUME NEW p \in Requests, HoldsProposal(p)'
                 PROVE  /\ status'[run(p)] = "draft"
                        /\ job[p].actor = OwnerOf[run(p)]
                        /\ \A o \in Requests \ {p} : HoldsProposal(o)' => run(o) # run(p)
        BY <1>1, <1>3 DEF ProposalLocks
    <2>1. CASE p = q
        BY <1>2, <1>4, <2>1
    <2>2. CASE p # q
        BY <1>2, <1>4, <1>5, <2>2 DEF ProposalLocks
    <2> QED BY <2>1, <2>2

-----------------------------------------------------------------------------
\* Definition rows.

\* An active approval has no row yet.
LEMMA ActiveHasNoRow ==
    ASSUME TypeOK, SessionsInOrder, RowOwnership, NEW q \in Requests, pc[q] # "done"
    PROVE  q \notin Rows
PROOF
BY DEF SessionsInOrder, RowOwnership

\* No step but an approval touches the definition rows.
LEMMA OnlyApprovalsWriteRows ==
    ASSUME NEW q \in Requests, Moves(q), ~ CommitApproval(q)
    PROVE  UNCHANGED <<defs, link, promotions>>
PROOF
BY OnlyCommitsWrite DEF tables, Commits, CommitSave, CommitRejection

\* A row of a term stays a row of the term, and a row that is not among those
\* the moving request has locked stays as it is.
LEMMA RowsStay ==
    ASSUME TypeOK, SessionsInOrder, RowOwnership, NEW q \in Requests, Moves(q)
    PROVE  \A i \in Rows :
             /\ i \in Rows'
             /\ defs'[i].term = defs[i].term
             /\ defs'[i].version = defs[i].version
             /\ defs'[i].state = defs[i].state \/ (CommitApproval(q) /\ i \in prior[q])
PROOF
<1>1. CASE CommitApproval(q)
    <2>1. q \notin Rows
        BY <1>1, ActiveHasNoRow DEF CommitApproval
    <2> QED BY <1>1, <2>1, PromotedRows
<1>2. CASE ~ CommitApproval(q)
    BY <1>2, OnlyApprovalsWriteRows DEF Rows
<1> QED BY <1>1, <1>2

\* A step that ends with the term's rows locked, or about to be, started so or
\* read them in that step.
LEMMA DefinitionsHeld ==
    ASSUME TypeOK, NEW q \in Requests, Moves(q)
    PROVE  /\ HoldsDefinitions(q)' =>
                \/ /\ HoldsDefinitions(q) /\ ~ CommitApproval(q)
                   /\ snap'[q] = snap[q] /\ prior'[q] = prior[q] /\ version'[q] = version[q]
                \/ LockDefinitions(q)
           /\ pc'[q] = "lock_definitions" => SnapshotDefinitions(q)
PROOF
<1>1. job' = job
    BY OthersUnmoved
<1> QED
    BY <1>1 DEF TypeOK, Moves, Step, Goto, Answer, IntegrityError, local, Start, FirstStep, Fail,
       HasRun, SelectTerm, InsertTerm, InsertRun, Recheck, CommitSave, CommitApproval,
       CommitRejection, LockProposal, SnapshotDefinitions, LockDefinitions, SelectUnit,
       InsertUnit, FindTerm, FindCanonical, FindProposal, FindPromotion, HoldsDefinitions

\* The FOR UPDATE of _promote_canonical keeps what it read of the locked rows true.
LEMMA DefinitionLocksStep ==
    ASSUME TypeOK, SessionsInOrder, DefinitionLocks, RowOwnership, NEW q \in Requests, Moves(q)
    PROVE  DefinitionLocks'
PROOF
<1>1. /\ job' = job
      /\ \A p \in Requests \ {q} :
           pc'[p] = pc[p] /\ snap'[p] = snap[p] /\ prior'[p] = prior[p] /\ version'[p] = version[p]
    BY OthersUnmoved
<1>2. \A p \in Requests : term(p)' = term(p)
    BY <1>1 DEF term, run
<1>3. \A p \in Requests \ {q} : HoldsDefinitions(p)' <=> HoldsDefinitions(p)
    BY <1>1 DEF HoldsDefinitions
<1>4. \A t \in Terms : RowsOf(t) \subseteq RowsOf(t)'
    BY RowsStay DEF RowsOf
<1>5. \A p \in Requests :
        pc'[p] = "lock_definitions" \/ HoldsDefinitions(p)' => snap'[p] \subseteq RowsOf(term(p))'
    <2> SUFFICES ASSUME NEW p \in Requests, pc'[p] = "lock_definitions" \/ HoldsDefinitions(p)'
                 PROVE  snap'[p] \subseteq RowsOf(term(p))'
        OBVIOUS
    <2>1. CASE pc[p] = "lock_definitions" \/ HoldsDefinitions(p)
        <3>1. snap[p] \subseteq RowsOf(term(p))
            BY <2>1 DEF DefinitionLocks
        <3>2. snap'[p] = snap[p] \/ SnapshotDefinitions(q)
            BY <1>1, DefinitionsHeld DEF LockDefinitions
        <3>3. ~ SnapshotDefinitions(q) \/ p # q
            BY <2>1 DEF SnapshotDefinitions, HoldsDefinitions
        <3>4. snap'[p] = snap[p]
            BY <1>1, <3>2, <3>3
        <3> QED BY <1>2, <1>4, <3>1, <3>4, RequestTypes
    <2>2. CASE p = q /\ LockDefinitions(q)
        <3>1. pc[q] = "lock_definitions"
            BY <2>2 DEF LockDefinitions
        <3> QED BY <2>1, <2>2, <3>1
    <2>3. CASE p = q /\ SnapshotDefinitions(q)
        <3>1. snap'[q] = RowsOf(term(q)) /\ defs' = defs
            BY <2>3 DEF SnapshotDefinitions, tables, TypeOK
        <3> QED BY <1>2, <1>4, <2>3, <3>1, RequestTypes
    <2>4. CASE p # q
        BY <1>1, <1>3, <2>1, <2>4
    <2> QED BY <2>1, <2>2, <2>3, <2>4, DefinitionsHeld
<1>6. ASSUME NEW p \in Requests, HoldsDefinitions(p)'
      PROVE  /\ snap'[p] \subseteq Rows
             /\ prior'[p] = {i \in snap'[p] : defs[i].state = "canonical"}
             /\ \A i \in snap'[p] : defs[i].version < version'[p]
             /\ \A o \in Requests \ {p} : HoldsDefinitions(o)' => snap'[o] \cap snap'[p] = {}
    <2>1. CASE p # q
        <3>1. HoldsDefinitions(p)
            BY <1>3, <1>6, <2>1
        <3>2. HoldsDefinitions(q)' => snap'[q] \cap snap[p] = {}
            <4>1. CASE HoldsDefinitions(q) /\ snap'[q] = snap[q]
                BY <2>1, <3>1, <4>1 DEF DefinitionLocks
            <4>2. CASE LockDefinitions(q)
                BY <2>1, <3>1, <4>2 DEF LockDefinitions
            <4> QED BY <4>1, <4>2, DefinitionsHeld
        <3> QED BY <1>1, <1>3, <2>1, <3>1, <3>2 DEF DefinitionLocks, TypeOK
    <2>2. CASE p = q /\ LockDefinitions(q)
        <3>1. /\ snap' = snap
              /\ prior'[q] = {i \in snap[q] : defs[i].state = "canonical"}
              /\ version'[q] = NextVersion(snap[q])
              /\ \A o \in Requests \ {q} : HoldsDefinitions(o) => snap[o] \cap snap[q] = {}
            BY <2>2 DEF LockDefinitions, TypeOK
        <3>2. snap[q] \in SUBSET Rows
            BY DEF TypeOK
        <3>3. \A i \in snap[q] : defs[i].version < NextVersion(snap[q])
            BY <3>2, NextVersionAbove
        <3> QED BY <1>3, <2>2, <3>1, <3>2, <3>3
    <2>3. CASE /\ p = q /\ HoldsDefinitions(q)
               /\ snap'[q] = snap[q] /\ prior'[q] = prior[q] /\ version'[q] = version[q]
        BY <1>1, <1>3, <2>3 DEF DefinitionLocks, TypeOK
    <2> QED BY <1>6, <2>1, <2>2, <2>3, DefinitionsHeld
<1>7. ASSUME NEW p \in Requests, HoldsDefinitions(p)', NEW i \in snap'[p]
      PROVE  defs'[i].state = defs[i].state /\ defs'[i].version = defs[i].version
    <2>1. i \in Rows
        BY <1>6, <1>7
    <2>2. CASE CommitApproval(q)
        <3>1. HoldsDefinitions(q)
            BY <2>2 DEF CommitApproval, HoldsDefinitions
        <3>2. p # q
            BY <1>7, <2>2, DefinitionsHeld DEF CommitApproval, LockDefinitions
        <3>3. snap[p] \cap snap[q] = {} /\ prior[q] \subseteq snap[q] /\ i \in snap[p]
            BY <1>1, <1>3, <1>7, <3>1, <3>2 DEF DefinitionLocks
        <3> QED BY <2>1, <3>3, RowsStay
    <2> QED BY <2>1, <2>2, RowsStay
<1> QED BY <1>5, <1>6, <1>7 DEF DefinitionLocks

\* A decision is answered ok only by its commit, which finds it undecided.
LEMMA OutcomeChanges ==
    ASSUME TypeOK, SessionsInOrder, NEW q \in Requests, Moves(q), outcome'[q] # outcome[q]
    PROVE  /\ outcome[q] = "none" /\ pc[q] # "done"
           /\ outcome'[q] = "ok" =>
                (CommitApproval(q) /\ job[q].op = "approved") \/
                (CommitRejection(q) /\ job[q].op = "rejected") \/ ~ Deciding(q)
           /\ outcome'[q] = "torn" => FindProposal(q) \/ FindPromotion(q)
PROOF
<1>1. /\ pc[q] \in StatementsOf(job[q].op) \cup {"waiting", "done"}
      /\ pc[q] # "done" => outcome[q] = "none"
    BY DEF SessionsInOrder
<1>2. job[q].op \in {"save", "import", "approved", "rejected", "lookup"}
    BY RequestTypes, ConstantsAssumption
<1> USE DEF TypeOK, Goto, Answer, IntegrityError, local, StatementsOf, Deciding
<1>3. CASE Start(q)
    BY <1>3 DEF Start
<1>4. CASE Fail(q)
    BY <1>1, <1>4 DEF Fail, Active
<1>5. CASE HasRun(q) \/ SelectTerm(q) \/ InsertTerm(q) \/ InsertRun(q) \/ Recheck(q)
    BY <1>1, <1>2, <1>5 DEF HasRun, SelectTerm, InsertTerm, InsertRun, Recheck
<1>6. CASE Commits(q)
    BY <1>1, <1>2, <1>6 DEF Commits, CommitSave, CommitApproval, CommitRejection
<1>7. CASE LockProposal(q)
    BY <1>1, <1>2, <1>7 DEF LockProposal
<1>8. CASE SnapshotDefinitions(q) \/ LockDefinitions(q) \/ SelectUnit(q) \/ InsertUnit(q)
    BY <1>1, <1>2, <1>8 DEF SnapshotDefinitions, LockDefinitions, SelectUnit, InsertUnit
<1>9. CASE FindTerm(q) \/ FindCanonical(q) \/ FindProposal(q) \/ FindPromotion(q)
    BY <1>1, <1>2, <1>9 DEF FindTerm, FindCanonical, FindProposal, FindPromotion
<1> QED
    BY <1>3, <1>4, <1>5, <1>6, <1>7, <1>8, <1>9 DEF Moves, Step, Commits

\* Rows, proposals, audit events and answered approvals stay in step.
LEMMA RowOwnershipStep ==
    ASSUME TypeOK, SessionsInOrder, RunKeys, ProposalLocks, DefinitionLocks, RowOwnership,
           NEW q \in Requests, Moves(q)
    PROVE  RowOwnership'
PROOF
<1>1. job' = job /\ \A p \in Requests \ {q} : outcome'[p] = outcome[p]
    BY OthersUnmoved
<1>2. \A p \in Requests : run(p)' = run(p) /\ term(p)' = term(p) /\ run(p) \in Runs
    BY <1>1, RequestTypes DEF run, term
<1>r. Rows \subseteq Requests
    BY DEF TypeOK
<1>3. CASE CommitApproval(q)
    <2>1. /\ pc[q] = "decide" /\ job[q].op = "approved" /\ outcome'[q] = "ok"
          /\ link' = [link EXCEPT ![run(q)] = q]
          /\ status' = [status EXCEPT ![run(q)] = "approved"]
          /\ promotions' = promotions \cup
               {[run |-> run(q), actor |-> job[q].actor, row |-> q, previous |-> prior[q]]}
        BY <1>3 DEF CommitApproval, Linked, Answer, TypeOK
    <2>2. q \notin Rows
        BY <2>1, ActiveHasNoRow
    <2>3. /\ status[run(q)] = "draft" /\ job[q].actor = OwnerOf[run(q)]
          /\ prior[q] \subseteq Rows
        <3>1. HoldsProposal(q) /\ HoldsDefinitions(q)
            BY <2>1 DEF HoldsProposal, HoldsDefinitions
        <3> QED BY <3>1 DEF ProposalLocks, DefinitionLocks, TypeOK
    <2>4. /\ Rows' = Rows \cup {q}
          /\ defs'[q].term = term(q)
          /\ \A i \in Rows : defs'[i].term = defs[i].term
        <3>1. defs'[q] = [term |-> term(q), version |-> version[q], state |-> "canonical"]
            BY <1>3, PromotedRows
        <3>2. defs'[q].term = term(q)
            BY <3>1
        <3> QED BY <1>3, <2>2, <3>2, PromotedRows
    <2>5. \A i \in Rows : run(i) # run(q)
        BY <2>3 DEF RowOwnership
    <2>6. \A p \in Requests : p \in Rows' <=> job[p].op = "approved" /\ outcome'[p] = "ok"
        BY <1>1, <2>1, <2>4 DEF RowOwnership
    <2>7. \A i \in Rows' :
            /\ link'[run(i)] = i
            /\ status'[run(i)] = "approved"
            /\ defs'[i].term = term(i)
            /\ \E e \in promotions' : e.row = i
        <3>1. ASSUME NEW i \in Rows
              PROVE  /\ link'[run(i)] = i /\ status'[run(i)] = "approved"
                     /\ defs'[i].term = term(i)
            BY <1>2, <1>r, <2>1, <2>4, <2>5 DEF RowOwnership, TypeOK
        <3>2. ASSUME NEW i \in Rows PROVE \E e \in promotions' : e.row = i
            BY <2>1 DEF RowOwnership
        <3>3. link'[run(q)] = q /\ status'[run(q)] = "approved" /\ defs'[q].term = term(q)
            BY <1>2, <2>1, <2>4 DEF TypeOK
        <3>4. \E e \in promotions' : e.row = q
            <4> DEFINE new == [run |-> run(q), actor |-> job[q].actor, row |-> q,
                               previous |-> prior[q]]
            <4>1. new \in promotions' /\ new.row = q
                BY <2>1
            <4> QED BY <4>1
        <3> QED BY <2>4, <3>1, <3>2, <3>3, <3>4
    <2>8. \A r \in Runs : link'[r] # NoDef => link'[r] \in Rows' /\ run(link'[r]) = r
        BY <2>1, <2>4 DEF RowOwnership, TypeOK
    <2>9. \A r \in Runs : status'[r] = "approved" => link'[r] # NoDef
        BY <2>1, ConstantsAssumption DEF RowOwnership, TypeOK
    <2>10. \A e \in promotions' :
            e.row \in Rows' /\ e.previous \subseteq Rows' /\ e.run = run(e.row) /\ e.actor = OwnerOf[e.run]
        BY <2>1, <2>3, <2>4 DEF RowOwnership
    <2>11. Rows' \subseteq Requests
        BY <1>r, <2>4
    <2>12. \A r \in Runs : link'[r] # NoDef => link'[r] \in Requests
        BY <2>8, <2>11
    <2> QED BY <1>1, <1>2, <2>6, <2>7, <2>8, <2>9, <2>10, <2>11, <2>12 DEF RowOwnership
<1>4. CASE ~ CommitApproval(q)
    <2>1. UNCHANGED <<defs, link, promotions>> /\ Rows' = Rows
        BY <1>4, OnlyApprovalsWriteRows DEF Rows
    <2>2. \A r \in Runs : status'[r] = "approved" <=> status[r] = "approved"
        BY <1>4, StatusChanges
    <2>3. q \in Rows' <=> job[q].op = "approved" /\ outcome'[q] = "ok"
        BY <1>4, <2>1, OutcomeChanges DEF RowOwnership, Deciding
    <2>4. \A r \in Runs : link[r] # NoDef => link[r] \in Requests
        BY <1>r DEF RowOwnership
    <2> QED BY <1>1, <1>2, <1>r, <2>1, <2>2, <2>3, <2>4 DEF RowOwnership
<1> QED BY <1>3, <1>4

\* The row a lookup has read is never deleted.
LEMMA LookupsFoundStep ==
    ASSUME TypeOK, SessionsInOrder, RowOwnership, LookupsFound, NEW q \in Requests, Moves(q)
    PROVE  LookupsFound'
PROOF
<1>1. \A p \in Requests \ {q} : pc'[p] = pc[p] /\ found'[p] = found[p]
    BY OthersUnmoved
<1>2. Rows \subseteq Rows'
    BY RowsStay
<1>3. pc'[q] \in {"find_proposal", "find_promotion"} => found'[q] \in Rows
    BY DEF TypeOK, Moves, Step, Goto, Answer, IntegrityError, local, Start, FirstStep, Fail,
       HasRun, SelectTerm, InsertTerm, InsertRun, Recheck, CommitSave, CommitApproval,
       CommitRejection, LockProposal, SnapshotDefinitions, LockDefinitions, SelectUnit,
       InsertUnit, FindTerm, FindCanonical, FindProposal, FindPromotion, LookupsFound,
       CanonicalOf, RowsOf
<1> QED BY <1>1, <1>2, <1>3 DEF LookupsFound

-----------------------------------------------------------------------------
\* The properties themselves.

\* Only the commit of a decision changes a decided status or the decision audit,
\* and it changes both.
LEMMA DecisionsAuditedStep ==
    ASSUME TypeOK, RunKeys, ProposalLocks, DecisionsAudited, NEW q \in Requests, Moves(q)
    PROVE  DecisionsAudited'
PROOF
<1> DEFINE Events(r) == {e \in decisions : e.run = r}
           Audited(r) ==
              IF status[r] \in {"approved", "rejected"}
              THEN \E e \in Events(r) :
                      Events(r) = {e} /\ e.decision = status[r] /\ e.actor = OwnerOf[r]
              ELSE Events(r) = {}
<1>1. \A r \in Runs : Audited(r)
    BY DEF DecisionsAudited
<1>2. SUFFICES ASSUME NEW r \in Runs PROVE Audited(r)'
    BY DEF DecisionsAudited
<1>3. CASE CommitApproval(q) \/ CommitRejection(q)
    <2>1. PICK d \in {"approved", "rejected"} :
            /\ pc[q] = "decide"
            /\ status' = [status EXCEPT ![run(q)] = d]
            /\ decisions' = decisions \cup
                 {[run |-> run(q), decision |-> d, actor |-> job[q].actor, by |-> q]}
        BY <1>3 DEF CommitApproval, CommitRejection
    <2>2. status[run(q)] = "draft" /\ job[q].actor = OwnerOf[run(q)]
        BY <2>1 DEF ProposalLocks, HoldsProposal
    <2>3. CASE r = run(q)
        <3> DEFINE new == [run |-> run(q), decision |-> d, actor |-> job[q].actor, by |-> q]
        <3>1. Events(r) = {}
            BY <1>1, <2>2, <2>3
        <3>2. Events(r)' = {new}
            BY <2>1, <2>3, <3>1
        <3>3. new.decision = d /\ new.actor = OwnerOf[r] /\ status'[r] = d
            BY <2>1, <2>2, <2>3 DEF TypeOK
        <3> HIDE DEF Events, new
        <3> QED BY <3>2, <3>3
    <2>4. CASE r # run(q)
        <3>1. Events(r)' = Events(r) /\ status'[r] = status[r]
            BY <2>1, <2>4 DEF TypeOK
        <3> HIDE DEF Events
        <3> QED BY <1>1, <3>1
    <2> QED BY <2>3, <2>4
<1>4. CASE ~ (CommitApproval(q) \/ CommitRejection(q))
    <2>1. decisions' = decisions
        BY <1>4, OnlyCommitsWrite DEF tables, Commits, CommitSave
    <2>2. status'[r] = status[r] \/ (status[r] = "none" /\ status'[r] = "draft")
        BY <1>4, StatusChanges
    <2>3. Events(r)' = Events(r)
        BY <2>1
    <2> HIDE DEF Events
    <2> QED BY <1>1, <2>2, <2>3
<1> QED BY <1>3, <1>4

\* A decision answered ok is the one its proposal's status keeps showing.
LEMMA AnsweredDecisionsStep ==
    ASSUME TypeOK, SessionsInOrder, RunKeys, ProposalLocks, AnsweredDecisionsHold,
           NEW q \in Requests, Moves(q)
    PROVE  AnsweredDecisionsHold'
PROOF
<1>1. job' = job /\ \A p \in Requests \ {q} : outcome'[p] = outcome[p]
    BY OthersUnmoved
<1>2. \A p \in Requests : run(p)' = run(p) /\ run(p) \in Runs /\ (Deciding(p)' <=> Deciding(p))
    BY <1>1, RequestTypes DEF run, Deciding
<1>3. CASE ~ (Deciding(q) /\ outcome'[q] = "ok" /\ outcome[q] # "ok")
    <2>1. \A p \in Requests : Deciding(p) /\ outcome'[p] = "ok" => outcome[p] = "ok"
        BY <1>1, <1>3
    <2>2. \A r \in Runs : status[r] \in {"approved", "rejected"} => status'[r] = status[r]
        BY StatusChanges
    <2> QED BY <1>1, <1>2, <2>1, <2>2 DEF AnsweredDecisionsHold, Deciding
<1>4. CASE Deciding(q) /\ outcome'[q] = "ok" /\ outcome[q] # "ok"
    <2>1. \/ CommitApproval(q) /\ job[q].op = "approved"
          \/ CommitRejection(q) /\ job[q].op = "rejected"
        BY <1>4, OutcomeChanges
    <2>2. /\ pc[q] = "decide"
          /\ status' = [status EXCEPT ![run(q)] = job[q].op]
        BY <2>1 DEF CommitApproval, CommitRejection
    <2>3. status[run(q)] = "draft"
        BY <2>2 DEF ProposalLocks, HoldsProposal
    <2>4. \A p \in Requests : Deciding(p) /\ outcome[p] = "ok" => run(p) # run(q)
        BY <2>3 DEF AnsweredDecisionsHold, Deciding
    <2>5. status'[run(q)] = job[q].op
        BY <1>2, <2>2 DEF TypeOK
    <2>6. \A p \in Requests : run(p) # run(q) => status'[run(p)] = status[run(p)]
        BY <1>2, <2>2 DEF TypeOK
    <2> QED BY <1>1, <1>2, <2>4, <2>5, <2>6 DEF AnsweredDecisionsHold
<1> QED BY <1>3, <1>4

\* An approval names as previous only rows it had locked in force, and those
\* have lower versions.
LEMMA SupersededOnceStep ==
    ASSUME TypeOK, SessionsInOrder, DefinitionLocks, RowOwnership, SupersededOnce,
           NEW q \in Requests, Moves(q)
    PROVE  SupersededOnce'
PROOF
<1> DEFINE After(i) == {e \in promotions : i \in e.previous}
           Once(i) ==
              IF defs[i].state = "superseded"
              THEN \E e \in After(i) :
                      /\ After(i) = {e}
                      /\ e.row \in Rows
                      /\ defs[e.row].term = defs[i].term
                      /\ defs[e.row].version > defs[i].version
              ELSE After(i) = {}
<1>1. \A i \in Rows : Once(i)
    BY DEF SupersededOnce
<1>2. SUFFICES ASSUME NEW i \in Rows' PROVE Once(i)'
    BY DEF SupersededOnce
<1>3. CASE CommitApproval(q)
    <2> DEFINE new == [run |-> run(q), actor |-> job[q].actor, row |-> q, previous |-> prior[q]]
    <2>1. pc[q] = "decide" /\ job[q].op = "approved" /\ promotions' = promotions \cup {new}
        BY <1>3 DEF CommitApproval
    <2>2. q \notin Rows
        BY <2>1, ActiveHasNoRow
    <2>3. /\ snap[q] \subseteq RowsOf(term(q))
          /\ prior[q] = {j \in snap[q] : defs[j].state = "canonical"}
          /\ \A j \in snap[q] : defs[j].version < version[q]
        BY <2>1 DEF DefinitionLocks, HoldsDefinitions
    <2>4. /\ Rows' = Rows \cup {q}
          /\ defs'[q].term = term(q) /\ defs'[q].version = version[q]
          /\ defs'[q].state = "canonical"
        <3>1. defs'[q] = [term |-> term(q), version |-> version[q], state |-> "canonical"]
            BY <1>3, PromotedRows
        <3>2. /\ defs'[q].term = term(q) /\ defs'[q].version = version[q]
              /\ defs'[q].state = "canonical"
            BY <3>1
        <3> QED BY <1>3, <3>2, PromotedRows
    <2>5. \A j \in Rows :
            /\ defs'[j].term = defs[j].term
            /\ defs'[j].version = defs[j].version
            /\ defs'[j].state = IF j \in prior[q] THEN "superseded" ELSE defs[j].state
        BY <1>3, <2>2, PromotedRows
    <2>6. new.row = q /\ new.previous = prior[q]
        OBVIOUS
    <2>7. CASE i = q
        <3>1. After(q) = {} /\ q \notin prior[q]
            BY <2>2, <2>3 DEF RowOwnership, RowsOf
        <3>2. After(q)' = {}
            <4> HIDE DEF new
            <4> QED BY <2>1, <2>6, <3>1
        <3> HIDE DEF After, new
        <3> QED BY <2>4, <2>7, <3>2
    <2>8. CASE i \in prior[q]
        <3>1. i \in Rows /\ defs[i].state = "canonical" /\ defs[i].term = term(q)
              /\ defs[i].version < version[q]
            BY <2>3, <2>8 DEF RowsOf
        <3>2. After(i) = {}
            BY <1>1, <3>1
        <3>3. After(i)' = {new}
            <4> HIDE DEF new
            <4> QED BY <2>1, <2>6, <2>8, <3>2
        <3>4. defs'[q].version > defs'[i].version /\ defs'[q].term = defs'[i].term
            <4>1. version[q] \in Nat /\ defs[i].version \in Nat
                BY <3>1 DEF TypeOK, DefRow
            <4> QED BY <2>4, <2>5, <3>1, <4>1
        <3>5. defs'[i].state = "superseded"
            BY <2>5, <2>8, <3>1
        <3> HIDE DEF After, new
        <3> QED BY <2>4, <2>6, <3>3, <3>4, <3>5
    <2>9. CASE i # q /\ i \notin prior[q]
        <3>1. i \in Rows
            BY <2>4, <2>9
        <3>2. After(i)' = After(i)
            <4> HIDE DEF new
            <4> QED BY <2>1, <2>6, <2>9
        <3>3. defs'[i].state = defs[i].state /\ defs'[i].term = defs[i].term
              /\ defs'[i].version = defs[i].version
            BY <2>5, <2>9, <3>1
        <3> HIDE DEF After, new
        <3> QED BY <1>1, <2>4, <2>5, <3>1, <3>2, <3>3
    <2> QED BY <2>7, <2>8, <2>9
<1>4. CASE ~ CommitApproval(q)
    <2>1. UNCHANGED <<defs, promotions>> /\ Rows' = Rows
        BY <1>4, OnlyApprovalsWriteRows DEF Rows
    <2> QED BY <1>1, <2>1
<1> QED BY <1>3, <1>4

\* A row's proposal and audit event were committed with it, so a lookup finds both.
LEMMA LookupNeverTornStep ==
    ASSUME TypeOK, SessionsInOrder, RowOwnership, LookupsFound, LookupNeverTorn,
           NEW q \in Requests, Moves(q)
    PROVE  LookupNeverTorn'
PROOF
<1>1. \A p \in Requests \ {q} : outcome'[p] = outcome[p]
    BY OthersUnmoved
<1>2. SUFFICES ASSUME outcome'[q] = "torn", outcome[q] # "torn" PROVE FALSE
    BY <1>1 DEF LookupNeverTorn
<1>3. FindProposal(q) \/ FindPromotion(q)
    BY <1>2, OutcomeChanges
<1>4. found[q] \in Rows
    BY <1>3 DEF LookupsFound, FindProposal, FindPromotion
<1>5. link[run(found[q])] = found[q] /\ run(found[q]) \in Runs
    BY <1>4, RequestTypes DEF RowOwnership, TypeOK
<1>6. \E e \in promotions : link[e.run] = found[q]
    BY <1>4, <1>5 DEF RowOwnership
<1>7. CASE FindProposal(q)
    BY <1>2, <1>5, <1>7 DEF FindProposal
<1>8. CASE FindPromotion(q)
    BY <1>2, <1>6, <1>8 DEF FindPromotion, Answer, TypeOK
<1> QED BY <1>3, <1>7, <1>8

\* The inductive invariant holds at the start.
LEMMA InvInit == Init => Inv
PROOF
<1> SUFFICES ASSUME Init PROVE Inv
    OBVIOUS
<1>1. TypeOK
    BY TypeInit
<1>2. Rows = {}
    BY DEF Init, Rows
<1>3. SessionsInOrder /\ ProposalLocks /\ DefinitionLocks /\ LookupsFound /\ LookupNeverTorn
    BY DEF Init, SessionsInOrder, Active, ProposalLocks, HoldsProposal, DefinitionLocks,
           HoldsDefinitions, LookupsFound, LookupNeverTorn
<1>4. RunKeys
    BY DEF Init, RunKeys
<1>5. RowOwnership /\ SupersededOnce
    BY <1>2 DEF Init, RowOwnership, SupersededOnce
<1>6. DecisionsAudited /\ AnsweredDecisionsHold
    BY DEF Init, DecisionsAudited, AnsweredDecisionsHold
<1> QED BY <1>1, <1>3, <1>4, <1>5, <1>6 DEF Inv

\* Every step preserves the inductive invariant.
LEMMA InvStep == Inv /\ [Next]_vars => Inv'
PROOF
<1> SUFFICES ASSUME Inv, [Next]_vars PROVE Inv'
    OBVIOUS
<1>1. TypeOK'
    BY TypeStep DEF Inv
<1>2. CASE UNCHANGED vars
    <2> USE <1>2 DEF vars, tables, local
    <2>1. SessionsInOrder' /\ RunKeys'
        BY DEF Inv, SessionsInOrder, Active, RunKeys, run
    <2>2. ProposalLocks' /\ LookupsFound'
        BY DEF Inv, ProposalLocks, HoldsProposal, run, LookupsFound, Rows
    <2>3. DefinitionLocks'
        BY DEF Inv, DefinitionLocks, HoldsDefinitions, RowsOf, Rows, term, run
    <2>4. RowOwnership'
        BY DEF Inv, RowOwnership, Rows, run, term
    <2>5. DecisionsAudited'
        BY DEF Inv, DecisionsAudited
    <2>6. AnsweredDecisionsHold'
        BY DEF Inv, AnsweredDecisionsHold, Deciding, run
    <2>7. SupersededOnce'
        BY DEF Inv, SupersededOnce, Rows
    <2>8. LookupNeverTorn'
        BY DEF Inv, LookupNeverTorn
    <2> QED BY <1>1, <2>1, <2>2, <2>3, <2>4, <2>5, <2>6, <2>7, <2>8 DEF Inv
<1>3. CASE Next
    <2>1. PICK q \in Requests : Moves(q)
        BY <1>3 DEF Next, Moves
    <2>2. SessionsInOrder' /\ RunKeys' /\ ProposalLocks'
        BY <2>1, SessionsStep, RunKeysStep, ProposalLocksStep DEF Inv
    <2>3. DefinitionLocks' /\ RowOwnership' /\ LookupsFound'
        BY <2>1, DefinitionLocksStep, RowOwnershipStep, LookupsFoundStep DEF Inv
    <2>4. DecisionsAudited' /\ AnsweredDecisionsHold'
        BY <2>1, DecisionsAuditedStep, AnsweredDecisionsStep DEF Inv
    <2>5. SupersededOnce' /\ LookupNeverTorn'
        BY <2>1, SupersededOnceStep, LookupNeverTornStep DEF Inv
    <2> QED BY <1>1, <2>2, <2>3, <2>4, <2>5 DEF Inv
<1> QED BY <1>2, <1>3

\* The inductive invariant holds in every reachable state.
THEOREM Invariance == Spec => []Inv
PROOF
<1>1. Init => Inv
    BY InvInit
<1>2. Inv /\ [Next]_vars => Inv'
    BY InvStep
<1> QED BY <1>1, <1>2, PTL DEF Spec

\* However decisions race, a decided proposal has exactly one audited decision,
\* its owner's, and it is the one its status shows.
THEOREM DecisionAudit == Spec => []DecisionsAudited
PROOF
<1>1. Inv => DecisionsAudited
    BY DEF Inv
<1> QED BY <1>1, Invariance, PTL

\* However decisions race, a client answered ok was told the truth, and on one
\* proposal only one client is.
THEOREM DecisionsHold == Spec => []AnsweredDecisionsHold
PROOF
<1>1. Inv => AnsweredDecisionsHold
    BY DEF Inv
<1> QED BY <1>1, Invariance, PTL

\* Every definition row belongs to one approved, audited proposal of its term,
\* and every approved proposal has a row.
THEOREM Attribution == Spec => []PromotionAttributed
PROOF
<1>1. ASSUME Inv PROVE PromotionAttributed
    <2>1. Rows \subseteq Requests
        BY <1>1 DEF Inv, TypeOK
    <2>2. ASSUME NEW i \in Rows
          PROVE  \E r \in Runs :
                   /\ link[r] = i
                   /\ status[r] = "approved"
                   /\ TermOf[r] = defs[i].term
                   /\ \E e \in promotions : e.row = i /\ e.run = r /\ e.actor = OwnerOf[r]
                   /\ \A s \in Runs \ {r} : link[s] # i
        <3>1. run(i) \in Runs /\ i # NoDef
            BY <1>1, <2>1, RequestTypes, ConstantsAssumption DEF Inv
        <3>2. /\ link[run(i)] = i /\ status[run(i)] = "approved" /\ defs[i].term = TermOf[run(i)]
              /\ \E e \in promotions : e.row = i /\ e.run = run(i) /\ e.actor = OwnerOf[run(i)]
            BY <1>1 DEF Inv, RowOwnership, term
        <3>3. \A s \in Runs \ {run(i)} : link[s] # i
            BY <1>1, <3>1 DEF Inv, RowOwnership
        <3> QED BY <3>1, <3>2, <3>3
    <2>3. \A r \in Runs : status[r] = "approved" <=> link[r] \in Rows
        <3>1. NoDef \notin Rows
            BY <2>1, ConstantsAssumption
        <3> QED BY <1>1, <3>1 DEF Inv, RowOwnership
    <2> QED BY <2>2, <2>3 DEF PromotionAttributed
<1> QED BY <1>1, Invariance, PTL

\* However approvals race, a superseded row was superseded by one later version
\* of its own term, and no audit event claims to have superseded a row in force.
THEOREM Succession == Spec => []SupersededOnce
PROOF
<1>1. Inv => SupersededOnce
    BY DEF Inv
<1> QED BY <1>1, Invariance, PTL

\* No lookup sees half of a promotion, although its statements have four views.
THEOREM LookupsWhole == Spec => []LookupNeverTorn
PROOF
<1>1. Inv => LookupNeverTorn
    BY DEF Inv
<1> QED BY <1>1, Invariance, PTL

\* No step leaves a governed term without a canonical row.
THEOREM TermsStayGoverned == Spec => GovernedStays
PROOF
<1> DEFINE Kept == \A t \in Terms : CanonicalOf(t) # {} => (CanonicalOf(t))' # {}
<1>1. ASSUME Inv, [Next]_vars PROVE [Kept]_vars
    <2>1. CASE UNCHANGED vars
        BY <2>1
    <2>2. CASE Next
        <3>1. PICK q \in Requests : Moves(q)
            BY <2>2 DEF Next, Moves
        <3> SUFFICES ASSUME NEW t \in Terms, NEW i \in CanonicalOf(t)
                     PROVE  (CanonicalOf(t))' # {}
            OBVIOUS
        <3>2. i \in Rows /\ defs[i].term = t /\ defs[i].state = "canonical"
            BY DEF CanonicalOf, RowsOf
        <3>3. CASE CommitApproval(q) /\ i \in prior[q]
            <4>1. term(q) = t
                BY <1>1, <3>2, <3>3
                   DEF Inv, DefinitionLocks, HoldsDefinitions, CommitApproval, RowsOf
            <4>2. /\ q \in Rows'
                  /\ defs'[q] = [term |-> term(q), version |-> version[q], state |-> "canonical"]
                BY <1>1, <3>3, PromotedRows DEF Inv
            <4>3. defs'[q].term = t /\ defs'[q].state = "canonical"
                BY <4>1, <4>2
            <4> QED BY <4>2, <4>3 DEF CanonicalOf, RowsOf
        <3>4. CASE ~ (CommitApproval(q) /\ i \in prior[q])
            <4>1. i \in Rows' /\ defs'[i].term = t /\ defs'[i].state = "canonical"
                BY <1>1, <3>1, <3>2, <3>4, RowsStay DEF Inv
            <4> QED BY <4>1 DEF CanonicalOf, RowsOf
        <3> QED BY <3>3, <3>4
    <2> QED BY <1>1, <2>1, <2>2
<1> QED BY <1>1, Invariance, PTL DEF Spec, GovernedStays

-----------------------------------------------------------------------------
\* Imports.

\* A term is committed with a run of it, and an import looks again only when the
\* run, or the term, was there before it.
ImportsInv ==
    /\ Inv /\ DuplicateImportsAgree
    /\ \A t \in terms : \E r \in runs : TermOf[r] = t
    /\ \A q \in Requests : pc[q] = "recheck" => run(q) \in runs \/ term(q) \in terms

\* Only a save or an import's commit adds to the terms, with the run.
LEMMA TermsGrow ==
    ASSUME NEW q \in Requests, Moves(q)
    PROVE  \/ UNCHANGED <<terms, runs>>
           \/ /\ terms' = terms \cup {term(q)}
              /\ runs' = runs \cup {run(q)}
PROOF
<1>1. CASE CommitSave(q)
    BY <1>1 DEF CommitSave
<1>2. CASE CommitApproval(q) \/ CommitRejection(q)
    BY <1>2 DEF CommitApproval, CommitRejection
<1>3. CASE ~ Commits(q)
    BY <1>3, OnlyCommitsWrite DEF tables
<1> QED BY <1>1, <1>2, <1>3 DEF Commits

\* An import that looks again was refused a key, and one that fails on a key has
\* looked again.
LEMMA ImportsLook ==
    ASSUME TypeOK, SessionsInOrder, NEW q \in Requests, Moves(q)
    PROVE  /\ pc'[q] = "recheck" => run(q) \in runs \/ term(q) \in terms
           /\ job[q].op = "import" /\ outcome'[q] = "integrity_error" =>
                \/ outcome[q] = "integrity_error"
                \/ Recheck(q) /\ run(q) \notin runs
PROOF
<1>1. /\ pc[q] \in StatementsOf(job[q].op) \cup {"waiting", "done"}
      /\ pc[q] # "done" => outcome[q] = "none"
    BY DEF SessionsInOrder
<1>2. job[q].op \in {"save", "import", "approved", "rejected", "lookup"}
    BY RequestTypes, ConstantsAssumption
<1> USE DEF TypeOK, Goto, Answer, IntegrityError, local, StatementsOf
<1>3. CASE Start(q)
    <2>1. outcome' = outcome /\ pc'[q] = FirstStep(job[q].op)
        BY <1>3 DEF Start
    <2>2. FirstStep(job[q].op) # "recheck"
        <3>1. \A op \in {"save", "import", "approved", "rejected", "lookup"} :
                FirstStep(op) # "recheck"
            BY DEF FirstStep
        <3> QED BY <1>2, <3>1
    <2> QED BY <2>1, <2>2
<1>4. CASE Fail(q) \/ HasRun(q) \/ SelectTerm(q) \/ Recheck(q)
    BY <1>1, <1>2, <1>4 DEF Fail, HasRun, SelectTerm, Recheck
<1>5. CASE InsertTerm(q) \/ InsertRun(q)
    BY <1>1, <1>2, <1>5 DEF InsertTerm, InsertRun
<1>6. CASE Commits(q)
    BY <1>1, <1>2, <1>6 DEF Commits, CommitSave, CommitApproval, CommitRejection
<1>7. CASE LockProposal(q)
    BY <1>1, <1>2, <1>7 DEF LockProposal
<1>8. CASE SnapshotDefinitions(q) \/ LockDefinitions(q) \/ SelectUnit(q) \/ InsertUnit(q)
    BY <1>1, <1>2, <1>8 DEF SnapshotDefinitions, LockDefinitions, SelectUnit, InsertUnit
<1>9. CASE FindTerm(q) \/ FindCanonical(q) \/ FindProposal(q) \/ FindPromotion(q)
    BY <1>1, <1>2, <1>9 DEF FindTerm, FindCanonical, FindProposal, FindPromotion
<1> QED
    BY <1>3, <1>4, <1>5, <1>6, <1>7, <1>8, <1>9 DEF Moves, Step, Commits

\* Every step keeps what imports rely on.
LEMMA ImportsStep == ImportsInv /\ [Next]_vars => ImportsInv'
PROOF
<1> SUFFICES ASSUME ImportsInv, [Next]_vars PROVE ImportsInv'
    OBVIOUS
<1> USE DEF ImportsInv
<1>1. Inv'
    BY InvStep
<1>2. CASE UNCHANGED vars
    BY <1>1, <1>2 DEF vars, tables, DuplicateImportsAgree, run, term
<1>3. ASSUME NEW q \in Requests, Moves(q)
      PROVE  ImportsInv'
    <2> USE <1>3
    <2>1. /\ job' = job
          /\ \A p \in Requests : run(p)' = run(p) /\ term(p)' = term(p)
          /\ \A p \in Requests \ {q} : pc'[p] = pc[p] /\ outcome'[p] = outcome[p]
        BY OthersUnmoved DEF Inv, run, term
    <2>2. terms \subseteq terms' /\ runs \subseteq runs'
        BY TermsGrow
    <2>3. \A t \in terms' : \E r \in runs' : TermOf[r] = t
        BY TermsGrow DEF term
    <2>4. \A p \in Requests : pc'[p] = "recheck" => run(p) \in runs' \/ term(p) \in terms'
        <3>1. pc'[q] = "recheck" => run(q) \in runs \/ term(q) \in terms
            BY ImportsLook DEF Inv
        <3> QED BY <2>1, <2>2, <3>1
    <2>5. ASSUME NEW p \in Requests, job[p].op = "import", outcome'[p] = "integrity_error"
          PROVE  \E r \in runs' \ {run(p)} : TermOf[r] = term(p)
        <3>1. CASE outcome[p] = "integrity_error"
            BY <2>2, <2>5, <3>1 DEF DuplicateImportsAgree
        <3>2. CASE p = q /\ Recheck(q) /\ run(q) \notin runs
            <4>1. term(q) \in terms
                BY <3>2 DEF Recheck
            <4> QED BY <2>2, <3>2, <4>1
        <3> QED BY <2>1, <2>5, <3>1, <3>2, ImportsLook DEF Inv
    <2> QED BY <1>1, <2>1, <2>3, <2>4, <2>5 DEF DuplicateImportsAgree
<1> QED BY <1>2, <1>3 DEF Next, Moves

\* However imports of one hosted run race, one that ends in an IntegrityError
\* lost to another run of its term.
THEOREM ImportsAgree == Spec => []DuplicateImportsAgree
PROOF
<1>1. Init => ImportsInv
    BY InvInit DEF Init, ImportsInv, DuplicateImportsAgree
<1>2. ImportsInv /\ [Next]_vars => ImportsInv'
    BY ImportsStep
<1>3. ImportsInv => DuplicateImportsAgree
    BY DEF ImportsInv
<1> QED BY <1>1, <1>2, <1>3, PTL DEF Spec

-----------------------------------------------------------------------------
(***************************************************************************)
(* Requests served one at a time (Workers = 1): one canonical definition   *)
(* per term, no lost insertion, and the promise of GovernedTerms.          *)
(***************************************************************************)

\* The invariant.

\* One request is under way at a time.
Alone == \A p, q \in Requests : Active(p) /\ Active(q) => p = q

\* Top(v, S): v is the number after the largest of S, or the first.
Top(v, S) == /\ \A n \in S : n < v
             /\ v = 1 \/ \E n \in S : n + 1 = v

Versions(t) == {defs[i].version : i \in RowsOf(t)}

\* What an approval has read of its term is all there is.
ReadWhole ==
    \A q \in Requests :
        /\ pc[q] = "lock_definitions" \/ HoldsDefinitions(q) => snap[q] = RowsOf(term(q))
        /\ HoldsDefinitions(q) => Top(version[q], Versions(term(q)))

\* A term has one row in force.
OneInForce ==
    \A i, j \in Rows :
        /\ defs[i].term = defs[j].term
        /\ defs[i].state = "canonical" /\ defs[j].state = "canonical"
        => i = j

\* Whoever is about to insert a row has looked for it, and it is still absent.
StillAbsent ==
    \A q \in Requests :
        /\ pc[q] \in {"select_term", "insert_term", "insert_run"} => run(q) \notin runs
        /\ pc[q] = "insert_term" => term(q) \notin terms
        /\ pc[q] = "insert_unit" => SlugOf[OwnerOf[run(q)]] \notin units
        /\ pc[q] # "recheck"

\* A run got there because a request that has ended saved it.
RunsSaved ==
    /\ job \in ClientJobs
    /\ \A r \in runs : r \in Stored \/ \E p \in Requests :
         pc[p] = "done" /\ run(p) = r /\ job[p].op \in {"save", "import"}

SerialInv == /\ Inv /\ Alone /\ ReadWhole /\ OneInForce
             /\ StillAbsent /\ RunsSaved /\ NoKeyConflict

-----------------------------------------------------------------------------
\* One at a time.

\* Whoever moves, nobody else is under way.
LEMMA Solo ==
    ASSUME Workers = 1, TypeOK, Alone, NEW q \in Requests, Moves(q)
    PROVE  /\ \A p \in Requests \ {q} : ~ Active(p) /\ pc'[p] = pc[p] /\ ~ Active(p)'
           /\ Start(q) \/ Active(q)
PROOF
<1>1. \A p \in Requests \ {q} : pc'[p] = pc[p]
    BY OthersUnmoved
<1>2. CASE Start(q)
    <2> DEFINE S == {p \in Requests : Active(p)}
    <2>1. IsFiniteSet(S) /\ Cardinality(S) \in Nat
        BY FS_Subset, FS_CardinalityType, ConstantsAssumption
    <2>2. Cardinality(S) < 1
        BY <1>2 DEF Start
    <2>3. Cardinality(S) = 0
        <3> HIDE DEF S
        <3> QED BY <2>1, <2>2
    <2>4. S = {}
        <3> HIDE DEF S
        <3> QED BY <2>1, <2>3, FS_EmptySet
    <2> QED BY <1>1, <1>2, <2>4 DEF Active
<1>3. CASE Step(q) \/ Fail(q)
    <2>1. Active(q)
        BY <1>3 DEF Active, Step, Fail, HasRun, SelectTerm, InsertTerm, InsertRun, Recheck,
           CommitSave, CommitApproval, CommitRejection, LockProposal, SnapshotDefinitions,
           LockDefinitions, SelectUnit, InsertUnit, FindTerm, FindCanonical, FindProposal,
           FindPromotion
    <2>2. \A p \in Requests \ {q} : ~ Active(p)
        BY <2>1 DEF Alone
    <2> QED BY <1>1, <2>1, <2>2 DEF Active
<1> QED BY <1>2, <1>3 DEF Moves

\* So it stays.
LEMMA AloneStep ==
    ASSUME Workers = 1, TypeOK, Alone, NEW q \in Requests, Moves(q)
    PROVE  Alone'
PROOF BY Solo DEF Alone

-----------------------------------------------------------------------------
\* Versions and rows in force.

\* The largest of a set of numbers is what Max chooses.
LEMMA MaxIs ==
    ASSUME NEW S \in SUBSET Nat, NEW m \in S, \A n \in S : m >= n
    PROVE  Max(S) = m
PROOF
<1>1. \E x \in S : \A y \in S : x >= y
    OBVIOUS
<1>2. Max(S) \in S /\ \A y \in S : Max(S) >= y
    BY <1>1 DEF Max
<1>3. Max(S) \in Nat /\ m \in Nat /\ Max(S) >= m /\ m >= Max(S)
    BY <1>2
<1> QED BY <1>3

\* The number NextVersion returns is the one that Top describes.
LEMMA TopIsNext ==
    ASSUME NEW S \in SUBSET Nat, NEW v \in Nat, Top(v, S)
    PROVE  /\ v \in Nat \ {0} /\ Max({0} \cup S) + 1 = v
           /\ Max({0} \cup S) \in Nat
PROOF
<1> DEFINE T == {0} \cup S
<1>1. T \in SUBSET Nat
    OBVIOUS
<1>2. \A n \in S : n \in Nat /\ n < v
    BY DEF Top
<1>3. CASE v = 1
    <2>1. \A n \in T : 0 >= n
        BY <1>2, <1>3
    <2>2. 0 \in T
        OBVIOUS
    <2>3. Max(T) = 0
        <3> HIDE DEF T
        <3> QED BY <1>1, <2>1, <2>2, MaxIs
    <2> QED BY <1>3, <2>3
<1>4. ASSUME NEW m \in S, m + 1 = v
      PROVE  /\ v \in Nat \ {0} /\ Max({0} \cup S) + 1 = v
             /\ Max({0} \cup S) \in Nat
    <2>1. m \in T /\ m \in Nat
        OBVIOUS
    <2>2. \A n \in S : m >= n
        BY <1>2, <1>4, <2>1
    <2>3. \A n \in T : m >= n
        BY <2>1, <2>2
    <2>4. Max(T) = m
        <3> HIDE DEF T
        <3> QED BY <1>1, <2>1, <2>3, MaxIs
    <2> QED BY <1>4, <2>1, <2>4
<1> QED BY <1>3, <1>4 DEF Top

\* What an approval that reads all rows of its term computes is the next version.
LEMMA NextIsTop ==
    ASSUME TypeOK, NEW t \in Terms
    PROVE  /\ Versions(t) \in SUBSET Nat
           /\ NextVersion(RowsOf(t)) = Max({0} \cup Versions(t)) + 1
           /\ Top(NextVersion(RowsOf(t)), Versions(t))
PROOF
<1> DEFINE V == Versions(t)
           S == {0} \cup V
           f == [i \in RowsOf(t) |-> defs[i].version]
<1>1. V \in SUBSET Nat
    BY DEF TypeOK, DefRow, Versions, RowsOf
<1>2. IsFiniteSet(V)
    <2>1. IsFiniteSet(RowsOf(t))
        BY FS_Subset, ConstantsAssumption DEF TypeOK, RowsOf
    <2>2. f \in Surjection(RowsOf(t), V)
        BY DEF Surjection, Versions
    <2> QED BY <2>1, <2>2, FS_Surjection
<1>3. IsFiniteSet(S)
    <2>1. S = V \cup {0}
        OBVIOUS
    <2>2. IsFiniteSet(V \cup {0})
        <3> HIDE DEF V
        <3> QED BY <1>2, FS_AddElement
    <2> QED BY <2>1, <2>2
<1>4. S \in SUBSET Nat /\ S # {}
    <2> HIDE DEF V
    <2> QED BY <1>1
<1>5. \E m \in S : \A n \in S : m >= n
    <2> HIDE DEF S
    <2> QED BY <1>3, <1>4, LargestExists
<1>6. Max(S) \in S /\ \A n \in S : Max(S) >= n
    <2> HIDE DEF S
    <2> QED BY <1>5 DEF Max
<1>7. NextVersion(RowsOf(t)) = Max(S) + 1
    BY DEF NextVersion, Versions
<1>8. Top(Max(S) + 1, V)
    <2>1. Max(S) \in Nat
        <3> HIDE DEF S
        <3> QED BY <1>4, <1>6
    <2>2. \A n \in V : n \in S /\ n \in Nat
        <3> HIDE DEF V
        <3> QED BY <1>1
    <2>3. \A n \in V : n < Max(S) + 1
        <3> HIDE DEF V, S
        <3> QED BY <1>6, <2>1, <2>2
    <2>4. Max(S) = 0 \/ Max(S) \in V
        BY <1>6
    <2> HIDE DEF V, S
    <2> QED BY <2>1, <2>3, <2>4 DEF Top
<1> QED BY <1>1, <1>7, <1>8

\* After an approval the term has one more row, with the version it read.
LEMMA ApprovedVersions ==
    ASSUME SerialInv, NEW q \in Requests, CommitApproval(q)
    PROVE  /\ q \notin Rows /\ Rows' = Rows \cup {q}
           /\ \A t \in Terms : Versions(t)' =
                IF t = term(q) THEN Versions(t) \cup {version[q]} ELSE Versions(t)
           /\ \A t \in Terms : RowsOf(t)' =
                IF t = term(q) THEN RowsOf(t) \cup {q} ELSE RowsOf(t)
PROOF
<1>1. q \notin Rows
    BY ActiveHasNoRow DEF SerialInv, Inv, CommitApproval
<1>2. /\ Rows' = Rows \cup {q}
      /\ defs'[q].term = term(q) /\ defs'[q].version = version[q]
      /\ \A i \in Rows : defs'[i].term = defs[i].term /\ defs'[i].version = defs[i].version
    <2>1. defs'[q] = [term |-> term(q), version |-> version[q], state |-> "canonical"]
        BY PromotedRows DEF SerialInv, Inv
    <2> QED BY <1>1, <2>1, PromotedRows DEF SerialInv, Inv
<1>3. ASSUME NEW t \in Terms
      PROVE  RowsOf(t)' = IF t = term(q) THEN RowsOf(t) \cup {q} ELSE RowsOf(t)
    BY <1>1, <1>2 DEF RowsOf
<1>4. ASSUME NEW t \in Terms
      PROVE  Versions(t)' = IF t = term(q) THEN Versions(t) \cup {version[q]} ELSE Versions(t)
    <2>1. Versions(t)' = {defs'[i].version : i \in RowsOf(t)'}
        BY DEF Versions
    <2>2. \A i \in RowsOf(t) : defs'[i].version = defs[i].version
        BY <1>2 DEF RowsOf
    <2>3. CASE t = term(q)
        BY <1>2, <1>3, <2>1, <2>2, <2>3 DEF Versions
    <2>4. CASE t # term(q)
        BY <1>3, <2>1, <2>2, <2>4 DEF Versions
    <2> QED BY <2>3, <2>4
<1> QED BY <1>1, <1>2, <1>3, <1>4

-----------------------------------------------------------------------------
\* The invariant is kept, one lemma per part.

\* What an approval has read stays whole: nobody else commits meanwhile.
LEMMA ReadWholeStep ==
    ASSUME Workers = 1, SerialInv, NEW q \in Requests, Moves(q)
    PROVE  ReadWhole'
PROOF
<1> USE DEF SerialInv, Inv
<1>1. job' = job
    BY OthersUnmoved
<1>2. \A p \in Requests : run(p)' = run(p) /\ term(p)' = term(p) /\ term(p) \in Terms
    BY <1>1, RequestTypes DEF run, term
<1>3. ASSUME NEW p \in Requests \ {q}
      PROVE  pc'[p] # "lock_definitions" /\ ~ HoldsDefinitions(p)'
    <2>1. ~ Active(p)'
        BY <1>3, Solo
    <2> QED BY <2>1 DEF Active, HoldsDefinitions
<1>4. ASSUME pc'[q] = "lock_definitions"
      PROVE  snap'[q] = RowsOf(term(q))'
    <2>1. SnapshotDefinitions(q)
        BY <1>4, DefinitionsHeld
    <2>2. snap'[q] = RowsOf(term(q)) /\ defs' = defs
        BY <2>1 DEF SnapshotDefinitions, TypeOK, tables
    <2> QED BY <1>2, <2>2 DEF RowsOf, Rows
<1>5. ASSUME HoldsDefinitions(q)'
      PROVE  snap'[q] = RowsOf(term(q))' /\ Top(version[q], Versions(term(q)))'
    <2>0. CommitApproval(q) => pc'[q] = "done"
        BY DEF CommitApproval, Answer, Goto, TypeOK
    <2>1. defs' = defs
        BY <1>5, <2>0, OnlyApprovalsWriteRows DEF HoldsDefinitions
    <2>2. RowsOf(term(q))' = RowsOf(term(q)) /\ Versions(term(q))' = Versions(term(q))
        BY <1>2, <2>1 DEF RowsOf, Rows, Versions
    <2>3. CASE HoldsDefinitions(q) /\ snap'[q] = snap[q] /\ version'[q] = version[q]
        BY <2>2, <2>3 DEF ReadWhole, Top
    <2>4. CASE LockDefinitions(q)
        <3>1. /\ pc[q] = "lock_definitions" /\ snap' = snap
              /\ version'[q] = NextVersion(snap[q])
            BY <2>4 DEF LockDefinitions, TypeOK
        <3>2. snap[q] = RowsOf(term(q))
            BY <3>1 DEF ReadWhole
        <3>3. Top(version'[q], Versions(term(q)))
            BY <1>2, <3>1, <3>2, NextIsTop
        <3> QED BY <2>2, <3>1, <3>2, <3>3 DEF Top
    <2> QED BY <1>5, <2>3, <2>4, DefinitionsHeld
<1> QED BY <1>3, <1>4, <1>5 DEF ReadWhole

\* An approval retires the row in force, which it has locked.
LEMMA OneInForceStep ==
    ASSUME SerialInv, NEW q \in Requests, Moves(q)
    PROVE  OneInForce'
PROOF
<1> USE DEF SerialInv, Inv
<1>1. CASE CommitApproval(q)
    <2>1. HoldsDefinitions(q)
        BY <1>1 DEF CommitApproval, HoldsDefinitions
    <2>2. prior[q] = {i \in RowsOf(term(q)) : defs[i].state = "canonical"}
        BY <2>1 DEF DefinitionLocks, ReadWhole
    <2>3. q \notin Rows /\ Rows' = Rows \cup {q}
        BY <1>1, ApprovedVersions
    <2>4. defs'[q].term = term(q)
        <3>1. defs'[q] = [term |-> term(q), version |-> version[q], state |-> "canonical"]
            BY <1>1, PromotedRows
        <3> QED BY <3>1
    <2>5. \A i \in Rows : /\ defs'[i].term = defs[i].term
                          /\ defs'[i].state = IF i \in prior[q] THEN "superseded" ELSE defs[i].state
        BY <1>1, <2>3, PromotedRows
    <2>6. \A i \in Rows : defs[i].term = term(q) => defs'[i].state # "canonical"
        BY <2>2, <2>5 DEF RowsOf
    <2> QED BY <2>3, <2>4, <2>5, <2>6 DEF OneInForce
<1>2. CASE ~ CommitApproval(q)
    BY <1>2, OnlyApprovalsWriteRows DEF OneInForce, Rows
<1> QED BY <1>1, <1>2

\* Only saves, which have ended then, put runs there.
LEMMA RunsSavedStep ==
    ASSUME SerialInv, NEW q \in Requests, Moves(q)
    PROVE  RunsSaved'
PROOF
<1> USE DEF SerialInv, Inv
<1>1. job' = job /\ \A p \in Requests : run(p)' = run(p)
    BY OthersUnmoved DEF run
<1>2. \A p \in Requests : pc[p] = "done" => pc'[p] = "done"
    <2>1. \A p \in Requests \ {q} : pc'[p] = pc[p]
        BY OthersUnmoved
    <2>2. pc[q] # "done"
        BY DEF Moves, Active, Step, Start, Fail, HasRun, SelectTerm, InsertTerm, InsertRun, Recheck,
           CommitSave, CommitApproval, CommitRejection, LockProposal, SnapshotDefinitions,
           LockDefinitions, SelectUnit, InsertUnit, FindTerm, FindCanonical, FindProposal,
           FindPromotion
    <2> QED BY <2>1, <2>2
<1>3. ASSUME NEW r \in runs' \ runs
      PROVE  pc'[q] = "done" /\ run(q) = r /\ job[q].op \in {"save", "import"}
    <2>1. CommitSave(q) /\ r = run(q)
        BY <1>3, RunsGrow
    <2>2. pc[q] = "commit_save" /\ pc'[q] = "done"
        BY <2>1 DEF CommitSave, Answer, Goto, TypeOK
    <2>3. pc[q] \in StatementsOf(job[q].op) \cup {"waiting", "done"}
        BY DEF SessionsInOrder
    <2>4. job[q].op \in {"save", "import", "approved", "rejected", "lookup"}
        BY RequestTypes, ConstantsAssumption
    <2> QED BY <2>1, <2>2, <2>3, <2>4 DEF StatementsOf
<1> QED BY <1>1, <1>2, <1>3 DEF RunsSaved, ClientJobs

\* A new save's run is not there.
LEMMA SaveIsNew ==
    ASSUME SerialInv, NEW q \in Requests, job[q].op = "save", pc[q] # "done"
    PROVE  run(q) \notin runs
PROOF
<1>1. run(q) \notin Hosted /\ run(q) \notin Stored
    BY DEF SerialInv, RunsSaved, ClientJobs, run
<1>2. ASSUME NEW p \in Requests, pc[p] = "done", run(p) = run(q), job[p].op \in {"save", "import"}
      PROVE  FALSE
    <2>1. job[p].op = "import" => run(p) \in Hosted
        BY DEF SerialInv, RunsSaved, ClientJobs, run
    <2>2. p # q
        BY <1>2
    <2>3. job[p].op = "save" => run(p) # run(q)
        BY <2>2 DEF SerialInv, RunsSaved, ClientJobs, run
    <2> QED BY <1>1, <1>2, <2>1, <2>3
<1> QED BY <1>1, <1>2 DEF SerialInv, RunsSaved

\* What was absent when a request looked is absent when it inserts.
LEMMA StillAbsentStep ==
    ASSUME Workers = 1, SerialInv, NEW q \in Requests, Moves(q)
    PROVE  StillAbsent' /\ NoKeyConflict'
PROOF
<1> USE DEF SerialInv, Inv
<1>1. /\ job' = job /\ \A p \in Requests : run(p)' = run(p) /\ term(p)' = term(p)
      /\ \A p \in Requests \ {q} : outcome'[p] = outcome[p]
    BY OthersUnmoved DEF run, term
<1>2. ASSUME NEW p \in Requests \ {q}
      PROVE  pc'[p] \in {"waiting", "done"}
    <2>1. ~ Active(p)'
        BY <1>2, Solo
    <2> QED BY <2>1 DEF Active
<1>3. pc[q] \in StatementsOf(job[q].op) \cup {"waiting", "done"}
    BY DEF SessionsInOrder
<1>4. job[q].op \in {"save", "import", "approved", "rejected", "lookup"}
    BY RequestTypes, ConstantsAssumption
<1>5. /\ pc[q] \in {"select_term", "insert_term", "insert_run"} => run(q) \notin runs
      /\ pc[q] = "insert_term" => term(q) \notin terms
      /\ pc[q] = "insert_unit" => SlugOf[OwnerOf[run(q)]] \notin units
      /\ pc[q] # "recheck" /\ outcome[q] # "integrity_error"
    BY DEF StillAbsent, NoKeyConflict
<1> DEFINE Absent ==
             /\ pc'[q] \in {"select_term", "insert_term", "insert_run"} => run(q) \notin runs'
             /\ pc'[q] = "insert_term" => term(q) \notin terms'
             /\ pc'[q] = "insert_unit" => SlugOf[OwnerOf[run(q)]] \notin units'
             /\ pc'[q] # "recheck" /\ outcome'[q] # "integrity_error"
<1>6. SUFFICES Absent
    BY <1>1, <1>2 DEF StillAbsent, NoKeyConflict
<1> USE DEF TypeOK, Goto, Answer, local, tables, StatementsOf
<1>7. CASE Start(q)
    <2>1. UNCHANGED <<tables, outcome>> /\ pc'[q] = FirstStep(job[q].op)
        BY <1>7 DEF Start
    <2>2. job[q].op = "save" => run(q) \notin runs
        BY <1>7, SaveIsNew DEF Start
    <2> QED BY <1>4, <1>5, <2>1, <2>2 DEF FirstStep
<1>8. CASE HasRun(q) \/ SelectTerm(q) \/ Fail(q) \/ Recheck(q)
    BY <1>5, <1>8 DEF HasRun, SelectTerm, Fail, Recheck
<1>9. CASE InsertTerm(q)
    BY <1>5, <1>9 DEF InsertTerm
<1>10. CASE InsertRun(q)
    BY <1>5, <1>10 DEF InsertRun
<1>11. CASE Commits(q)
    BY <1>5, <1>11 DEF Commits, CommitSave, CommitApproval, CommitRejection
<1>12. CASE LockProposal(q)
    BY <1>5, <1>12 DEF LockProposal
<1>13. CASE SnapshotDefinitions(q) \/ LockDefinitions(q) \/ SelectUnit(q) \/ InsertUnit(q)
    BY <1>5, <1>13 DEF SnapshotDefinitions, LockDefinitions, SelectUnit, InsertUnit
<1>14. CASE FindTerm(q) \/ FindCanonical(q) \/ FindProposal(q) \/ FindPromotion(q)
    BY <1>5, <1>14 DEF FindTerm, FindCanonical, FindProposal, FindPromotion
<1> QED
    BY <1>7, <1>8, <1>9, <1>10, <1>11, <1>12, <1>13, <1>14 DEF Moves, Step, Commits

-----------------------------------------------------------------------------
\* The theorems about rows and keys.

\* Before the first request there are no rows, and only runs stored before.
LEMMA SerialInit == Init => SerialInv
PROOF
<1> SUFFICES ASSUME Init PROVE SerialInv
    OBVIOUS
<1>1. Rows = {}
    BY DEF Init, Rows
<1>2. Alone /\ ReadWhole /\ StillAbsent /\ NoKeyConflict
    BY DEF Init, Alone, Active, ReadWhole, HoldsDefinitions, StillAbsent, NoKeyConflict
<1>3. OneInForce /\ RunsSaved
    BY <1>1 DEF Init, OneInForce, RunsSaved
<1> QED BY <1>2, <1>3, InvInit DEF SerialInv

\* With one worker every step keeps the invariant.
LEMMA SerialStep ==
    ASSUME Workers = 1, SerialInv, [Next]_vars
    PROVE  SerialInv'
PROOF
<1>1. Inv'
    BY InvStep DEF SerialInv
<1>2. CASE UNCHANGED vars
    <2> USE <1>2 DEF vars, tables, local, SerialInv
    <2>1. Alone' /\ StillAbsent' /\ NoKeyConflict'
        BY DEF Alone, Active, StillAbsent, run, term, NoKeyConflict
    <2>2. OneInForce' /\ RunsSaved'
        BY DEF OneInForce, Rows, RunsSaved, run, ClientJobs
    <2>3. ReadWhole'
        BY DEF ReadWhole, HoldsDefinitions, RowsOf, Rows, term, run, Top, Versions
    <2> QED BY <1>1, <2>1, <2>2, <2>3
<1>3. CASE Next
    <2>1. PICK q \in Requests : Moves(q)
        BY <1>3 DEF Next, Moves
    <2>2. Alone'
        BY <2>1, AloneStep DEF SerialInv, Inv
    <2> QED
        BY <1>1, <2>1, <2>2, ReadWholeStep, OneInForceStep, RunsSavedStep, StillAbsentStep
           DEF SerialInv
<1> QED BY <1>2, <1>3

\* One at a time, the invariant holds in every reachable state.
THEOREM SerialInvariance == ASSUME Workers = 1 PROVE Spec => []SerialInv
PROOF
<1>1. SerialInv /\ [Next]_vars => SerialInv'
    BY SerialStep
<1> QED BY <1>1, SerialInit, PTL DEF Spec

\* One at a time, a term has at most one canonical definition: what
\* get_canonical_definition and its test say of the registry holds without the
\* race that registry_two_approvals shows.
THEOREM OneCanonical == ASSUME Workers = 1 PROVE Spec => []OneActiveCanonical
PROOF
<1>1. ASSUME SerialInv PROVE OneActiveCanonical
    <2> SUFFICES ASSUME NEW t \in Terms PROVE Cardinality(CanonicalOf(t)) <= 1
        BY DEF OneActiveCanonical
    <2>1. \A i, j \in CanonicalOf(t) : i = j
        BY <1>1 DEF SerialInv, OneInForce, CanonicalOf, RowsOf
    <2>2. CASE CanonicalOf(t) = {}
        BY <2>2, FS_EmptySet
    <2>3. CASE CanonicalOf(t) # {}
        <3>1. PICK i \in CanonicalOf(t) : TRUE
            BY <2>3
        <3>2. CanonicalOf(t) = {i}
            BY <2>1
        <3> QED BY <3>2, FS_Singleton
    <2> QED BY <2>2, <2>3
<1> QED BY <1>1, SerialInvariance, PTL

\* One at a time, no request loses an insertion to another.
THEOREM NoKeysConflict == ASSUME Workers = 1 PROVE Spec => []NoKeyConflict
PROOF
<1>1. SerialInv => NoKeyConflict
    BY DEF SerialInv
<1> QED BY <1>1, SerialInvariance, PTL

-----------------------------------------------------------------------------
\* The refinement.

\* The mapping of GovernsTerms.
CurrentOf(t) ==
    IF CanonicalOf(t) = {} THEN NoDef ELSE CHOOSE r \in Runs : link[r] \in CanonicalOf(t)
LatestOf(t) == Max({0} \cup {defs[i].version : i \in RowsOf(t)})

Current == [t \in Terms |-> CurrentOf(t)]
Latest  == [t \in Terms |-> LatestOf(t)]

\* The run in force is the one whose approval made the canonical row.
LEMMA CurrentIs ==
    SerialInv => \A t \in Terms : \A i \in CanonicalOf(t) : CurrentOf(t) = run(i)
PROOF
<1> SUFFICES ASSUME SerialInv, NEW t \in Terms, NEW i \in CanonicalOf(t)
             PROVE  CurrentOf(t) = run(i)
    OBVIOUS
<1> USE DEF SerialInv, Inv
<1>1. i \in Rows /\ Rows \subseteq Requests
    BY DEF CanonicalOf, RowsOf, TypeOK
<1>2. run(i) \in Runs /\ link[run(i)] = i
    BY <1>1, RequestTypes DEF RowOwnership
<1>3. ASSUME NEW r \in Runs, link[r] \in CanonicalOf(t)
      PROVE  r = run(i)
    <2>1. link[r] = i
        BY <1>3 DEF OneInForce, CanonicalOf, RowsOf
    <2>2. i # NoDef
        BY <1>1, ConstantsAssumption
    <2> QED BY <2>1, <2>2 DEF RowOwnership
<1>4. (CHOOSE r \in Runs : link[r] \in CanonicalOf(t)) = run(i)
    BY <1>2, <1>3
<1> QED BY <1>4 DEF CurrentOf

\* A step that leaves rows and links alone leaves the mapping alone.
LEMMA MappingStays ==
    ASSUME defs' = defs, link' = link
    PROVE  Current' = Current /\ Latest' = Latest
PROOF BY DEF Current, CurrentOf, Latest, LatestOf, CanonicalOf, RowsOf, Rows

\* An approval makes its run the term's current meaning, under the next version.
LEMMA ApprovalMaps ==
    ASSUME SerialInv, SerialInv', NEW q \in Requests, CommitApproval(q)
    PROVE  /\ status[run(q)] = "draft"
           /\ status' = [status EXCEPT ![run(q)] = "approved"]
           /\ Current' = [Current EXCEPT ![term(q)] = run(q)]
           /\ Latest' = [Latest EXCEPT ![term(q)] = @ + 1]
PROOF
<1> USE DEF SerialInv, Inv
<1>1. HoldsDefinitions(q) /\ HoldsProposal(q)
    BY DEF CommitApproval, HoldsDefinitions, HoldsProposal
<1>2. status[run(q)] = "draft" /\ status' = [status EXCEPT ![run(q)] = "approved"]
    BY <1>1 DEF ProposalLocks, CommitApproval
<1>3. /\ run(q) \in Runs /\ TypeOK
      /\ run(q)' = run(q) /\ \A i \in Requests : run(i)' = run(i)
    BY RequestTypes, OthersUnmoved DEF run, Moves, Step
<1>t. PICK ours \in Terms : ours = term(q)
    BY RequestTypes
<1>4. /\ q \notin Rows /\ Rows' = Rows \cup {q}
      /\ \A t \in Terms : Versions(t)' =
           IF t = ours THEN Versions(t) \cup {version[q]} ELSE Versions(t)
      /\ \A t \in Terms : RowsOf(t)' =
           IF t = ours THEN RowsOf(t) \cup {q} ELSE RowsOf(t)
    BY <1>t, ApprovedVersions
<1>5. \A t \in Terms : LatestOf(t) = Max({0} \cup Versions(t))
    BY DEF LatestOf, Versions
<1>6. \A t \in Terms : LatestOf(t)' = Max({0} \cup Versions(t)')
    BY DEF LatestOf, Versions
<1>7. /\ Versions(ours) \in SUBSET Nat /\ version[q] \in Nat
      /\ Top(version[q], Versions(ours))
    BY <1>1, <1>t, NextIsTop DEF ReadWhole, TypeOK
<1>8. Latest' = [Latest EXCEPT ![ours] = @ + 1]
    <2> DEFINE v == version[q]
               V == Versions(ours)
    <2>1. v \in Nat \ {0} /\ Max({0} \cup V) + 1 = v /\ Max({0} \cup V) \in Nat
        BY <1>7, TopIsNext
    <2>2. v + 1 \in Nat /\ Top(v + 1, V \cup {v}) /\ V \cup {v} \in SUBSET Nat
        BY <1>7 DEF Top
    <2>3. /\ Max({0} \cup (V \cup {v})) + 1 = v + 1
          /\ Max({0} \cup (V \cup {v})) \in Nat
        BY <2>2, TopIsNext
    <2>4. LatestOf(ours)' = LatestOf(ours) + 1
        <3>1. LatestOf(ours) = Max({0} \cup V)
            BY <1>5
        <3>2. LatestOf(ours)' = Max({0} \cup (V \cup {v}))
            BY <1>4, <1>6
        <3> HIDE DEF v, V
        <3> QED BY <2>1, <2>3, <3>1, <3>2
    <2>5. \A t \in Terms \ {ours} : LatestOf(t)' = LatestOf(t)
        BY <1>4, <1>5, <1>6
    <2> QED BY <1>3, <2>4, <2>5 DEF Latest
<1>9. Current' = [Current EXCEPT ![ours] = run(q)]
    <2>1. /\ defs'[q].term = ours /\ defs'[q].state = "canonical"
          /\ \A i \in Rows : /\ defs'[i].term = defs[i].term
                             /\ defs'[i].state =
                                  IF i \in prior[q] THEN "superseded" ELSE defs[i].state
        <3>1. defs'[q] = [term |-> term(q), version |-> version[q], state |-> "canonical"]
            BY PromotedRows
        <3> QED BY <1>t, <1>4, <3>1, PromotedRows
    <2>2. q \in CanonicalOf(ours)'
        BY <1>4, <2>1 DEF CanonicalOf, RowsOf
    <2>3. (\A t \in Terms : \A i \in CanonicalOf(t) : CurrentOf(t) = run(i))'
        BY CurrentIs, PTL
    <2>4. CurrentOf(ours)' = run(q)
        BY <1>3, <1>t, <2>2, <2>3
    <2>5. ASSUME NEW t \in Terms, t # ours
          PROVE  CurrentOf(t)' = CurrentOf(t)
        <3>1. \A i \in Rows : defs[i].term = t => i \notin prior[q]
            BY <1>1, <1>t, <2>5 DEF DefinitionLocks, RowsOf
        <3>2. CanonicalOf(t)' = CanonicalOf(t)
            BY <1>4, <2>1, <2>5, <3>1 DEF CanonicalOf, RowsOf
        <3>3. CASE CanonicalOf(t) = {}
            BY <3>2, <3>3 DEF CurrentOf
        <3>4. ASSUME NEW i \in CanonicalOf(t)
              PROVE  CurrentOf(t)' = CurrentOf(t)
            <4>1. CurrentOf(t)' = run(i)'
                BY <2>3, <3>2, <3>4
            <4>2. CurrentOf(t) = run(i)
                BY <3>4, CurrentIs
            <4>3. i \in Requests
                BY <3>4 DEF CanonicalOf, RowsOf, TypeOK
            <4> QED BY <1>3, <4>1, <4>2, <4>3
        <3> QED BY <3>3, <3>4
    <2> QED BY <1>3, <2>4, <2>5 DEF Current
<1> QED BY <1>2, <1>t, <1>8, <1>9

\* Every step of the registry is one of GovernedTerms, or none.
LEMMA StepMaps ==
    ASSUME SerialInv, SerialInv', [Next]_vars
    PROVE  [Governance!GNext]_(Governance!gvars)
PROOF
<1> USE DEF SerialInv, Inv
<1> DEFINE Stutters == status' = status /\ Current' = Current /\ Latest' = Latest
           Publishes(r) == /\ status[r] = "none"
                           /\ status' = [status EXCEPT ![r] = "draft"]
                           /\ Current' = Current /\ Latest' = Latest
           Rejects(r)   == /\ status[r] = "draft"
                           /\ status' = [status EXCEPT ![r] = "rejected"]
                           /\ Current' = Current /\ Latest' = Latest
           Approves(r)  == /\ status[r] = "draft"
                           /\ status' = [status EXCEPT ![r] = "approved"]
                           /\ Current' = [Current EXCEPT ![TermOf[r]] = r]
                           /\ Latest' = [Latest EXCEPT ![TermOf[r]] = @ + 1]
<1>1. Stutters \/ \E r \in Runs : Publishes(r) \/ Rejects(r) \/ Approves(r)
    <2>1. CASE UNCHANGED vars
        BY <2>1, MappingStays DEF vars, tables
    <2>2. ASSUME NEW q \in Requests, Moves(q)
          PROVE  Stutters \/ \E r \in Runs : Publishes(r) \/ Rejects(r) \/ Approves(r)
        <3>1. run(q) \in Runs /\ term(q) = TermOf[run(q)]
            BY RequestTypes DEF term
        <3>2. CASE CommitApproval(q)
            BY <3>1, <3>2, ApprovalMaps
        <3>3. CASE ~ CommitApproval(q)
            <4>1. Current' = Current /\ Latest' = Latest
                BY <2>2, <3>3, OnlyApprovalsWriteRows, MappingStays
            <4>2. CASE CommitSave(q)
                <5>1. status[run(q)] = "none"
                    BY <3>1, <4>2 DEF CommitSave, RunKeys
                <5>2. \/ status' = [status EXCEPT ![run(q)] = "draft"]
                      \/ status' = status
                    BY <4>2 DEF CommitSave
                <5> QED BY <3>1, <4>1, <5>1, <5>2
            <4>3. CASE CommitRejection(q)
                <5>1. HoldsProposal(q) /\ status' = [status EXCEPT ![run(q)] = "rejected"]
                    BY <4>3 DEF CommitRejection, HoldsProposal
                <5>2. status[run(q)] = "draft"
                    BY <5>1 DEF ProposalLocks
                <5> QED BY <3>1, <4>1, <5>1, <5>2
            <4>4. CASE ~ Commits(q)
                BY <2>2, <4>1, <4>4, OnlyCommitsWrite DEF tables
            <4> QED BY <3>3, <4>2, <4>3, <4>4 DEF Commits
        <3> QED BY <3>2, <3>3
    <2> QED BY <2>1, <2>2 DEF Next, Moves
<1>2. ASSUME NEW r \in Runs, Publishes(r) \/ Rejects(r) \/ Approves(r)
      PROVE  Governance!GNext
    <2>1. Governance!Publish(r) \/ Governance!Reject(r) \/ Governance!Approve(r)
        BY <1>2 DEF Governance!Publish, Governance!Reject, Governance!Approve,
                    Current, CurrentOf, Latest, LatestOf
    <2> QED BY <2>1 DEF Governance!GNext
<1>3. Stutters => UNCHANGED Governance!gvars
    BY DEF Governance!gvars, Current, CurrentOf, Latest, LatestOf
<1> QED BY <1>1, <1>2, <1>3

\* The empty registry is a vocabulary nobody has governed.
LEMMA InitMaps == Init => Governance!GInit
PROOF
<1> SUFFICES ASSUME Init PROVE Governance!GInit
    OBVIOUS
<1>1. Rows = {} /\ TypeOK
    BY TypeInit DEF Init, Rows
<1>2. ASSUME NEW t \in Terms
      PROVE  CanonicalOf(t) = {} /\ LatestOf(t) = 0
    <2>1. RowsOf(t) = {} /\ Versions(t) = {}
        BY <1>1 DEF RowsOf, Versions
    <2>2. Top(1, {}) /\ {} \in SUBSET Nat
        BY DEF Top
    <2>3. Max({0} \cup {}) + 1 = 1 /\ Max({0} \cup {}) \in Nat
        BY <2>2, TopIsNext
    <2>4. LatestOf(t) = Max({0} \cup {})
        BY <2>1 DEF LatestOf, Versions
    <2> QED BY <2>1, <2>3, <2>4 DEF CanonicalOf
<1>3. status \in [Runs -> {"none", "draft"}]
    BY DEF Init
<1> QED BY <1>2, <1>3 DEF Governance!GInit, LatestOf

\* One at a time, the registry keeps the promise of GovernedTerms: publishing,
\* approving and rejecting are atomic, an approval replaces the one meaning in
\* force, and versions have neither gaps nor repetitions.
THEOREM Governs == ASSUME Workers = 1 PROVE Spec => GovernsTerms
PROOF
<1>1. SerialInv /\ SerialInv' /\ [Next]_vars => [Governance!GNext]_(Governance!gvars)
    BY StepMaps
<1> QED BY <1>1, InitMaps, SerialInvariance, PTL DEF Spec, GovernsTerms, Governance!GSpec
=============================================================================
