---------------------------- MODULE MCRepository ----------------------------
(* Small instances of ReconciliationRepository for TLC.  The runs are about   *)
(* one term, or those stored before this history about one and the others     *)
(* about another; two owners share the slug their names fold to.              *)
EXTENDS ReconciliationRepository, TLC

CONSTANTS r3, t1, t2, owner1, owner2, slug1

OneTerm == [r \in Runs |-> t1]

\* A term with proposals to decide, and one that is still to be inserted.
StoredTerm == [r \in Runs |-> IF r \in Stored THEN t2 ELSE t1]

OneOwner  == [r \in Runs |-> owner1]
TwoOwners == [r \in Runs |-> IF r = r3 THEN owner2 ELSE owner1]

OneSlug == [o \in Owners |-> slug1]

Symmetry == Permutations(Requests)
=============================================================================
