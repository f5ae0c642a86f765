---------------------------- MODULE GovernedTerms ----------------------------
(***************************************************************************)
(* What the registry promises the people who govern a vocabulary, with no  *)
(* tables, sessions or locks: a run may publish one draft proposal, its    *)
(* draft is decided once, and each approval gives the run's term a new     *)
(* current meaning under the next version number.  A term has at most one  *)
(* current meaning and its versions have no gaps and no repetitions.       *)
(* Abstracts backend/concord/storage/repositories.py.                      *)
(***************************************************************************)
EXTENDS Naturals

CONSTANTS Runs, Terms, TermOf, Ungoverned

VARIABLES
    proposal,  \* run -> "none", "draft", "approved", "rejected"
    current,   \* term -> the run whose meaning is in force, or Ungoverned
    latest     \* term -> how many meanings were ever approved

gvars == <<proposal, current, latest>>

GInit ==
    /\ proposal \in [Runs -> {"none", "draft"}]
    /\ current = [t \in Terms |-> Ungoverned]
    /\ latest = [t \in Terms |-> 0]

Publish(r) ==
    /\ proposal[r] = "none"
    /\ proposal' = [proposal EXCEPT ![r] = "draft"]
    /\ UNCHANGED <<current, latest>>

Approve(r) ==
    /\ proposal[r] = "draft"
    /\ proposal' = [proposal EXCEPT ![r] = "approved"]
    /\ current' = [current EXCEPT ![TermOf[r]] = r]
    /\ latest' = [latest EXCEPT ![TermOf[r]] = @ + 1]

Reject(r) ==
    /\ proposal[r] = "draft"
    /\ proposal' = [proposal EXCEPT ![r] = "rejected"]
    /\ UNCHANGED <<current, latest>>

GNext == \E r \in Runs : Publish(r) \/ Approve(r) \/ Reject(r)

GSpec == GInit /\ [][GNext]_gvars
=============================================================================
