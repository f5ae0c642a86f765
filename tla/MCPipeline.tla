----------------------------- MODULE MCPipeline -----------------------------
(* Small instances of ReconciliationPipeline for TLC: the seven concepts of    *)
(* CoordinatorAgent and an unknown one, two or three definitions each, results *)
(* that differ in their entities, in their totals only, or not at all, and one *)
(* rule set for each way _decide can go.                                       *)
EXTENDS ReconciliationPipeline

CONSTANTS council, sales

AllConcepts == Supported \cup {"unknown_term"}

NumberedDefinitions ==
    [c \in AllConcepts |-> IF c \in {"active_customer", "certification_ready"} THEN 1..3 ELSE 1..2]

SmallResults ==
    {[ids |-> {1}, total |-> 1], [ids |-> {2}, total |-> 1],
     [ids |-> {1, 2}, total |-> 2], [ids |-> {1}, total |-> 2]}

Clear(o)   == [canonical |-> FALSE, status |-> "clear", owner |-> o]
Naming(o)  == [canonical |-> TRUE, status |-> "clear", owner |-> o]
Unowned(s) == [canonical |-> FALSE, status |-> s, owner |-> None]

SmallRuleSets ==
    {{Naming(council), Unowned("shared")},
     {Clear(sales)},
     {Clear(council), Clear(sales)},
     {Clear(sales), Unowned("ambiguous")}}
=============================================================================
