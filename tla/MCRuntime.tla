------------------------------ MODULE MCRuntime ------------------------------
(* Small instances of ReviewerRuntime for TLC: two learning terms, one of the *)
(* business pack, four contexts the settings can make available, and          *)
(* workloads of four requests, each made for one kind of race.                *)
EXTENDS ReviewerRuntime

CONSTANTS q1, q2, q3, q4

SmallPackOf == [t \in {"certification_ready", "exam_eligible", "churned_customer"} |->
                   IF t = "churned_customer" THEN "business" ELSE "learning"]

Context(p, k) == [profile |-> p, pack |-> k]
Available ==
    {Context("local", "learning"), Context("local", "business"),
     Context("fabric_live", "learning"), Context("foundry_live", "learning")}

Analyze(t) == [op |-> "analyze", term |-> t]
Ask(t)     == [op |-> "ask", term |-> t]
Select(c)  == [op |-> "select", to |-> c]
Rerun(r)   == [op |-> "rerun", run |-> r]
Court(r)   == [op |-> "court", run |-> r]

Load(a, b, c, d) == [q \in Requests |-> CASE q = q1 -> a [] q = q2 -> b [] q = q3 -> c [] OTHER -> d]

\* Selections race with each other and with requests.
Races ==
    {Load(Analyze("exam_eligible"), Ask("certification_ready"),
          Select(Context("foundry_live", "learning")), Select(Context("local", "business"))),
     Load(Analyze("churned_customer"), Court(q1),
          Select(Context("fabric_live", "learning")), Select(Context("local", "business")))}

\* More runs than the cache holds, some reopened.
Reopened ==
    {Load(Analyze("certification_ready"), Analyze("exam_eligible"),
          Analyze("certification_ready"), Court(q1))}

FirstContexts == {Context("local", "learning"), Context("fabric_live", "learning")}

\* A case is run again after a selection.
Reruns ==
    {Load(Analyze("certification_ready"), Select(Context("local", "business")),
          Rerun(q1), Rerun(q3)),
     Load(Analyze("certification_ready"), Select(Context("fabric_replay", "business")),
          Rerun(q1), Select(Context("foundry_live", "learning")))}

AllWorkloads == Races \cup Reopened \cup Reruns
=============================================================================
