------------------------------ MODULE MCAccess ------------------------------
(* One user, with one project, run and function at a time.                 *)
EXTENDS Access, TLC

One == [projects |-> 1, runs |-> 1, functions |-> 1]

MCGrantRequests ==
  {[profile |-> "custom", max |-> One, disabled |-> FALSE, projects |-> {Demo}],
   [profile |-> "custom", max |-> One, disabled |-> TRUE, projects |-> {}],
   [profile |-> "custom", max |-> [One EXCEPT !.runs = -1], disabled |-> FALSE, projects |-> {}]}

Created == {p \in Projects \ {Demo} : projects[p] # Absent}

\* What the administrator has made or is making.
Foreign ==
  {<<"project", p>> : p \in {p \in Projects : projects[p] = "admin"}} \cup
  {<<"run", r>> : r \in {r \in Runs : runs[r] # Absent /\ runs[r].by = "admin"}} \cup
  {<<"function", n>> : n \in OwnFunctions("admin")} \cup
  {<<"job", h>> : h \in {h \in Handlers : ~Idle(h) /\ "who" \in DOMAIN job[h] /\ job[h].who = "admin"}}

Doing(steps) == \E h \in Handlers : ~Idle(h) /\ job[h].at \in steps

\* Runs, functions and requests do not depend on each other: explore one of them
\* at a time, or projects alone, with at most one resource or request of the
\* administrator, or one disturbed name.
OneKind ==
  LET kinds == {<<"projects", Cardinality(Created) > 1>>,
                <<"runs", Doing({"SubmitPipeline"}) \/ \E r \in Runs : runs[r] # Absent>>,
                <<"functions", \/ Doing({"DeployFunction", "UpsertFunction", "WriteFunction",
                                         "OpenFaaSDelete", "DeleteFunction"})
                              \/ openfaas # {} \/ \E n \in Names : functions[n] # Absent>>,
                <<"requests", Doing({"WriteRequest", "WriteReview"}) \/ \E q \in RequestIds : requests[q] # Absent>>}
  IN Cardinality({k \in kinds : k[2]}) <= 1 /\ Cardinality(disturbed) + Cardinality(Foreign) <= 1

Symmetry == Permutations(Handlers) \cup Permutations(Names)
=============================================================================
