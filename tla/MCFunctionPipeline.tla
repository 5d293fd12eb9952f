------------------------- MODULE MCFunctionPipeline -------------------------
(* Instances of FunctionPipeline.  Jobs are interchangeable, so one graph of
   each shape stands for all; choosing the shapes by hand instead of with a
   SYMMETRY keeps the liveness properties checkable. *)
EXTENDS FunctionPipeline, TLC

CONSTANTS run1, run2, a, b, c

\* The acyclic graphs of up to three jobs, up to renaming.
Shapes ==
  {a :> {}, a :> {} @@ b :> {}, a :> {} @@ b :> {a}} \cup
  {a :> {} @@ b :> B @@ c :> C : B \in SUBSET {a}, C \in SUBSET {a, b}}

\* One job, and a chain of two.
FewDefinitions == {a :> {}, a :> {} @@ b :> {a}}

Used == {definition} \cup ({exec[r].def : r \in RunIds} \ {<<>>})

\* A second run, and a change of the definition, only with the few definitions
\* and without lost reports and restarts.  Executors share nothing, so the second
\* run comes after the executor of the first has returned.  A report is lost or
\* the gateway restarts, not both.
OneRunOrFew ==
  /\ faults + crashes <= 1
  /\ run2 \in DOMAIN runs => exec[run1].phase = "returned"
  /\ run2 \in DOMAIN runs \/ updates > 0 =>
       faults = 0 /\ crashes = 0 /\ Used \subseteq FewDefinitions
=============================================================================
