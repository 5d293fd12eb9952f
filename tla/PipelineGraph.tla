--------------------------- MODULE PipelineGraph ----------------------------
(***************************************************************************)
(* The dependency graph of a pipeline definition: a function from job      *)
(* names to the set of job names in DependsOn.                             *)
(***************************************************************************)
EXTENDS Integers, FiniteSets

CONSTANTS Jobs      \* job names

ASSUME JobsAssumption == IsFiniteSet(Jobs)

\* Dependencies name other jobs of the definition; there is a job.
WellFormed(def) ==
  /\ DOMAIN def # {}
  /\ \A j \in DOMAIN def : def[j] \subseteq DOMAIN def \ {j}

\* The jobs of S can never be started: each waits for another one of S.
Deadlocked(def, S) == S # {} /\ \A j \in S : def[j] \cap S # {}

\* No set of jobs waits for itself; for finitely many jobs this is the
\* absence of a cycle.
Acyclic(def) == \A S \in SUBSET DOMAIN def : ~Deadlocked(def, S)

\* What validatePipelineDefinition accepts, as far as the graph goes.
Valid(def) == WellFormed(def) /\ Acyclic(def)

\* Every graph over some of the names with well-formed dependencies.
Graphs ==
  UNION {{def \in [S -> SUBSET S] : WellFormed(def)} : S \in SUBSET Jobs}
=============================================================================
