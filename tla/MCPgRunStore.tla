---------------------------- MODULE MCPgRunStore ----------------------------
(* Small instances of PgRunStore; the configurations choose the number of
   clients, runs and step names. *)
EXTENDS PgRunStore, TLC

CONSTANTS prj1, prj2, d1, run1, run2, e1, a, x, c1, c2

Busy == {c \in Clients : pending[c] # Idle}

\* Callers take turns when there are two projects, then with one run, or two runs
\* of which one is linked to its engine.
Bounded ==
  /\ prj2 \in projects \/ ~Unused("project", prj2) =>
       Cardinality(Busy) <= 1 /\ Cardinality(DOMAIN runs) <= 1
  /\ Cardinality(DOMAIN runs) = 2 /\ (\E r \in RunIds : runs[r].engine # None) =>
       Cardinality(Busy) <= 1

Symmetry == Permutations({c1, c2}) \cup Permutations({run1, run2})
=============================================================================
