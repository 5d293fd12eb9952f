----------------------------- MODULE MCPlatform -----------------------------
(* One name, and resources of one kind at a time: kinds do not meet.       *)
EXTENDS Platform

Added == {i \in Ids : rows[i] # Absent} \cup {job[h].id : h \in {g \in Handlers : At(g, "Write")}}

Values == {rows[i] : i \in {j \in Ids : rows[j] # Absent}} \cup {job[h].value : h \in {g \in Handlers : At(g, "Write")}}

Touched == {i \in Rows("model") : rows[i].stage # "candidate" \/ rows[i].deployment # "not_deployed"}

\* Three models are only counted.  Two are deployed in the file store while no
\* request is disturbed, otherwise one; nothing is said of deployments after that,
\* and PostgreSQL only goes on with a model that failed its gate.  Only such a
\* model goes through more than one stage.
ModelBound ==
  /\ Touched # {} => Cardinality(Added) <= IF repository = "file" /\ disturbed = {} THEN 2 ELSE 1
  /\ repository = "postgres" /\ disturbed # {} => \A i \in Touched : rows[i].gate = "failed"
  /\ \A v \in Values : v.kind = "model" /\ "staging" \in {v.stage, v.previous} => v.gate = "failed"

\* Turns are taken by two agents, whose canary weight does not matter.
AgentBound ==
  /\ \A s \in Sessions : thread[s] + Cardinality({h \in Handlers : At(h, "Turn")}) <= MaxTurns
  /\ (\E s \in Sessions : thread[s] > 0) \/ (\E h \in Handlers : At(h, "Turn"))
     => Cardinality(Values) <= 1 /\ Cardinality(Added) <= 2

OneKind == Cardinality({v.kind : v \in Values}) <= 1 /\ ModelBound /\ AgentBound
=============================================================================
