------------------------------ MODULE Platform ------------------------------
(***************************************************************************)
(* The gateway with its repository, the serving manager, the feature job   *)
(* and the agent runtime: the handlers of Models, Catalog and Agents       *)
(* interleaved, with restarts of the gateway.                              *)
(***************************************************************************)
EXTENDS Agents

\* The resources.
ModelRow ==
  LET stages == {"candidate", "staging", "production", "archived"}
  IN [kind : {"model"}, name : Names, version : Versions, gate : {"passed", "failed"},
      stage : stages, previous : stages \cup {""},
      deployment : {"not_deployed", "deploying", "serving", "failed", "rolled_back"},
      weight : Int, endpoint : {"", "path", "http"}]
ToolRow == [kind : {"tool"}, name : Names, version : Versions]
ConnectionRow ==
  [kind : {"connection"}, name : Names, version : {""}, status : {"pending", "healthy", "unhealthy"}]
ViewRow ==
  [kind : {"feature_view"}, name : Names, version : {""}, fields : Fields,
   status : {"registered", "materialized"}, count : Nat]
AgentRow == [kind : {"agent"}, name : Names, version : {""}, weight : Int]
Row == ModelRow \cup ToolRow \cup ConnectionRow \cup ViewRow \cup AgentRow

Session == [turns : Nat, tokens : Nat]
Unit == [model : Ids, by : Handlers, running : BOOLEAN]   \* a container

\* Steps of a handler that change Docker, and writes with the step after them.
DockerStep ==
  [at : {"Undeploy", "Create", "Start", "Serving", "Failed", "DeleteDeployment"}, name : Names, id : Ids]
WriteStep ==
  [at : {"Write"}, name : Names, id : Ids, value : Row,
   then : {Absent} \cup DockerStep \cup [at : {"Put"}, name : Names, left : {Entities}]]

ASSUME PlatformAssumption ==
  /\ Absent \notin Row \cup Session \cup Unit \cup DockerStep \cup WriteStep
  /\ IsFiniteSet(Handlers) /\ IsFiniteSet(Entities) /\ Cardinality(Entities) \in Nat
  /\ Ids \subseteq Nat /\ Weights \subseteq Int

Init == RepositoryInit /\ ModelsInit /\ CatalogInit /\ AgentsInit

Request(h) ==
  \/ ModelRequest(h) /\ UNCHANGED <<online, lost, thread, spent>>
  \/ CatalogRequest(h) /\ UNCHANGED <<thread, spent>>
  \/ AgentRequest(h)

\* The next step of a request, of the feature job or of a turn.
Continue(h) ==
  \/ write(h) /\ UNCHANGED <<docker, online, lost, thread, spent>>
  \/ ServingStep(h) /\ UNCHANGED <<online, lost, thread, spent>>
  \/ CatalogStep(h) /\ UNCHANGED <<thread, spent>>
  \/ AgentStep(h)

Restart == restart /\ UNCHANGED <<docker, online, lost, thread, spent>>

Next == Restart \/ \E h \in Handlers : Request(h) \/ Continue(h)

\* Every call of a handler ends, by its timeout if need be.
Spec == Init /\ [][Next]_vars /\ \A h \in Handlers : WF_vars(Continue(h))

-----------------------------------------------------------------------------
(* Properties *)

Rows(kind) == {i \in Ids : HasKind(i, kind)}

\* A model whose evaluation gate failed is never in production, deployed or
\* serving, and no rollback can take it there: whatever PromoteModel, DeployModel
\* and RollbackModel overwrite of each other in PostgreSQL.
GateHolds ==
  \A i \in Rows("model") : rows[i].gate = "failed" =>
    /\ "production" \notin {rows[i].stage, rows[i].previous}
    /\ rows[i].deployment \in {"not_deployed", "rolled_back"}

AtWork(n) == \E h \in Handlers : ~Idle(h) /\ job[h].name = n

\* Registry and Docker agree once the requests for a model name are over, if they
\* did not overlap or fail: the container of the name runs a version that reads
\* serving, and when there is only one version and it reads serving, it runs.
\* (With several, a rollback of one removes the container of another.)
DeploymentsMatch ==
  \A n \in Names \ disturbed : ~AtWork(n) =>
    /\ docker[n] # Absent =>
         /\ docker[n].running
         /\ rows[docker[n].model].deployment = "serving" /\ rows[docker[n].model].endpoint = "http"
    /\ \A i \in Rows("model") :
         /\ rows[i].name = n /\ rows[i].deployment = "serving"
         /\ \A j \in Rows("model") : rows[j].name = n => j = i
         => docker[n] # Absent /\ docker[n].model = i

Settled(i) == HasKind(i, "model") /\ rows[i].deployment # "deploying"

\* A model does not stay deploying: deployModel ends in serving or failed, unless
\* the request failed, was cut off by a restart or met another one.
DeploymentSettles ==
  \A i \in Ids : (HasKind(i, "model") /\ ~Settled(i)) ~> (Settled(i) \/ disturbed # {})

Copies(i) == {j \in Rows(rows[i].kind) : rows[j].name = rows[i].name /\ rows[j].version = rows[i].version}

\* Models and tools are unique by name and version, feature views by name.  In
\* PostgreSQL, where the check is an earlier query, requests that run at the same
\* time may each add a copy; later ones may not.
UniqueNames ==
  \A i \in Rows("model") \cup Rows("tool") \cup Rows("feature_view") :
    Cardinality(Copies(i)) <= IF repository = "file" THEN 1 ELSE Cardinality(Handlers)

\* What the gateway acknowledged survives its restart: persist replaces the file
\* before the answer is sent, also after an earlier persist failed.
AcknowledgedSurvives ==
  \A i \in acked : (IF repository = "file" THEN disk.rows[i] ELSE rows[i]) # Absent

\* A session counts each stored trace of its agent once.  In PostgreSQL, where the
\* trace is stored first and two reports may read the same session, it may miss some.
SessionsCountTraces ==
  \A k \in SessionKeys :
    LET turns == IF sessions[k] = Absent THEN 0 ELSE sessions[k].turns
    IN IF repository = "file" THEN turns = traces[k] ELSE turns <= traces[k]

\* The usage of a session is what its turns have cost.
ExactUsage == \A k \in SessionKeys : sessions[k] # Absent => sessions[k].tokens <= spent[k]

\* Applying a view again keeps its materialization history, unless requests for
\* the view overlap or fail.
MaterializationKept ==
  [][\A i \in Rows("feature_view") :
       rows[i].status = "materialized" /\ rows[i].name \notin disturbed' => rows'[i].status = "materialized"]_vars

\* The online store has as many entities of a view as were reported, but for those
\* that Redis did not take: the job reports after its last write. A view of which
\* nothing was reported counts 0.
ReportedIsOnline ==
  \A i \in Rows("feature_view") :
    rows[i].count = 0 \/ rows[i].count <= Cardinality(online[rows[i].name] \cup lost[rows[i].name])
=============================================================================
