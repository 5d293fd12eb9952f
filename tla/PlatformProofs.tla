--------------------------- MODULE PlatformProofs ---------------------------
(***************************************************************************)
(* For any number of handlers, resources, versions, faults and restarts,   *)
(* in both repositories: a model that failed its gate never reaches        *)
(* production or a container, and what was acknowledged is not lost.       *)
(***************************************************************************)
EXTENDS Platform, TLAPS

Named(j, ats) == j # Absent /\ j.at \in ats

ServingAts == {"Undeploy", "Create", "Start", "Serving", "Failed"}
DockerAts == ServingAts \cup {"DeleteDeployment"}
FeatureAts == {"Put", "Snapshot", "Report"}
SessionAts == {"RecordTrace", "ReadSession", "WriteSession"}

Servable(r) == r # Absent /\ r.kind = "model" /\ r.gate = "passed"

Gated(r) ==
  r # Absent /\ r.kind = "model" /\ r.gate = "failed" =>
    /\ "production" \notin {r.stage, r.previous}
    /\ r.deployment \in {"not_deployed", "rolled_back"}

\* Two values of one resource.
Same(r, s) ==
  r.kind = s.kind /\ r.name = s.name /\ r.version = s.version /\ (r.kind = "model" => r.gate = s.gate)

\* The fields of a step.
Shape(j) ==
  /\ j # Absent => j.name \in Names
  /\ Named(j, DockerAts) => j = [at |-> j.at, name |-> j.name, id |-> j.id]
  /\ Named(j, {"Put"}) => j = [at |-> j.at, name |-> j.name, left |-> j.left]
  /\ Named(j, {"Snapshot"}) => j = [at |-> j.at, name |-> j.name]
  /\ Named(j, {"Turn", "RecordTrace", "ReadSession"}) => j.agent \in Ids /\ j.session \in Sessions
  /\ Named(j, {"RecordTrace"}) =>
       j = [at |-> j.at, name |-> j.name, agent |-> j.agent, session |-> j.session, usage |-> j.usage]

\* The step that follows the write of value to resource i.
Follows(j, i, value) ==
  \/ j = Absent
  \/ value.kind = "feature_view" /\ j = [at |-> "Put", name |-> value.name, left |-> Entities]
  \/ Servable(value) /\ j = [at |-> "Undeploy", name |-> value.name, id |-> i]
  \/ /\ value.kind = "model" /\ value.deployment = "rolled_back"
     /\ j = [at |-> "DeleteDeployment", name |-> value.name, id |-> i]

\* The jobs, given the table of resources.
Writing(j, t) ==
  Named(j, {"Write"}) =>
    /\ j.id \in Ids /\ j.value \in Row /\ Gated(j.value) /\ j.value.name = j.name
    /\ t[j.id] # Absent => Same(t[j.id], j.value)
    /\ Follows(j.then, j.id, j.value)

IsModel(t, n, i) == i \in Ids /\ t[i] # Absent /\ t[i].kind = "model" /\ t[i].name = n

JobInv(j, t) ==
  /\ Shape(j)
  /\ Writing(j, t)
  /\ Named(j, ServingAts) => Servable(t[j.id])
  /\ Named(j, DockerAts) => IsModel(t, j.name, j.id)
  /\ Named(j, {"UpdateConnectionStatus"}) =>
       /\ j.id \in Ids /\ t[j.id] # Absent /\ t[j.id].kind = "connection" /\ t[j.id].name = j.name
       /\ j.status \in {"healthy", "unhealthy"}

\* Two writes to one resource are of a resource that is there.
PairInv(j, k, t) ==
  Named(j, {"Write"}) /\ Named(k, {"Write"}) /\ j.id = k.id => t[k.id] # Absent

Table(t) == t \in [Ids -> Row \cup {Absent}] /\ \A i \in Ids : Gated(t[i])

JobsInv(js, t) ==
  /\ js = [h \in Handlers |-> js[h]]
  /\ \A h \in Handlers : JobInv(js[h], t)
  /\ \A g, h \in Handlers : g # h => PairInv(js[g], js[h], t)

AckedInv ==
  \A i \in acked : i \in Ids /\ rows[i] # Absent /\ (repository = "file" => disk.rows[i] # Absent)

\* In the file store no write is pending: a method is one step.
FileInv == repository = "file" => \A h \in Handlers : ~Named(job[h], {"Write", "ReadSession", "WriteSession"})

IInv == Table(rows) /\ Table(disk.rows) /\ JobsInv(job, rows) /\ AckedInv /\ FileInv /\ repository \in {"file", "postgres"}

-----------------------------------------------------------------------------
\* A resource has a name, and its value is not Absent.
LEMMA RowName == ASSUME NEW r \in Row PROVE r # Absent /\ r.name \in Names
<1>1. r # Absent
  BY PlatformAssumption, Zenon
<1>2. r.name \in Names
  BY Zenon DEF Row, ModelRow, ToolRow, ConnectionRow, ViewRow, AgentRow
<1> QED BY <1>1, <1>2, Zenon

-----------------------------------------------------------------------------
(* The steps, seen from the repository: Save, write, and steps that give no *)
(* resource a value.                                                        *)

\* A step for name n after which h goes on with j.
Moves(h, n, j) ==
  /\ n \in Names /\ (Idle(h) \/ job[h].name = n) /\ (j # Absent => j.name = n)
  /\ Goto(h, j) /\ (Calm(h, n) \/ Fault(n))

\* It gives no resource a value; the file it may write has the rows in memory.
Plain(h, n, j) ==
  /\ Moves(h, n, j) /\ JobInv(j, rows) /\ ~Named(j, {"Write"}) /\ ~Named(job[h], {"Write"})
  /\ UNCHANGED <<repository, rows, acked>> /\ disk'.rows \in {disk.rows, rows}
  /\ repository = "file" => ~Named(j, {"ReadSession", "WriteSession"})

\* A step without dealings with Docker.
Rests(h, n, j) ==
  Plain(h, n, j) /\ UNCHANGED docker /\ ~Named(job[h], DockerAts) /\ ~Named(j, DockerAts)

\* What a handler does to the deployment of a resource.
Deploys(h, i, value, step) ==
  \/ Named(step, DockerAts)
  \/ Named(job[h], {"Failed"})
  \/ /\ Named(job[h], {"Serving"}) /\ job[h].id = i /\ step = Absent /\ value.kind = "model"
     /\ value.deployment = "serving" /\ value.endpoint = "http"
  \/ /\ ~Named(job[h], DockerAts)
     /\ value.kind = "model" =>
          IF rows[i] = Absent THEN value.deployment = "not_deployed"
          ELSE value.deployment = rows[i].deployment /\ value.endpoint = rows[i].endpoint

\* What it does to a view.
Views(h, i, value) ==
  value.kind = "feature_view" =>
    /\ rows[i] # Absent /\ rows[i].status = "materialized" => value.status = "materialized"
    /\ \/ value.count = IF rows[i] = Absent THEN 0 ELSE rows[i].count
       \/ value.count = Cardinality(Entities) /\ Named(job[h], {"Report"})

\* Kinds with keys.
Unique == {"model", "tool", "feature_view"}

IsView(r) == r.kind = "feature_view" /\ r.version = ""

\* What the methods give to Save.
Saved(h, n, i, value, step) ==
  /\ i \in Ids /\ value \in Row /\ Gated(value) /\ value.name = n
  /\ Idle(h) \/ job[h].name = n
  /\ ~Named(job[h], {"Write", "ReadSession"})
  /\ IF rows[i] = Absent
     THEN /\ i \in Unused
          /\ value.kind \in Unique => ~Conflicts(value) \/ (IsView(value) /\ ~\E j \in Ids : Newest(n, j))
     ELSE Same(rows[i], value)
  /\ Follows(step, i, value)
  /\ Deploys(h, i, value, step) /\ Views(h, i, value)

Saves(h, n, i, value, step) == Saved(h, n, i, value, step) /\ Save(h, n, i, value, step)

\* A handler without a job.
LEMMA NoJob == ASSUME NEW t PROVE JobInv(Absent, t) /\ \A ats : ~Named(Absent, ats)
BY Zenon DEF JobInv, Shape, Writing, Named

\* The fields of the step that follows a write.
AfterWrite(j, i, value) ==
  /\ Shape(j)
  /\ j # Absent => j.name = value.name /\ j.at \in {"Put", "Undeploy", "DeleteDeployment"}
  /\ Named(j, {"Put"}) => j.left = Entities
  /\ Named(j, DockerAts) => j.id = i /\ value.kind = "model"
  /\ Named(j, {"Undeploy"}) => Servable(value)
  /\ Named(j, {"DeleteDeployment"}) => value.deployment = "rolled_back"

\* A step of a deployment, or the one that puts the entities of a view.
LEMMA FollowsShape ==
  ASSUME NEW i \in Ids, NEW value \in Row, NEW j, Follows(j, i, value)
  PROVE  AfterWrite(j, i, value)
<1>0. value.name \in Names
  BY RowName, Zenon
<1>1. CASE j = Absent
  BY <1>1, NoJob, Zenon DEF JobInv, AfterWrite
<1>2. CASE value.kind = "feature_view" /\ j = [at |-> "Put", name |-> value.name, left |-> Entities]
  <2>1. j.at = "Put" /\ j.name = value.name /\ j.left = Entities
        /\ j = [at |-> j.at, name |-> j.name, left |-> j.left]
    BY <1>2, Zenon
  <2> QED BY <1>0, <2>1, Zenon DEF AfterWrite, Shape, Named, DockerAts, ServingAts
<1>3. ASSUME NEW at \in {"Undeploy", "DeleteDeployment"}, value.kind = "model",
             at = "Undeploy" => Servable(value), at = "DeleteDeployment" => value.deployment = "rolled_back",
             j = [at |-> at, name |-> value.name, id |-> i]
      PROVE  AfterWrite(j, i, value)
  <2>1. j.at = at /\ j.name = value.name /\ j.id = i
        /\ j = [at |-> j.at, name |-> j.name, id |-> j.id]
    BY <1>3, Zenon
  <2> QED BY <1>0, <1>3, <2>1, Zenon DEF AfterWrite, Shape, Named, DockerAts, ServingAts
<1> QED BY <1>1, <1>2, <1>3, Zenon DEF Follows, Servable

-----------------------------------------------------------------------------
(* Models *)

\* What follows a write is about the resource written, and is no write and no turn.
LEMMA FollowsWrite ==
  ASSUME NEW i \in Ids, NEW value \in Row, NEW j, Follows(j, i, value)
  PROVE  (j # Absent => j.name = value.name) /\ ~Named(j, {"Write"}) /\ ~Named(j, SessionAts)
BY FollowsShape DEF AfterWrite, Named, SessionAts

\* A resource that is there has the fields of its kind.
LEMMA RowOfKind ==
  ASSUME IInv, NEW i \in Ids, rows[i] # Absent
  PROVE  /\ rows[i] \in Row /\ Gated(rows[i])
         /\ rows[i].kind = "model" => rows[i] \in ModelRow
         /\ rows[i].kind = "connection" => rows[i] \in ConnectionRow
         /\ rows[i].kind = "feature_view" => rows[i] \in ViewRow
         /\ rows[i].kind = "agent" => rows[i] \in AgentRow
<1>1. rows[i] \in Row /\ Gated(rows[i])
  BY Zenon DEF IInv, Table
<1> QED BY <1>1, Zenon DEF Row, ModelRow, ToolRow, ConnectionRow, ViewRow, AgentRow

\* An idle handler is at no step.
LEMMA IdleHandler == ASSUME NEW h, Idle(h) PROVE \A ats : ~Named(job[h], ats)
BY Zenon DEF Idle, Named

\* A new resource.
LEMMA AddSaves ==
  ASSUME IInv, NEW h \in Handlers, NEW i \in Ids, NEW row \in Row, Gated(row), Add(h, i, row),
         row.kind \in Unique => ~Conflicts(row),
         row.kind = "model" => row.deployment = "not_deployed", row.kind # "feature_view"
  PROVE  Saves(h, row.name, i, row, Absent)
<1>1. rows[i] = Absent /\ i \in Unused /\ Idle(h)
  BY Zenon DEF Add, IsNew, Unused
<1>2. Deploys(h, i, row, Absent) /\ Views(h, i, row)
  BY <1>1, IdleHandler, Zenon DEF Deploys, Views
<1> QED BY <1>1, <1>2, IdleHandler, Zenon DEF Saves, Saved, Add, Follows

\* A change of a resource that is there, at the request of a client.
LEMMA ChangeSaves ==
  ASSUME IInv, NEW h \in Handlers, NEW i \in Ids, NEW value \in Row, Gated(value), NEW step,
         rows[i] # Absent, Same(rows[i], value), Change(h, i, value, step), value.kind # "feature_view",
         Follows(step, i, value),
         value.kind = "model" => \/ Named(step, DockerAts)
                                 \/ value.deployment = rows[i].deployment /\ value.endpoint = rows[i].endpoint
  PROVE  Saves(h, value.name, i, value, step)
<1>1. Idle(h) /\ Save(h, value.name, i, value, step)
  BY Zenon DEF Change, Same
<1>2. Deploys(h, i, value, step) /\ Views(h, i, value)
  BY <1>1, IdleHandler, Zenon DEF Deploys, Views
<1> QED BY <1>1, <1>2, IdleHandler, Zenon DEF Saves, Saved

\* RegisterModel, PromoteModel, DeployModel and RollbackModel keep to the gate.
LEMMA ModelRequestSaves ==
  ASSUME IInv, NEW h \in Handlers, ModelRequest(h)
  PROVE  \E n, i, value, step : Saves(h, n, i, value, step)
\* A rollback swaps the stages.
<1>RolledBackRow.
  ASSUME NEW r \in ModelRow, r.previous \in {"candidate", "staging", "production", "archived"}
  PROVE  /\ RolledBack(r) \in ModelRow /\ Same(r, RolledBack(r))
         /\ RolledBack(r).stage = r.previous /\ RolledBack(r).previous = r.stage
         /\ RolledBack(r).deployment = "rolled_back"
  <2> USE <1>RolledBackRow
  <2>1. RolledBack(r) \in ModelRow
    <3>1. PICK row, w : row = RolledBack(r) /\ w = 0
      BY Zenon
    <3>2. /\ r.kind = "model" /\ r.name \in Names /\ r.version \in Versions /\ r.gate \in {"passed", "failed"}
          /\ r.stage \in {"candidate", "staging", "production", "archived"} /\ r.endpoint \in {"", "path", "http"}
      BY Zenon DEF ModelRow
    <3>3. row = [kind |-> r.kind, name |-> r.name, version |-> r.version, gate |-> r.gate,
                 stage |-> r.previous, previous |-> r.stage, deployment |-> "rolled_back",
                 weight |-> w, endpoint |-> r.endpoint]
      BY <3>1, Zenon DEF ModelRow, RolledBack
    <3>4. w \in Int
      BY <3>1
    <3>5. row \in ModelRow
      BY <3>2, <3>3, <3>4, Zenon DEF ModelRow
    <3> QED BY <3>1, <3>5, Zenon
  <2>2. RolledBack(r).stage = r.previous /\ RolledBack(r).previous = r.stage
    BY Zenon DEF ModelRow, RolledBack
  <2>3. RolledBack(r).deployment = "rolled_back"
    BY Zenon DEF ModelRow, RolledBack
  <2>4. Same(r, RolledBack(r))
    BY Zenon DEF ModelRow, RolledBack, Same
  <2> QED BY <2>1, <2>2, <2>3, <2>4, Zenon
<1>1. CASE registerModel(h)
  <2>1. PICK i \in Ids, n \in Names, v \in Versions, gate \in {"passed", "failed"} : RegisterModel(h, i, n, v, gate)
    BY <1>1, Zenon DEF registerModel
  <2> DEFINE row == NewModel(n, v, gate)
  <2>2. row \in ModelRow /\ row.kind = "model" /\ row.deployment = "not_deployed"
    BY DEF NewModel, ModelRow
  <2>3. Gated(row)
    BY Zenon DEF NewModel, Gated
  <2>4. ~Conflicts(row) /\ Add(h, i, row)
    BY <2>1, Zenon DEF RegisterModel
  <2> HIDE DEF row
  <2>5. row \in Row
    BY <2>2, Zenon DEF Row
  <2>6. Saves(h, row.name, i, row, Absent)
    BY <2>2, <2>3, <2>4, <2>5, AddSaves, Zenon
  <2> QED BY <2>6, Zenon
<1>2. CASE promoteModel(h)
  <2>1. PICK i \in Ids, stage \in Stages : PromoteModel(h, i, stage)
    BY <1>2, Zenon DEF promoteModel
  <2> DEFINE r == rows[i]
             value == Promoted(r, stage)
  <2>2. r # Absent /\ r.kind = "model" /\ r \in ModelRow /\ Gated(r)
    BY <2>1, RowOfKind, Zenon DEF PromoteModel, MayPromote, HasKind
  <2>3. stage \in {"staging", "production", "archived"} /\ (stage = "production" => r.gate # "failed")
    BY <2>1, Zenon DEF PromoteModel, MayPromote
  <2>4. value \in ModelRow /\ value.kind = "model" /\ value.gate = r.gate /\ value.stage = stage
        /\ value.previous = r.stage /\ value.deployment = r.deployment /\ value.endpoint = r.endpoint
    BY <2>2, <2>3, Zenon DEF Promoted, ModelRow
  <2>40. Same(r, value)
    BY <2>2, Zenon DEF Promoted, ModelRow, Same
  <2>5. Change(h, i, value, Absent)
    BY <2>1, Zenon DEF PromoteModel
  <2> HIDE DEF value
  <2>6. Gated(value)
    BY <2>2, <2>3, <2>4, Zenon DEF Gated
  <2>7. value \in Row /\ Follows(Absent, i, value)
    BY <2>4, Zenon DEF Row, Follows
  <2>8. Saves(h, value.name, i, value, Absent)
    BY <2>2, <2>4, <2>40, <2>5, <2>6, <2>7, ChangeSaves, Zenon
  <2> QED BY <2>8, Zenon
<1>3. CASE deployModel(h)
  <2>1. PICK i \in Ids, w \in Weights : DeployModel(h, i, w)
    BY <1>3, Zenon DEF deployModel
  <2> DEFINE r == rows[i]
             value == Deploying(r, w)
             step == Step(i, "Undeploy")
  <2>2. r # Absent /\ r.kind = "model" /\ r \in ModelRow /\ r.gate = "passed"
    BY <2>1, RowOfKind, Zenon DEF DeployModel, MayDeploy, HasKind
  <2>3. value \in ModelRow /\ value.kind = "model" /\ value.gate = "passed"
    BY <2>2, PlatformAssumption, Zenon DEF Deploying, ModelRow
  <2>30. Same(r, value)
    BY <2>2, Zenon DEF Deploying, ModelRow, Same
  <2>4. Change(h, i, value, step)
    BY <2>1, Zenon DEF DeployModel
  <2>5. step = [at |-> "Undeploy", name |-> value.name, id |-> i]
    BY <2>30, Zenon DEF Step, Same
  <2>50. step \in DockerStep /\ step.at = "Undeploy"
    <3>1. r.name \in Names
      BY <2>2, Zenon DEF ModelRow
    <3> QED BY <3>1, Zenon DEF Step, DockerStep
  <2> HIDE DEF value, step
  <2>6. value \in Row /\ Gated(value) /\ Servable(value)
    BY <2>3, RowName, Zenon DEF Gated, Servable, Row
  <2>7. Follows(step, i, value)
    BY <2>5, <2>6, Zenon DEF Follows
  <2>70. Named(step, DockerAts)
    BY <2>50, PlatformAssumption, Zenon DEF Named, DockerAts, ServingAts
  <2>8. Saves(h, value.name, i, value, step)
    BY <2>2, <2>3, <2>30, <2>4, <2>6, <2>7, <2>70, ChangeSaves, Zenon
  <2> QED BY <2>8, Zenon
<1>4. CASE rollbackModel(h)
  <2>1. PICK i \in Ids : RollbackModel(h, i)
    BY <1>4, Zenon DEF rollbackModel
  <2> DEFINE r == rows[i]
             value == RolledBack(r)
             step == Step(i, "DeleteDeployment")
  <2>2. r # Absent /\ r.kind = "model" /\ r \in ModelRow /\ Gated(r) /\ r.previous # ""
    BY <2>1, RowOfKind, Zenon DEF RollbackModel, MayRollBack, HasKind
  <2>3. value \in ModelRow /\ Same(r, value) /\ value.stage = r.previous
        /\ value.previous = r.stage /\ value.deployment = "rolled_back"
    <3>1. r.previous \in {"candidate", "staging", "production", "archived"}
      BY <2>2, Zenon DEF ModelRow
    <3> QED BY <2>2, <3>1, <1>RolledBackRow, Zenon
  <2>4. Change(h, i, value, step)
    BY <2>1, Zenon DEF RollbackModel
  <2>5. step = [at |-> "DeleteDeployment", name |-> value.name, id |-> i]
    BY <2>3, Zenon DEF Step, Same
  <2>50. step \in DockerStep /\ step.at = "DeleteDeployment"
    <3>1. r.name \in Names
      BY <2>2, Zenon DEF ModelRow
    <3> QED BY <3>1, Zenon DEF Step, DockerStep
  <2> HIDE DEF value, step
  <2>6. value \in Row /\ Gated(value) /\ value.kind = "model"
    BY <2>2, <2>3, Zenon DEF Gated, Row, Same
  <2>7. Follows(step, i, value)
    BY <2>3, <2>5, <2>6, Zenon DEF Follows
  <2>70. Named(step, DockerAts)
    BY <2>50, PlatformAssumption, Zenon DEF Named, DockerAts, ServingAts
  <2>8. Saves(h, value.name, i, value, step)
    BY <2>2, <2>3, <2>4, <2>6, <2>7, <2>70, ChangeSaves, Zenon
  <2> QED BY <2>8, Zenon
<1> QED BY <1>1, <1>2, <1>3, <1>4, Zenon DEF ModelRequest

\* A step of a deployment hands the job on, to one of the same model.
LEMMA ServedOn ==
  ASSUME IInv, NEW h \in Handlers, Named(job[h], ServingAts), NEW at \in ServingAts
  PROVE  /\ JobInv(Then(h, at), rows) /\ ~Named(Then(h, at), {"Write", "ReadSession", "WriteSession"})
         /\ Then(h, at) # Absent /\ Then(h, at).at = at /\ Then(h, at).name = job[h].name
         /\ Then(h, at).id = job[h].id
<1> DEFINE j == [at |-> at, name |-> job[h].name, id |-> job[h].id]
<1>0. Named(job[h], DockerAts)
  BY Zenon DEF Named, DockerAts
<1>1. Then(h, at) = j
  <2>1. job[h] = [at |-> job[h].at, name |-> job[h].name, id |-> job[h].id]
    BY <1>0, Zenon DEF IInv, JobsInv, JobInv, Shape
  <2> QED BY <2>1 DEF Then
<1>2. j.at = at /\ j.name = job[h].name /\ j.id = job[h].id
  BY Zenon
<1>3. IsModel(rows, job[h].name, job[h].id) /\ Servable(rows[job[h].id]) /\ job[h].name \in Names
  BY <1>0, Zenon DEF IInv, JobsInv, JobInv, Shape, Named
<1>4. j # Absent
  <2>1. j \in DockerStep
    BY <1>3, Zenon DEF DockerStep, IsModel, ServingAts
  <2> QED BY <2>1, PlatformAssumption, Zenon
<1>5. Shape(j)
  BY <1>2, <1>3, Zenon DEF Shape, Named, ServingAts, DockerAts
<1> HIDE DEF j
<1>6. JobInv(j, rows) /\ ~Named(j, {"Write", "ReadSession", "WriteSession"})
  BY <1>2, <1>3, <1>5, Zenon DEF JobInv, Writing, Named, ServingAts
<1> QED BY <1>1, <1>2, <1>4, <1>6, Zenon

\* A call that leaves the repository alone.
LEMMA CallPlain ==
  ASSUME IInv, NEW h \in Handlers, Call(h), NEW n \in Names, Idle(h) \/ job[h].name = n, NEW j, Goto(h, j),
         j # Absent => j.name = n, Calm(h, n) \/ Fault(n), ~Named(job[h], {"Write"}),
         JobInv(j, rows), ~Named(j, {"Write", "ReadSession", "WriteSession"})
  PROVE  Plain(h, n, j)
<1>1. Moves(h, n, j)
  BY Zenon DEF Moves
<1>2. ~Named(j, {"Write"}) /\ ~Named(j, {"ReadSession", "WriteSession"})
  BY Zenon DEF Named
<1> QED BY <1>1, <1>2, Zenon DEF Plain, Call

\* The name of a job is a name.
LEMMA JobName == ASSUME IInv, NEW h \in Handlers, ~Idle(h) PROVE job[h].name \in Names
BY Zenon DEF IInv, JobsInv, JobInv, Shape, Idle

\* Undeploy, Create and Start leave the registry alone.
LEMMA RequestServingPlain ==
  ASSUME IInv, NEW h \in Handlers, requestServing(h)
  PROVE  \E n, j : Plain(h, n, j) /\ ~Named(j, FeatureAts) /\ ~Named(j, SessionAts)
<1>1. Named(job[h], ServingAts) /\ ~Named(job[h], {"Write"}) /\ Call(h) /\ ~Idle(h)
  BY Zenon DEF requestServing, Deploy, Undeploy, Create, Start, do, At, Idle, Named, ServingAts
<1>2. PICK at \in ServingAts : Goto(h, Then(h, at))
  BY Zenon DEF requestServing, Deploy, Undeploy, Create, Start, do, ServingAts
<1>3. Calm(h, job[h].name) \/ Fault(job[h].name)
  BY Zenon DEF requestServing, Deploy, Undeploy, Create, Start, do
<1>4. PICK n, j : n = job[h].name /\ j = Then(h, at)
  BY Zenon
<1>5. Plain(h, n, j)
  BY <1>1, <1>2, <1>3, <1>4, ServedOn, JobName, CallPlain, Zenon
<1>6. ~Named(j, FeatureAts) /\ ~Named(j, SessionAts)
  BY <1>1, <1>4, ServedOn DEF Named, FeatureAts, SessionAts, ServingAts
<1> QED BY <1>5, <1>6, Zenon

\* So does the removal of a container.
LEMMA DeletePlain ==
  ASSUME IInv, NEW h \in Handlers, DeleteDeployment(h)
  PROVE  \E n : Plain(h, n, Absent)
<1>1. ~Named(job[h], {"Write"}) /\ Call(h) /\ ~Idle(h) /\ Goto(h, Absent)
      /\ (Calm(h, job[h].name) \/ Fault(job[h].name))
  BY Zenon DEF DeleteDeployment, do, At, Idle, Named
<1>2. PICK n : n = job[h].name
  BY Zenon
<1>3. Plain(h, n, Absent)
  BY <1>1, <1>2, NoJob, JobName, CallPlain, Zenon
<1> QED BY <1>3, Zenon

\* SetModelEndpoint works on a model that passed its gate.
LEMMA DeployedSaves ==
  ASSUME IInv, NEW h \in Handlers, Deployed(h)
  PROVE  \E n, i, value, step : Saves(h, n, i, value, step)
<1> DEFINE r == rows[job[h].id]
<1>1. Named(job[h], ServingAts) /\ Named(job[h], DockerAts) /\ ~Named(job[h], {"Write", "ReadSession"})
  BY Zenon DEF Deployed, At, Idle, Named, ServingAts, DockerAts
<1>2. Servable(r) /\ IsModel(rows, job[h].name, job[h].id)
  BY <1>1, Zenon DEF IInv, JobsInv, JobInv
<1>3. r \in ModelRow
  BY <1>2, RowOfKind, Zenon DEF Servable, IsModel
<1>4. PICK e \in {"http", ""}, st \in {"serving", "failed"} :
        /\ SetModelEndpoint(h, e, st)
        /\ Named(job[h], {"Failed"}) \/ (Named(job[h], {"Serving"}) /\ e = "http" /\ st = "serving")
  BY Zenon DEF Deployed, At, Idle, Named
<1> DEFINE value == Recorded(r, e, st)
<1>5. value \in ModelRow /\ value.kind = "model" /\ value.gate = r.gate /\ value.endpoint = e /\ value.deployment = st
  BY <1>3, ZenonT(30) DEF Recorded, ModelRow
<1>50. Same(r, value)
  BY <1>3, Zenon DEF Recorded, ModelRow, Same
<1>6. Save(h, job[h].name, job[h].id, value, Absent)
  BY <1>4, Zenon DEF SetModelEndpoint
<1> HIDE DEF value
<1>7. value \in Row /\ Gated(value) /\ value.name = job[h].name
  BY <1>2, <1>5, <1>50, Zenon DEF Row, Gated, Servable, IsModel, Same
<1>8. Deploys(h, job[h].id, value, Absent) /\ Views(h, job[h].id, value)
  BY <1>4, <1>5, Zenon DEF Deploys, Views
<1>9. Saved(h, job[h].name, job[h].id, value, Absent)
  BY <1>1, <1>2, <1>50, <1>7, <1>8, Zenon DEF Saved, Follows, IsModel
<1> QED BY <1>6, <1>9, Zenon DEF Saves

-----------------------------------------------------------------------------
(* Tools, connections and feature views *)

\* Other kinds have no gate.
LEMMA Ungated ==
  ASSUME NEW r, r \in ToolRow \cup ConnectionRow \cup ViewRow \cup AgentRow
  PROVE  r \in Row /\ Gated(r)
<1>1. r.kind # "model"
  BY Zenon DEF ToolRow, ConnectionRow, ViewRow, AgentRow
<1> QED BY <1>1, Zenon DEF Row, Gated

\* A new value of a view, or a new view, by a request or the job.
LEMMA ViewSaves ==
  ASSUME IInv, NEW h \in Handlers, NEW n, NEW i \in Ids, NEW value \in ViewRow, value.name = n, NEW step,
         Save(h, n, i, value, step), Follows(step, i, value), Views(h, i, value),
         Idle(h) \/ (job[h].name = n /\ Named(job[h], {"Report"})),
         \/ rows[i] # Absent /\ Same(rows[i], value)
         \/ i \in Unused /\ ~\E j \in Ids : Newest(n, j)
  PROVE  Saves(h, n, i, value, step)
<1>1. value \in Row /\ Gated(value)
  BY Ungated, Zenon
<1>2. ~Named(job[h], {"Write", "ReadSession"}) /\ ~Named(job[h], DockerAts)
  BY Zenon DEF Idle, Named, DockerAts, ServingAts
<1>3. value.kind = "feature_view" /\ IsView(value)
  BY Zenon DEF ViewRow, IsView
<1>4. Deploys(h, i, value, step)
  BY <1>2, <1>3, Zenon DEF Deploys
<1>5. i \in Unused => rows[i] = Absent
  BY Zenon DEF Unused
<1> QED BY <1>1, <1>2, <1>3, <1>4, <1>5, Zenon DEF Saves, Saved

\* ApplyFeatureView, with the step that the caller goes on with.
LEMMA ApplySaves ==
  ASSUME IInv, NEW h \in Handlers, Idle(h), NEW n \in Names, NEW fields \in Fields, NEW step,
         step = Absent \/ step = [at |-> "Put", name |-> n, left |-> Entities],
         ApplyFeatureView(h, n, fields, step)
  PROVE  \E i, value : Saves(h, n, i, value, step)
<1>1. PICK i \in Ids :
        \/ Newest(n, i) /\ Save(h, n, i, Reapplied(rows[i], fields), step)
        \/ IsNew(i) /\ (~\E j \in Ids : Newest(n, j)) /\ Save(h, n, i, NewView(n, fields), step)
  BY Zenon DEF ApplyFeatureView
<1>2. CASE Newest(n, i) /\ Save(h, n, i, Reapplied(rows[i], fields), step)
  <2> DEFINE value == Reapplied(rows[i], fields)
  <2>1. rows[i] # Absent /\ rows[i].kind = "feature_view" /\ rows[i] \in ViewRow /\ rows[i].name = n
    BY <1>2, RowOfKind, Zenon DEF Newest, HasKind
  <2>2. value \in ViewRow /\ value.kind = "feature_view" /\ value.name = n
        /\ value.count = rows[i].count /\ value.status = rows[i].status
    BY <2>1, Zenon DEF Reapplied, ViewRow
  <2>3. Same(rows[i], value)
    BY <2>1, Zenon DEF Reapplied, ViewRow, Same
  <2>4. Save(h, n, i, value, step)
    BY <1>2, Zenon
  <2> HIDE DEF value
  <2>5. Views(h, i, value) /\ Follows(step, i, value)
    BY <2>1, <2>2, Zenon DEF Views, Follows
  <2>6. Saves(h, n, i, value, step)
    BY <2>1, <2>2, <2>3, <2>4, <2>5, ViewSaves, Zenon
  <2> QED BY <2>6, Zenon
<1>3. CASE IsNew(i) /\ (~\E j \in Ids : Newest(n, j)) /\ Save(h, n, i, NewView(n, fields), step)
  <2> DEFINE value == NewView(n, fields)
  <2>1. value \in ViewRow /\ value.kind = "feature_view" /\ value.name = n /\ value.count = 0
    BY Zenon DEF NewView, ViewRow
  <2>2. i \in Unused /\ rows[i] = Absent
    BY <1>3, Zenon DEF IsNew, Unused
  <2>3. Save(h, n, i, value, step)
    BY <1>3, Zenon
  <2> HIDE DEF value
  <2>4. Views(h, i, value) /\ Follows(step, i, value)
    BY <2>1, <2>2, Zenon DEF Views, Follows
  <2>5. Saves(h, n, i, value, step)
    BY <1>3, <2>1, <2>2, <2>3, <2>4, ViewSaves, Zenon
  <2> QED BY <2>5, Zenon
<1> QED BY <1>1, <1>2, <1>3, Zenon

\* The requests for tools, connections and views that store something.
LEMMA CatalogRequestSaves ==
  ASSUME IInv, NEW h \in Handlers, CatalogRequest(h), ~testConnection(h)
  PROVE  \E n, i, value, step : Saves(h, n, i, value, step)
<1>1. CASE registerTool(h)
  <2>1. PICK i \in Ids, n \in Names, v \in Versions : ~Conflicts(NewTool(n, v)) /\ Add(h, i, NewTool(n, v))
    BY <1>1, Zenon DEF registerTool, RegisterTool
  <2> DEFINE row == NewTool(n, v)
  <2>2. row \in ToolRow /\ row.kind = "tool"
    BY Zenon DEF NewTool, ToolRow
  <2>3. Saves(h, row.name, i, row, Absent)
    <3> HIDE DEF row
    <3> QED BY <2>1, <2>2, Ungated, AddSaves, Zenon DEF row
  <2> QED BY <2>3, Zenon
<1>2. CASE createConnection(h)
  <2>1. PICK i \in Ids, n \in Names : Add(h, i, NewConnection(n))
    BY <1>2, Zenon DEF createConnection, CreateConnection
  <2> DEFINE row == NewConnection(n)
  <2>2. row \in ConnectionRow /\ row.kind = "connection"
    BY Zenon DEF NewConnection, ConnectionRow
  <2>3. Saves(h, row.name, i, row, Absent)
    <3> HIDE DEF row
    <3> QED BY <2>1, <2>2, Ungated, AddSaves, Zenon DEF row, Unique
  <2> QED BY <2>3, Zenon
<1>3. CASE applyFeatureView(h)
  <2>1. PICK n \in Names, fields \in Fields : Idle(h) /\ ApplyFeatureView(h, n, fields, Absent)
    BY <1>3, Zenon DEF applyFeatureView
  <2>2. PICK i, value : Saves(h, n, i, value, Absent)
    BY <2>1, ApplySaves, Zenon
  <2> QED BY <2>2, Zenon
<1>4. CASE materialize(h)
  <2>1. PICK n \in Names, fields \in Fields :
          Idle(h) /\ ApplyFeatureView(h, n, fields, [at |-> "Put", name |-> n, left |-> Entities])
    BY <1>4, Zenon DEF materialize
  <2>2. PICK step : step = [at |-> "Put", name |-> n, left |-> Entities]
    BY Zenon
  <2>3. PICK i, value : Saves(h, n, i, value, step)
    BY <2>1, <2>2, ApplySaves, Zenon
  <2> QED BY <2>3, Zenon
<1> QED BY <1>1, <1>2, <1>3, <1>4, Zenon DEF CatalogRequest

\* A step that carries nothing the invariant speaks of.
LEMMA OtherStep ==
  ASSUME NEW j, NEW t, Shape(j), ~Named(j, DockerAts), ~Named(j, {"Write", "UpdateConnectionStatus"})
  PROVE  JobInv(j, t)
BY Zenon DEF JobInv, Writing, Named, DockerAts

\* A call before or after which no container is at stake.
LEMMA CallRests ==
  ASSUME IInv, NEW h \in Handlers, Call(h), NEW n \in Names, Idle(h) \/ job[h].name = n, NEW j, Goto(h, j),
         j # Absent => j.name = n, Calm(h, n) \/ Fault(n), ~Named(job[h], {"Write"}), ~Named(job[h], DockerAts),
         JobInv(j, rows), ~Named(j, DockerAts), ~Named(j, {"Write", "ReadSession", "WriteSession"}),
         UNCHANGED docker
  PROVE  Rests(h, n, j)
BY CallPlain, Zenon DEF Rests

\* The test of a connection begins.
LEMMA TestRests ==
  ASSUME IInv, NEW h \in Handlers, testConnection(h)
  PROVE  \E n, j : Rests(h, n, j) /\ ~Named(j, FeatureAts) /\ ~Named(j, SessionAts)
<1>1. PICK i \in Ids, status \in {"healthy", "unhealthy"} :
        /\ Idle(h) /\ HasKind(i, "connection") /\ Call(h) /\ Calm(h, rows[i].name) /\ UNCHANGED docker
        /\ Goto(h, [at |-> "UpdateConnectionStatus", name |-> rows[i].name, id |-> i, status |-> status])
  BY Zenon DEF testConnection, NoFeature
<1>2. PICK n, j : /\ n = rows[i].name
                  /\ j = [at |-> "UpdateConnectionStatus", name |-> rows[i].name, id |-> i, status |-> status]
  BY Zenon
<1>3. j.at = "UpdateConnectionStatus" /\ j.name = n /\ j.id = i /\ j.status = status
  BY <1>2, Zenon
<1>4. n \in Names
  BY <1>1, <1>2, RowOfKind, RowName, Zenon DEF HasKind
<1>5. JobInv(j, rows)
  BY <1>1, <1>2, <1>3, <1>4, Zenon DEF JobInv, Shape, Writing, Named, ServingAts, DockerAts, HasKind
<1>6. /\ ~Named(j, DockerAts) /\ ~Named(j, {"Write", "ReadSession", "WriteSession"})
      /\ ~Named(j, FeatureAts) /\ ~Named(j, SessionAts)
  BY <1>3, Zenon DEF Named, ServingAts, DockerAts, FeatureAts, SessionAts
<1>7. Goto(h, j) /\ Calm(h, n)
  BY <1>1, <1>2, Zenon
<1>8. Rests(h, n, j)
  BY <1>1, <1>3, <1>4, <1>5, <1>6, <1>7, IdleHandler, CallRests, Zenon
<1> QED BY <1>6, <1>8, Zenon

\* And ends with the status of the connection.
LEMMA StatusSaves ==
  ASSUME IInv, NEW h \in Handlers, UpdateConnectionStatus(h)
  PROVE  \E n, i, value, step : Saves(h, n, i, value, step)
<1> DEFINE r == rows[job[h].id]
           value == Checked(r, job[h].status)
<1>1. /\ job[h].id \in Ids /\ r # Absent /\ r.kind = "connection" /\ r.name = job[h].name
      /\ job[h].status \in {"healthy", "unhealthy"}
  BY Zenon DEF UpdateConnectionStatus, At, Idle, Named, IInv, JobsInv, JobInv
<1>2. r \in ConnectionRow
  BY <1>1, RowOfKind, Zenon
<1>3. value \in ConnectionRow /\ value.kind = "connection" /\ value.name = job[h].name
  BY <1>1, <1>2, Zenon DEF Checked, ConnectionRow
<1>4. Same(r, value)
  BY <1>2, Zenon DEF Checked, ConnectionRow, Same
<1>5. Save(h, job[h].name, job[h].id, value, Absent)
  BY Zenon DEF UpdateConnectionStatus
<1> HIDE DEF value
<1>6. ~Named(job[h], {"Write", "ReadSession"}) /\ ~Named(job[h], DockerAts)
  BY Zenon DEF UpdateConnectionStatus, At, Named, DockerAts, ServingAts
<1>7. Deploys(h, job[h].id, value, Absent) /\ Views(h, job[h].id, value)
  BY <1>3, <1>6, Zenon DEF Deploys, Views
<1>8. Saved(h, job[h].name, job[h].id, value, Absent)
  BY <1>1, <1>3, <1>4, <1>6, <1>7, Ungated, Zenon DEF Saved, Follows
<1> QED BY <1>5, <1>8, Zenon DEF Saves

\* The job puts an entity, or stops.
LEMMA PutRests ==
  ASSUME IInv, NEW h \in Handlers, Put(h)
  PROVE  \E n, j : Rests(h, n, j) /\ ~Named(j, SessionAts)
<1>1. PICK e \in Entities :
        /\ At(h, "Put") /\ Call(h) /\ UNCHANGED docker
        /\ \/ Goto(h, [at |-> "Snapshot", name |-> job[h].name])
           \/ Goto(h, [job[h] EXCEPT !.left = @ \ {e}])
           \/ Goto(h, Absent)
        /\ Calm(h, job[h].name) \/ Fault(job[h].name)
  BY Zenon DEF Put
<1>2. PICK n, done, more :
        n = job[h].name /\ done = [at |-> "Snapshot", name |-> n] /\ more = [job[h] EXCEPT !.left = @ \ {e}]
  BY Zenon
<1>3. done.at = "Snapshot" /\ done.name = n /\ done = [at |-> done.at, name |-> done.name]
  BY <1>2, Zenon
<1>4. more.at = "Put" /\ more.name = n /\ more = [at |-> more.at, name |-> more.name, left |-> more.left]
  <2>1. job[h].at = "Put" /\ job[h] = [at |-> job[h].at, name |-> job[h].name, left |-> job[h].left]
    BY <1>1, Zenon DEF At, Idle, Named, IInv, JobsInv, JobInv, Shape
  <2> QED BY <1>2, <2>1, Zenon
<1>5. n \in Names /\ job[h].name = n /\ ~Named(job[h], {"Write"}) /\ ~Named(job[h], DockerAts)
  BY <1>1, <1>2, JobName, Zenon DEF At, Named, DockerAts, ServingAts
<1>6. /\ Shape(done) /\ ~Named(done, DockerAts)
      /\ ~Named(done, {"Write", "ReadSession", "WriteSession"}) /\ ~Named(done, {"Write", "UpdateConnectionStatus"})
  BY <1>3, <1>5, Zenon DEF Shape, Named, ServingAts, DockerAts
<1>7. /\ Shape(more) /\ ~Named(more, DockerAts)
      /\ ~Named(more, {"Write", "ReadSession", "WriteSession"}) /\ ~Named(more, {"Write", "UpdateConnectionStatus"})
  BY <1>4, <1>5, Zenon DEF Shape, Named, ServingAts, DockerAts
<1>8. JobInv(done, rows) /\ JobInv(more, rows)
  BY <1>6, <1>7, OtherStep, Zenon
<1>9. Goto(h, done) \/ Goto(h, more) \/ Goto(h, Absent)
  BY <1>1, <1>2, Zenon
<1>10. Calm(h, n) \/ Fault(n)
  BY <1>1, <1>2, Zenon
<1>11. Rests(h, n, done) \/ Rests(h, n, more) \/ Rests(h, n, Absent)
  BY <1>1, <1>3, <1>4, <1>5, <1>6, <1>7, <1>8, <1>9, <1>10, NoJob, CallRests, Zenon
<1>12. ~Named(done, SessionAts) /\ ~Named(more, SessionAts) /\ ~Named(Absent, SessionAts)
  BY <1>3, <1>4, Zenon DEF Named, SessionAts
<1> QED BY <1>11, <1>12, Zenon

\* It writes the snapshot, or stops.
LEMMA SnapshotRests ==
  ASSUME IInv, NEW h \in Handlers, write_offline_snapshot(h)
  PROVE  \E n, j : Rests(h, n, j) /\ ~Named(j, SessionAts)
<1>1. /\ At(h, "Snapshot") /\ Call(h) /\ UNCHANGED docker
      /\ Calm(h, job[h].name) \/ Fault(job[h].name)
      /\ Goto(h, [job[h] EXCEPT !.at = "Report"]) \/ Goto(h, Absent)
  BY Zenon DEF write_offline_snapshot, NoFeature
<1>2. PICK n, j : n = job[h].name /\ j = [job[h] EXCEPT !.at = "Report"]
  BY Zenon
<1>3. j.at = "Report" /\ j.name = n
  <2>1. job[h] = [at |-> job[h].at, name |-> job[h].name]
    BY <1>1, Zenon DEF At, Idle, Named, IInv, JobsInv, JobInv, Shape
  <2> QED BY <1>2, <2>1, Zenon
<1>4. n \in Names /\ job[h].name = n /\ ~Named(job[h], {"Write"}) /\ ~Named(job[h], DockerAts)
  BY <1>1, <1>2, JobName, Zenon DEF At, Named, DockerAts, ServingAts
<1>5. /\ Shape(j) /\ ~Named(j, DockerAts)
      /\ ~Named(j, {"Write", "ReadSession", "WriteSession"}) /\ ~Named(j, {"Write", "UpdateConnectionStatus"})
  BY <1>3, <1>4, Zenon DEF Shape, Named, ServingAts, DockerAts
<1>6. JobInv(j, rows)
  BY <1>5, OtherStep, Zenon
<1>7. (Goto(h, j) \/ Goto(h, Absent)) /\ (Calm(h, n) \/ Fault(n))
  BY <1>1, <1>2, Zenon
<1>8. Rests(h, n, j) \/ Rests(h, n, Absent)
  BY <1>1, <1>3, <1>4, <1>5, <1>6, <1>7, NoJob, CallRests, Zenon
<1>9. ~Named(j, SessionAts) /\ ~Named(Absent, SessionAts)
  BY <1>3, Zenon DEF Named, SessionAts
<1> QED BY <1>8, <1>9, Zenon

\* It reports to the newest view of the name, if there is one.
LEMMA ReportSaves ==
  ASSUME IInv, NEW h \in Handlers, reportMaterialization(h)
  PROVE  (\E n, i, value, step : Saves(h, n, i, value, step)) \/ (Call(h) /\ \E n : Rests(h, n, Absent))
<1>1. PICK n, count : n = job[h].name /\ count = Cardinality(Entities)
  BY Zenon
<1>2. At(h, "Report") /\ UNCHANGED docker
  BY Zenon DEF reportMaterialization, NoFeature
<1>3. \/ \E i \in Ids : Newest(n, i) /\ Save(h, n, i, Materialized(rows[i], count), Absent)
      \/ Call(h) /\ Goto(h, Absent) /\ Calm(h, n)
  BY <1>1, Zenon DEF reportMaterialization, ReportMaterialization
<1>4. /\ n \in Names /\ job[h].name = n /\ ~Named(job[h], {"Write"}) /\ ~Named(job[h], DockerAts)
      /\ Named(job[h], {"Report"})
  BY <1>1, <1>2, JobName, Zenon DEF At, Idle, Named, DockerAts, ServingAts
<1>5. CASE Call(h) /\ Goto(h, Absent) /\ Calm(h, n)
  <2>1. Rests(h, n, Absent)
    BY <1>2, <1>4, <1>5, NoJob, CallRests, Zenon
  <2> QED BY <1>5, <2>1, Zenon
<1>6. ASSUME NEW i \in Ids, Newest(n, i), Save(h, n, i, Materialized(rows[i], count), Absent)
      PROVE  \E value : Saves(h, n, i, value, Absent)
  <2> DEFINE value == Materialized(rows[i], count)
  <2>1. rows[i] # Absent /\ rows[i].kind = "feature_view" /\ rows[i] \in ViewRow /\ rows[i].name = n
    BY <1>6, RowOfKind, Zenon DEF Newest, HasKind
  <2>2. count \in Nat
    BY <1>1, PlatformAssumption, Zenon
  <2>3. value \in ViewRow /\ value.kind = "feature_view" /\ value.name = n /\ value.status = "materialized"
        /\ value.count = count
    BY <2>1, <2>2, Zenon DEF Materialized, ViewRow
  <2>4. Same(rows[i], value)
    BY <2>1, Zenon DEF Materialized, ViewRow, Same
  <2>5. Save(h, n, i, value, Absent)
    BY <1>6, Zenon
  <2> HIDE DEF value
  <2>6. Views(h, i, value) /\ Follows(Absent, i, value)
    BY <1>1, <1>4, <2>3, Zenon DEF Views, Follows
  <2>7. Saves(h, n, i, value, Absent)
    BY <1>4, <2>1, <2>3, <2>4, <2>5, <2>6, ViewSaves, Zenon
  <2> QED BY <2>7, Zenon
<1> QED BY <1>3, <1>5, <1>6, Zenon

-----------------------------------------------------------------------------
(* Agents *)

\* The requests for agents that store something.
LEMMA AgentRequestSaves ==
  ASSUME IInv, NEW h \in Handlers, deployAgent(h) \/ agentTraffic(h)
  PROVE  \E n, i, value, step : Saves(h, n, i, value, step)
<1>1. CASE deployAgent(h)
  <2>1. PICK i \in Ids, n \in Names : Add(h, i, NewAgent(n))
    BY <1>1, Zenon DEF deployAgent, DeployAgent
  <2> DEFINE row == NewAgent(n)
  <2>2. row \in AgentRow /\ row.kind = "agent"
    BY DEF NewAgent, AgentRow
  <2>3. Saves(h, row.name, i, row, Absent)
    <3> HIDE DEF row
    <3> QED BY <2>1, <2>2, Ungated, AddSaves, Zenon DEF row, Unique
  <2> QED BY <2>3, Zenon
<1>2. CASE agentTraffic(h)
  <2>1. PICK i \in Ids, w \in Weights : SetAgentTraffic(h, i, w)
    BY <1>2, Zenon DEF agentTraffic
  <2> DEFINE value == Weighted(rows[i], w)
  <2>2. rows[i] # Absent /\ rows[i].kind = "agent" /\ rows[i] \in AgentRow
    BY <2>1, RowOfKind, Zenon DEF SetAgentTraffic, HasKind
  <2>3. value \in AgentRow /\ value.kind = "agent"
    BY <2>2, PlatformAssumption, Zenon DEF Weighted, AgentRow
  <2>4. Same(rows[i], value)
    BY <2>2, Zenon DEF Weighted, AgentRow, Same
  <2>5. Change(h, i, value, Absent)
    BY <2>1, Zenon DEF SetAgentTraffic
  <2> HIDE DEF value
  <2>6. Saves(h, value.name, i, value, Absent)
    BY <2>2, <2>3, <2>4, <2>5, Ungated, ChangeSaves, Zenon DEF Follows
  <2> QED BY <2>6, Zenon
<1> QED BY <1>1, <1>2, Zenon

\* A turn begins.
LEMMA InvokeRests ==
  ASSUME IInv, NEW h \in Handlers, invokeAgent(h)
  PROVE  \E n, j : Rests(h, n, j) /\ ~Named(j, FeatureAts) /\ ~Named(j, SessionAts)
<1>1. PICK a \in Ids, s \in Sessions, api \in {"invoke", "stream"} :
        /\ Idle(h) /\ HasKind(a, "agent") /\ Call(h) /\ Calm(h, rows[a].name) /\ UNCHANGED docker
        /\ Goto(h, [at |-> "Turn", name |-> rows[a].name, agent |-> a, session |-> s, api |-> api])
  BY Zenon DEF invokeAgent, NoTurn
<1>2. PICK n, j : /\ n = rows[a].name
                  /\ j = [at |-> "Turn", name |-> rows[a].name, agent |-> a, session |-> s, api |-> api]
  BY Zenon
<1>3. j.at = "Turn" /\ j.name = n /\ j.agent = a /\ j.session = s
  BY <1>2, Zenon
<1>4. n \in Names
  BY <1>1, <1>2, RowOfKind, RowName, Zenon DEF HasKind
<1>5. /\ Shape(j) /\ ~Named(j, DockerAts)
      /\ ~Named(j, {"Write", "ReadSession", "WriteSession"}) /\ ~Named(j, {"Write", "UpdateConnectionStatus"})
  BY <1>3, <1>4, Zenon DEF Shape, Named, ServingAts, DockerAts
<1>6. JobInv(j, rows)
  BY <1>5, OtherStep, Zenon
<1>7. Goto(h, j) /\ Calm(h, n)
  BY <1>1, <1>2, Zenon
<1>8. Rests(h, n, j)
  BY <1>1, <1>3, <1>4, <1>5, <1>6, <1>7, IdleHandler, CallRests, Zenon
<1>9. ~Named(j, FeatureAts) /\ ~Named(j, SessionAts)
  BY <1>3, Zenon DEF Named, FeatureAts, SessionAts
<1> QED BY <1>8, <1>9, Zenon

\* The job of a turn, of its report, or of the session to be read.
LEMMA TurnJob ==
  ASSUME IInv, NEW h \in Handlers, NEW at \in {"Turn", "RecordTrace", "ReadSession", "WriteSession"}, At(h, at)
  PROVE  /\ job[h].name \in Names /\ ~Idle(h) /\ ~Named(job[h], {"Write"}) /\ ~Named(job[h], DockerAts)
         /\ at # "WriteSession" => Key(h) \in SessionKeys /\ job[h].agent \in Ids /\ job[h].session \in Sessions
<1>1. ~Idle(h) /\ job[h].at = at /\ job[h] # Absent
  BY Zenon DEF At, Idle
<1>2. job[h].name \in Names /\ ~Named(job[h], {"Write"}) /\ ~Named(job[h], DockerAts)
  BY <1>1, JobName, Zenon DEF Named, DockerAts, ServingAts
<1>3. at # "WriteSession" => job[h].agent \in Ids /\ job[h].session \in Sessions
  BY <1>1, Zenon DEF IInv, JobsInv, JobInv, Shape, Named
<1> QED BY <1>1, <1>2, <1>3, Zenon DEF Key, SessionKeys

\* A turn ends, and is reported or not.
LEMMA TurnRests ==
  ASSUME IInv, NEW h \in Handlers, turn(h)
  PROVE  \E n, j : Rests(h, n, j) /\ ~Named(j, FeatureAts)
<1>1. At(h, "Turn") /\ Call(h) /\ UNCHANGED docker /\ (Calm(h, job[h].name) \/ Fault(job[h].name))
  BY Zenon DEF turn, invoke, stream, reply, fails
<1>2. Goto(h, Absent) \/ \E usage : Goto(h, Report(h, usage))
  BY Zenon DEF turn, invoke, stream
<1>3. PICK n : n = job[h].name
  BY Zenon
<1>4. /\ job[h].agent \in Ids /\ job[h].session \in Sessions
      /\ n \in Names /\ ~Named(job[h], {"Write"}) /\ ~Named(job[h], DockerAts) /\ (Calm(h, n) \/ Fault(n))
  BY <1>1, <1>3, TurnJob, Zenon
<1>5. CASE Goto(h, Absent)
  <2>1. Rests(h, n, Absent)
    BY <1>1, <1>3, <1>4, <1>5, NoJob, CallRests, Zenon
  <2> QED BY <2>1, NoJob, Zenon
<1>6. ASSUME NEW usage, Goto(h, Report(h, usage)) PROVE \E j : Rests(h, n, j) /\ ~Named(j, FeatureAts)
  <2>1. PICK j : j = Report(h, usage)
    BY Zenon
  <2>2. /\ j.at = "RecordTrace" /\ j.name = n /\ j.agent = job[h].agent /\ j.session = job[h].session
        /\ j = [at |-> j.at, name |-> j.name, agent |-> j.agent, session |-> j.session, usage |-> j.usage]
    BY <1>3, <2>1, Zenon DEF Report
  <2>3. /\ Shape(j) /\ ~Named(j, DockerAts)
        /\ ~Named(j, {"Write", "ReadSession", "WriteSession"}) /\ ~Named(j, {"Write", "UpdateConnectionStatus"})
    BY <1>4, <2>2, Zenon DEF Shape, Named, ServingAts, DockerAts
  <2>4. JobInv(j, rows)
    BY <2>3, OtherStep, Zenon
  <2>5. Rests(h, n, j)
    BY <1>1, <1>3, <1>4, <1>6, <2>1, <2>2, <2>3, <2>4, CallRests, Zenon
  <2>6. ~Named(j, FeatureAts)
    BY <2>2, Zenon DEF Named, FeatureAts
  <2> QED BY <2>5, <2>6, Zenon
<1> QED BY <1>2, <1>5, <1>6, Zenon

\* A report is recorded: the file it writes has the rows in memory.
LEMMA RecordRests ==
  ASSUME IInv, NEW h \in Handlers, record_trace(h)
  PROVE  \E n, j : Rests(h, n, j) /\ ~Named(j, FeatureAts)
<1>1. At(h, "RecordTrace") /\ UNCHANGED <<repository, rows, acked, docker>>
  BY Zenon DEF record_trace, NoTurn
<1>2. PICK n, j : n = job[h].name /\ j = [job[h] EXCEPT !.at = "ReadSession"]
  BY Zenon
<1>3. /\ job[h].agent \in Ids /\ job[h].session \in Sessions
      /\ n \in Names /\ ~Named(job[h], {"Write"}) /\ ~Named(job[h], DockerAts)
  BY <1>1, <1>2, TurnJob, Zenon
<1>4. j.at = "ReadSession" /\ j.name = n /\ j.agent = job[h].agent /\ j.session = job[h].session
  <2>1. job[h] = [at |-> job[h].at, name |-> job[h].name, agent |-> job[h].agent,
                  session |-> job[h].session, usage |-> job[h].usage]
    BY <1>1, Zenon DEF At, Idle, Named, IInv, JobsInv, JobInv, Shape
  <2> QED BY <1>2, <2>1, Zenon
<1>5. Shape(j) /\ ~Named(j, DockerAts) /\ ~Named(j, {"Write"}) /\ ~Named(j, {"Write", "UpdateConnectionStatus"})
  BY <1>3, <1>4, Zenon DEF Shape, Named, ServingAts, DockerAts
<1>6. JobInv(j, rows)
  BY <1>5, OtherStep, Zenon
<1>7. CASE RecordTrace(h) /\ repository = "file"
  <2>1. Goto(h, Absent) /\ (Calm(h, n) \/ Fault(n)) /\ disk'.rows \in {disk.rows, rows}
    BY <1>2, <1>7 DEF RecordTrace
  <2>2. Rests(h, n, Absent)
    BY <1>1, <1>2, <1>3, <2>1, NoJob, Zenon DEF Rests, Plain, Moves
  <2> QED BY <2>2, NoJob, Zenon
<1>8. CASE RecordTrace(h) /\ repository = "postgres"
  <2>1. Goto(h, j) /\ Calm(h, n) /\ disk' = disk
    BY <1>2, <1>8, Zenon DEF RecordTrace
  <2>2. Rests(h, n, j)
    BY <1>1, <1>2, <1>3, <1>4, <1>5, <1>6, <1>8, <2>1, Zenon DEF Rests, Plain, Moves
  <2>3. ~Named(j, FeatureAts)
    BY <1>4, Zenon DEF Named, FeatureAts
  <2> QED BY <2>2, <2>3, Zenon
<1>9. CASE Fault(job[h].name) /\ Goto(h, Absent) /\ UNCHANGED disk
  <2>1. Rests(h, n, Absent)
    BY <1>1, <1>2, <1>3, <1>9, NoJob, Zenon DEF Rests, Plain, Moves
  <2> QED BY <2>1, NoJob, Zenon
<1> QED BY <1>7, <1>8, <1>9, Zenon DEF record_trace, RecordTrace

\* The session is read.
LEMMA ReadRests ==
  ASSUME IInv, NEW h \in Handlers, ReadSession(h)
  PROVE  \E n, j : Rests(h, n, j) /\ ~Named(j, FeatureAts)
<1>1. At(h, "ReadSession") /\ Call(h) /\ UNCHANGED docker /\ Calm(h, job[h].name)
  BY Zenon DEF ReadSession, NoTurn
<1>2. PICK n, j : /\ n = job[h].name
                  /\ j = [at |-> "WriteSession", name |-> job[h].name, key |-> SessionKey(h),
                          value |-> Counted(sessions[SessionKey(h)], job[h].usage)]
  BY Zenon
<1>3. n \in Names /\ ~Named(job[h], {"Write"}) /\ ~Named(job[h], DockerAts)
  BY <1>1, <1>2, TurnJob, Zenon
<1>4. j.at = "WriteSession" /\ j.name = n
  BY <1>2, Zenon
<1>5. Shape(j) /\ ~Named(j, DockerAts) /\ ~Named(j, {"Write"}) /\ ~Named(j, {"Write", "UpdateConnectionStatus"})
  BY <1>3, <1>4, Zenon DEF Shape, Named, ServingAts, DockerAts
<1>6. JobInv(j, rows)
  BY <1>5, OtherStep, Zenon
<1>7. Goto(h, j)
  BY <1>2, Zenon DEF ReadSession
<1>8. repository # "file"
  BY <1>1, Zenon DEF IInv, FileInv, At, Idle, Named
<1>9. Rests(h, n, j)
  BY <1>1, <1>2, <1>3, <1>4, <1>5, <1>6, <1>7, <1>8, Zenon DEF Rests, Plain, Moves, Call
<1>10. ~Named(j, FeatureAts)
  BY <1>4, Zenon DEF Named, FeatureAts
<1> QED BY <1>9, <1>10, Zenon

\* The session is written.
LEMMA WriteSessionRests ==
  ASSUME IInv, NEW h \in Handlers, WriteSession(h)
  PROVE  \E n : Rests(h, n, Absent)
<1>1. /\ At(h, "WriteSession") /\ UNCHANGED <<docker, repository, rows, disk, acked>>
      /\ Goto(h, Absent) /\ (Calm(h, job[h].name) \/ Fault(job[h].name))
  BY Zenon DEF WriteSession, NoTurn
<1>2. PICK n : n = job[h].name
  BY Zenon
<1>3. n \in Names /\ ~Named(job[h], {"Write"}) /\ ~Named(job[h], DockerAts)
  BY <1>1, <1>2, TurnJob, Zenon
<1>4. Rests(h, n, Absent)
  BY <1>1, <1>2, <1>3, NoJob, Zenon DEF Rests, Plain, Moves
<1> QED BY <1>4, Zenon

-----------------------------------------------------------------------------
(* Every step of a handler is one of four *)

Stores(h) == \E n, i, value, step : Saves(h, n, i, value, step)
Pauses(h) == \E n, j : Rests(h, n, j)

\* A request stores a resource or begins a call.
LEMMA RequestSteps ==
  ASSUME IInv, NEW h \in Handlers, Request(h)
  PROVE  UNCHANGED docker /\ (Stores(h) \/ Pauses(h))
<1>1. UNCHANGED docker
  BY Zenon DEF Request, ModelRequest, registerModel, RegisterModel, promoteModel, PromoteModel, deployModel, DeployModel,
         rollbackModel, RollbackModel, Add, Change, CatalogRequest, registerTool, RegisterTool, createConnection,
         CreateConnection, testConnection, applyFeatureView, materialize, ApplyFeatureView, NoFeature,
         AgentRequest, deployAgent, DeployAgent, agentTraffic, SetAgentTraffic, invokeAgent, NoTurn
<1>2. Stores(h) \/ Pauses(h)
  BY ModelRequestSaves, CatalogRequestSaves, TestRests, AgentRequestSaves, InvokeRests, Zenon
     DEF Request, AgentRequest, Stores, Pauses
<1> QED BY <1>1, <1>2, Zenon

\* A step of a handler stores a resource, writes it, calls Docker or does neither.
LEMMA ContinueSteps ==
  ASSUME IInv, NEW h \in Handlers, Continue(h)
  PROVE  \/ (Stores(h) \/ Pauses(h)) /\ UNCHANGED docker
         \/ write(h) /\ UNCHANGED docker
         \/ requestServing(h) /\ (\E n, j : Plain(h, n, j))
         \/ DeleteDeployment(h) /\ (\E n : Plain(h, n, Absent))
<1>1. CASE write(h) /\ UNCHANGED docker
  BY <1>1, Zenon
<1>2. CASE ServingStep(h)
  <2>1. CASE Deployed(h)
    BY <2>1, DeployedSaves, Zenon DEF Deployed, SetModelEndpoint, Stores
  <2> QED BY <1>2, <2>1, RequestServingPlain, DeletePlain, Zenon DEF ServingStep
<1>3. CASE CatalogStep(h)
  <2>1. UNCHANGED docker
    BY <1>3, Zenon DEF CatalogStep, UpdateConnectionStatus, Put, write_offline_snapshot, reportMaterialization, NoFeature
  <2> QED BY <1>3, <2>1, StatusSaves, PutRests, SnapshotRests, ReportSaves, Zenon DEF CatalogStep, Stores, Pauses
<1>4. CASE AgentStep(h)
  <2>1. UNCHANGED docker
    BY <1>4, Zenon DEF AgentStep, turn, record_trace, ReadSession, WriteSession, NoTurn
  <2> QED BY <1>4, <2>1, TurnRests, RecordRests, ReadRests, WriteSessionRests, Zenon DEF AgentStep, Pauses
<1> QED BY <1>1, <1>2, <1>3, <1>4, Zenon DEF Continue

\* What a step of either kind does to the rows: nothing, or it gives one of them
\* a value.
LEMMA SaveRows ==
  ASSUME IInv, NEW h \in Handlers, NEW n, NEW i, NEW value, NEW step, Saves(h, n, i, value, step)
  PROVE  /\ i \in Ids /\ value \in Row /\ value # Absent /\ value.name = n /\ repository' = repository
         /\ rows[i] # Absent => Same(rows[i], value)
         /\ repository = "file" =>
              /\ rows'[i] = value /\ (\A k \in Ids \ {i} : rows'[k] = rows[k])
              /\ disk'.rows = rows' \/ (disk' = disk /\ n \in disturbed')
         /\ repository = "postgres" =>
              /\ UNCHANGED <<rows, disk>>
              /\ job' = [job EXCEPT ![h] = [at |-> "Write", name |-> n, id |-> i, value |-> value, then |-> step]]
<1>1. i \in Ids /\ value \in Row /\ value # Absent /\ value.name = n /\ (rows[i] # Absent => Same(rows[i], value))
  BY RowName, Zenon DEF Saves, Saved
<1>2. repository' = repository
  BY Zenon DEF Saves, Save
<1>3. ASSUME repository = "file"
      PROVE  /\ rows'[i] = value /\ (\A k \in Ids \ {i} : rows'[k] = rows[k])
             /\ disk'.rows = rows' \/ (disk' = disk /\ n \in disturbed')
  <2>1. rows' = [rows EXCEPT ![i] = value]
    BY <1>3, Zenon DEF Saves, Save
  <2>2. disk'.rows = rows' \/ (disk' = disk /\ n \in disturbed')
    BY <1>3 DEF Saves, Save, persist, Snapshot, Fault
  <2> QED BY <1>1, <2>1, <2>2, Zenon DEF IInv, Table
<1>4. ASSUME repository = "postgres"
      PROVE  /\ UNCHANGED <<rows, disk>>
             /\ job' = [job EXCEPT ![h] = [at |-> "Write", name |-> n, id |-> i, value |-> value, then |-> step]]
  BY <1>4, Zenon DEF Saves, Save, Goto
<1> QED BY <1>1, <1>2, <1>3, <1>4, Zenon

\* The same of a transaction.
LEMMA WriteRows ==
  ASSUME IInv, NEW h \in Handlers, write(h)
  PROVE  /\ repository = "postgres" /\ UNCHANGED <<repository, disk>>
         /\ Named(job[h], {"Write"}) /\ job[h].id \in Ids /\ job[h].value \in Row /\ job[h].value # Absent
         /\ job[h].value.name = job[h].name /\ job[h].name \in Names
         /\ rows[job[h].id] # Absent => Same(rows[job[h].id], job[h].value)
         /\ Follows(job[h].then, job[h].id, job[h].value)
         /\ \/ /\ rows'[job[h].id] = job[h].value /\ (\A k \in Ids \ {job[h].id} : rows'[k] = rows[k])
               /\ Goto(h, job[h].then) /\ Calm(h, job[h].name) /\ rows' = [rows EXCEPT ![job[h].id] = job[h].value]
            \/ rows' = rows /\ Goto(h, Absent) /\ Fault(job[h].name)
<1>1. Named(job[h], {"Write"}) /\ repository = "postgres"
  BY Zenon DEF write, At, Idle, Named, IInv, FileInv
<1>2. /\ job[h].id \in Ids /\ job[h].value \in Row /\ job[h].value # Absent
      /\ job[h].value.name = job[h].name /\ (rows[job[h].id] # Absent => Same(rows[job[h].id], job[h].value))
      /\ Follows(job[h].then, job[h].id, job[h].value)
  BY <1>1, RowName, Zenon DEF IInv, JobsInv, JobInv, Writing
<1>3. job[h].name \in Names
  BY <1>2, RowName, Zenon
<1>4. UNCHANGED <<repository, disk>>
  BY Zenon DEF write
<1>5. \/ /\ rows' = [rows EXCEPT ![job[h].id] = job[h].value]
         /\ Goto(h, job[h].then) /\ Calm(h, job[h].name)
      \/ rows' = rows /\ Goto(h, Absent) /\ Fault(job[h].name)
  BY Zenon DEF write
<1>6. rows' = [rows EXCEPT ![job[h].id] = job[h].value] =>
        rows'[job[h].id] = job[h].value /\ (\A k \in Ids \ {job[h].id} : rows'[k] = rows[k])
  BY <1>2, Zenon DEF IInv, Table
<1> QED BY <1>1, <1>2, <1>3, <1>4, <1>5, <1>6, Zenon

-----------------------------------------------------------------------------
\* The inductive invariant, from an empty repository on.
THEOREM Invariant == Spec => []IInv
\* A handler goes on with a step that is no write.
<1>JobReplaced.
  ASSUME NEW js, NEW t, JobsInv(js, t), NEW h \in Handlers, NEW j, JobInv(j, t), ~Named(j, {"Write"})
  PROVE  JobsInv([js EXCEPT ![h] = j], t)
  BY <1>JobReplaced, Zenon DEF JobsInv, PairInv
\* A handler is about to write a resource: a new one, or one that is there.
<1>WriteAdded.
  ASSUME NEW js, NEW t, JobsInv(js, t), NEW h \in Handlers, NEW j, JobInv(j, t),
         Named(j, {"Write"}),
         t[j.id] = Absent => \A g \in Handlers : ~Named(js[g], {"Write"}) \/ js[g].id # j.id
  PROVE  JobsInv([js EXCEPT ![h] = j], t)
  BY <1>WriteAdded, Zenon DEF JobsInv, PairInv
\* Writing another value of a resource, or a new one, leaves the job of a handler right.
<1>RowReplacedJob.
  ASSUME NEW t, Table(t), NEW j, JobInv(j, t), NEW i \in Ids, NEW value \in Row,
         t[i] # Absent => Same(t[i], value),
         Named(j, {"Write"}) /\ j.id = i => t[i] # Absent
  PROVE  JobInv(j, [t EXCEPT ![i] = value])
  <2> USE <1>RowReplacedJob
  <2> DEFINE u == [t EXCEPT ![i] = value]
  <2>0. u[i] = value /\ \A k \in Ids \ {i} : u[k] = t[k]
    BY Zenon DEF Table
  <2>1. value # Absent
    BY RowName, Zenon
  <2> HIDE DEF u
  <2>2. Shape(j)
    BY Zenon DEF JobInv
  <2>3. Writing(j, u)
    BY <2>0 DEF JobInv, Writing, Same
  <2>4. Named(j, DockerAts) => IsModel(u, j.name, j.id)
    BY <2>0, <2>1, Zenon DEF JobInv, IsModel, Same
  <2>5. Named(j, ServingAts) => Servable(u[j.id])
    <3>1. Named(j, ServingAts) => j.id \in Ids
      BY Zenon DEF JobInv, IsModel, Named, DockerAts
    <3> QED BY <2>0, <2>1, <3>1, Zenon DEF JobInv, Servable, Same
  <2>6. Named(j, {"UpdateConnectionStatus"}) =>
          /\ j.id \in Ids /\ u[j.id] # Absent /\ u[j.id].kind = "connection" /\ u[j.id].name = j.name
          /\ j.status \in {"healthy", "unhealthy"}
    BY <2>0, <2>1, Zenon DEF JobInv, Same
  <2> QED BY <2>2, <2>3, <2>4, <2>5, <2>6 DEF JobInv, u
\* The same of all handlers.
<1>RowReplaced.
  ASSUME NEW js, NEW t, Table(t), JobsInv(js, t), NEW i \in Ids, NEW value \in Row, Gated(value),
         t[i] # Absent => Same(t[i], value),
         \A g \in Handlers : Named(js[g], {"Write"}) /\ js[g].id = i => t[i] # Absent
  PROVE  Table([t EXCEPT ![i] = value]) /\ JobsInv(js, [t EXCEPT ![i] = value])
  <2> USE <1>RowReplaced
  <2> DEFINE u == [t EXCEPT ![i] = value]
  <2>1. value # Absent
    BY RowName, Zenon
  <2>2. Table(u)
    BY Zenon DEF Table
  <2>3. \A h \in Handlers : JobInv(js[h], u)
    BY <1>RowReplacedJob, Zenon DEF JobsInv
  <2>4. \A g, h \in Handlers : g # h => PairInv(js[g], js[h], u)
    <3> SUFFICES ASSUME NEW g \in Handlers, NEW h \in Handlers PROVE g # h => PairInv(js[g], js[h], u)
      BY Zenon
    <3>1. u[i] = value /\ \A k \in Ids \ {i} : u[k] = t[k]
      BY Zenon DEF Table
    <3> HIDE DEF u
    <3>2. Named(js[h], {"Write"}) => js[h].id \in Ids
      BY Zenon DEF JobsInv, JobInv, Writing
    <3> QED BY <2>1, <3>1, <3>2, Zenon DEF JobsInv, PairInv
  <2> QED BY <2>2, <2>3, <2>4, Zenon DEF JobsInv
\* A plain step keeps the invariant.
<1>PlainKeeps.
  ASSUME IInv, NEW h \in Handlers, NEW n, NEW j, Plain(h, n, j)
  PROVE  IInv'
  <2> USE <1>PlainKeeps
  <2>0. job' = [job EXCEPT ![h] = j] /\ JobInv(j, rows) /\ ~Named(j, {"Write"})
    BY Zenon DEF Plain, Moves, Goto
  <2>1. Table(rows') /\ Table(disk'.rows)
    BY Zenon DEF Plain, IInv
  <2>2. JobsInv(job', rows')
    BY <2>0, <1>JobReplaced, Zenon DEF Plain, IInv
  <2>3. AckedInv'
    BY Zenon DEF Plain, IInv, AckedInv
  <2>4. FileInv'
    BY <2>0, Zenon DEF Plain, IInv, FileInv, JobsInv, Named
  <2>5. repository' \in {"file", "postgres"}
    BY Zenon DEF Plain, IInv
  <2> QED BY <2>1, <2>2, <2>3, <2>4, <2>5, Zenon DEF IInv
\* The step after a write is right once the resource has its value.
<1>FollowsRight.
  ASSUME NEW t, NEW i \in Ids, NEW value \in Row, NEW step, t[i] = value, Follows(step, i, value)
  PROVE  JobInv(step, t) /\ ~Named(step, {"Write", "ReadSession", "WriteSession"})
  <2> USE <1>FollowsRight
  <2>1. AfterWrite(step, i, value) /\ value # Absent
    BY FollowsShape, RowName, Zenon
  <2> QED BY <2>1, Zenon DEF AfterWrite, JobInv, Writing, Named, IsModel, DockerAts, ServingAts
\* A method of either repository that gives a resource a value, in the file store
\* with or without the file.
<1>SaveKeeps.
  ASSUME IInv, NEW h \in Handlers, NEW n, NEW i, NEW value, NEW step, Saves(h, n, i, value, step)
  PROVE  IInv'
  <2> USE <1>SaveKeeps
  <2>0. i \in Ids /\ value \in Row /\ Gated(value) /\ Follows(step, i, value) /\ value.name = n
    BY DEF Saves, Saved
  <2>00. value # Absent /\ n \in Names
    BY <2>0, RowName, Zenon
  <2>1. ASSUME rows[i] = Absent PROVE \A g \in Handlers : ~Named(job[g], {"Write"}) \/ job[g].id # i
    BY <2>1, Zenon DEF Saves, Saved, Unused, At, Idle, Named
  <2>2. rows[i] # Absent => Same(rows[i], value)
    BY Zenon DEF Saves, Saved
  <2>3. CASE repository = "file"
    <3>1. rows' = [rows EXCEPT ![i] = value] /\ repository' = repository
      BY <2>3, Zenon DEF Saves, Save
    <3>2. Table(rows') /\ JobsInv(job, rows')
      <4>1. \A g \in Handlers : Named(job[g], {"Write"}) /\ job[g].id = i => rows[i] # Absent
        BY <2>1, Zenon
      <4> QED BY <2>0, <2>2, <3>1, <4>1, <1>RowReplaced, Zenon DEF IInv
    <3>3. rows'[i] = value /\ \A k \in Ids \ {i} : rows'[k] = rows[k]
      BY <2>0, <3>1, Zenon DEF IInv, Table
    <3>4. CASE persist /\ acked' = acked \cup {i} /\ Goto(h, step)
      <4>1. disk'.rows = rows'
        BY <3>4, Zenon DEF persist, Snapshot
      <4>2. JobInv(step, rows') /\ ~Named(step, {"Write", "ReadSession", "WriteSession"})
        BY <2>0, <3>3, <1>FollowsRight, Zenon
      <4>3. JobsInv(job', rows')
        <5>1. ~Named(step, {"Write"})
          BY <4>2, Zenon DEF Named
        <5> QED BY <3>2, <3>4, <4>2, <5>1, <1>JobReplaced, Zenon DEF Goto
      <4>4. AckedInv'
        BY <2>0, <2>00, <3>3, <3>4, <4>1, Zenon DEF IInv, AckedInv
      <4>5. FileInv'
        BY <2>3, <3>4, <4>2, Zenon DEF IInv, FileInv, Goto, JobsInv
      <4> QED BY <3>1, <3>2, <4>1, <4>3, <4>4, <4>5, Zenon DEF IInv
    <3>5. CASE Goto(h, Absent) /\ UNCHANGED <<disk, acked>>
      <4>1. JobsInv(job', rows')
        BY <3>2, <3>5, NoJob, <1>JobReplaced, Zenon DEF Goto
      <4>2. AckedInv'
        BY <2>0, <2>00, <3>1, <3>3, <3>5, Zenon DEF IInv, AckedInv
      <4>3. FileInv'
        BY <2>3, <3>5, NoJob, Zenon DEF IInv, FileInv, Goto, JobsInv
      <4> QED BY <3>1, <3>2, <3>5, <4>1, <4>2, <4>3, Zenon DEF IInv
    <3> QED BY <2>3, <3>4, <3>5, Zenon DEF Saves, Save
  <2>4. CASE repository = "postgres"
    <3> DEFINE j == [at |-> "Write", name |-> n, id |-> i, value |-> value, then |-> step]
    <3>1. job' = [job EXCEPT ![h] = j] /\ UNCHANGED <<repository, rows, disk, acked>>
      BY <2>4, Zenon DEF Saves, Save, Goto
    <3>2. j.at = "Write" /\ j.name = n /\ j.id = i /\ j.value = value /\ j.then = step
      BY Zenon
    <3> HIDE DEF j
    <3>3. JobInv(j, rows)
      BY <2>0, <2>00, <2>2, <3>2, Zenon DEF JobInv, Shape, Writing, Named, ServingAts, DockerAts
    <3>4. JobsInv(job', rows)
      <4>1. CASE Named(j, {"Write"})
        BY <2>1, <3>1, <3>2, <3>3, <4>1, <1>WriteAdded, Zenon DEF IInv
      <4>2. CASE ~Named(j, {"Write"})
        BY <3>1, <3>3, <4>2, <1>JobReplaced, Zenon DEF IInv
      <4> QED BY <4>1, <4>2, Zenon
    <3> QED BY <2>4, <3>1, <3>4, Zenon DEF IInv, AckedInv, FileInv
  <2> QED BY <2>3, <2>4, Zenon DEF IInv
\* A step of the repository that leaves the memory alone.
<1>JobGone.
  ASSUME IInv, NEW h \in Handlers, Goto(h, Absent), UNCHANGED <<repository, rows, acked, disk>>
  PROVE  IInv'
  <2> USE <1>JobGone
  <2>1. JobsInv(job', rows')
    BY NoJob, <1>JobReplaced, Zenon DEF IInv, Goto
  <2>2. AckedInv' /\ FileInv'
    BY NoJob, Zenon DEF IInv, AckedInv, FileInv, Goto, JobsInv
  <2> QED BY <2>1, <2>2, Zenon DEF IInv
\* A transaction of PostgreSQL.
<1>WriteKeeps.
  ASSUME IInv, NEW h \in Handlers, write(h)
  PROVE  IInv'
  <2> USE <1>WriteKeeps
  <2> DEFINE i == job[h].id
             value == job[h].value
             step == job[h].then
  <2>0. i \in Ids /\ value \in Row /\ Gated(value) /\ Follows(step, i, value) /\ Named(job[h], {"Write"})
    BY Zenon DEF IInv, JobsInv, JobInv, Writing, Named, write, At, Idle
  <2>00. value # Absent
    BY <2>0, RowName, Zenon
  <2>1. CASE Goto(h, Absent) /\ UNCHANGED <<rows, acked>>
    BY <2>1, <1>JobGone, Zenon DEF write
  <2>2. CASE rows' = [rows EXCEPT ![i] = value] /\ acked' = acked \cup {i} /\ Goto(h, step)
    <3> DEFINE js == [job EXCEPT ![h] = Absent]
    <3>1. JobsInv(js, rows)
      BY NoJob, <1>JobReplaced, Zenon DEF IInv
    <3>2. \A g \in Handlers : Named(js[g], {"Write"}) /\ js[g].id = i => rows[i] # Absent
      BY <2>0, Zenon DEF IInv, JobsInv, PairInv, Named
    <3>3. rows[i] # Absent => Same(rows[i], value)
      BY <2>0, Zenon DEF IInv, JobsInv, JobInv, Writing
    <3>4. Table(rows') /\ JobsInv(js, rows')
      BY <2>0, <2>2, <3>1, <3>2, <3>3, <1>RowReplaced, Zenon DEF IInv
    <3>5. rows'[i] = value /\ \A k \in Ids \ {i} : rows'[k] = rows[k]
      BY <2>0, <2>2, Zenon DEF IInv, Table
    <3>6. JobInv(step, rows') /\ ~Named(step, {"Write"})
      <4>1. JobInv(step, rows') /\ ~Named(step, {"Write", "ReadSession", "WriteSession"})
        BY <2>0, <3>5, <1>FollowsRight, Zenon
      <4> QED BY <4>1, Zenon DEF Named
    <3>7. job' = [js EXCEPT ![h] = step]
      BY <2>2, Zenon DEF Goto, IInv, JobsInv
    <3>8. JobsInv(job', rows')
      <4> HIDE DEF js
      <4> QED BY <3>4, <3>6, <3>7, <1>JobReplaced, Zenon
    <3>9. repository' = repository /\ disk' = disk /\ repository # "file"
      BY <2>0, ZenonT(30) DEF write, IInv, FileInv, Named
    <3>10. AckedInv' /\ FileInv'
      BY <2>0, <2>00, <2>2, <3>5, <3>9, Zenon DEF IInv, AckedInv, FileInv
    <3> QED BY <3>4, <3>8, <3>9, <3>10, Zenon DEF IInv
  <2> QED BY <2>1, <2>2, Zenon DEF write
\* A restart of the gateway takes the rows from the file, and no request is left
\* that has read others.
<1>RestartKeeps.
  ASSUME IInv, restart
  PROVE  IInv'
  <2> USE <1>RestartKeeps
  <2>1. job' = [h \in Handlers |-> job'[h]] /\ \A h \in Handlers :
          job'[h] = Absent \/ (job'[h] = job[h] /\ Outside(h))
    BY Zenon DEF restart
  <2>2. \A h \in Handlers :
          ~Named(job'[h], DockerAts \cup {"Write", "UpdateConnectionStatus", "ReadSession", "WriteSession"})
    BY <2>1, Zenon DEF Outside, Idle, Named, ServingAts, DockerAts
  <2>3. \A h \in Handlers : Shape(job'[h])
    BY <2>1, NoJob, Zenon DEF IInv, JobsInv, JobInv
  <2>4. JobsInv(job', rows')
    <3>1. \A h \in Handlers : JobInv(job'[h], rows')
      BY <2>2, <2>3, Zenon DEF JobInv, Writing, Named, DockerAts
    <3>2. \A g, h \in Handlers : PairInv(job'[g], job'[h], rows')
      BY <2>2, Zenon DEF PairInv, Named
    <3> QED BY <2>1, <3>1, <3>2, Zenon DEF JobsInv
  <2>5. Table(rows') /\ disk' = disk
    BY Zenon DEF restart, IInv
  <2>6. AckedInv' /\ FileInv'
    BY <2>2, Zenon DEF restart, IInv, AckedInv, FileInv, Named
  <2>7. repository' = repository
    BY Zenon DEF restart
  <2> QED BY <2>4, <2>5, <2>6, <2>7, Zenon DEF IInv
<1>1. Init => IInv
  <2> SUFFICES ASSUME Init PROVE IInv
    BY Zenon
  <2>1. /\ rows = [i \in Ids |-> Absent] /\ job = [h \in Handlers |-> Absent] /\ acked = {} /\ disk = Snapshot
        /\ repository \in {"file", "postgres"}
    BY Zenon DEF Init, RepositoryInit
  <2>2. Table(rows)
    BY <2>1, Zenon DEF Table, Gated
  <2>3. disk.rows = rows
    BY <2>1, Zenon DEF Snapshot
  <2>4. JobsInv(job, rows)
    BY <2>1, NoJob, Zenon DEF JobsInv, PairInv, Named
  <2>5. AckedInv /\ FileInv
    BY <2>1, Zenon DEF AckedInv, FileInv, Named
  <2> QED BY <2>1, <2>2, <2>3, <2>4, <2>5, Zenon DEF IInv
<1>2. IInv /\ [Next]_vars => IInv'
  <2> SUFFICES ASSUME IInv, [Next]_vars PROVE IInv'
    BY Zenon
  <2>1. CASE Restart
    BY <2>1, <1>RestartKeeps, Zenon DEF Restart
  <2>2. ASSUME NEW h \in Handlers, Stores(h) \/ Pauses(h) PROVE IInv'
    BY <2>2, <1>SaveKeeps, <1>PlainKeeps, Zenon DEF Stores, Pauses, Rests
  <2>3. ASSUME NEW h \in Handlers, Request(h) PROVE IInv'
    BY <2>2, <2>3, RequestSteps, Zenon
  <2>4. ASSUME NEW h \in Handlers, Continue(h) PROVE IInv'
    BY <2>2, <2>4, ContinueSteps, <1>WriteKeeps, <1>PlainKeeps, Zenon
  <2>5. CASE UNCHANGED vars
    BY <2>5, Zenon DEF vars, catalogVars, modelVars, storeVars, IInv, AckedInv, FileInv
  <2> QED BY <2>1, <2>3, <2>4, <2>5, Zenon DEF Next
<1> QED BY <1>1, <1>2, PTL DEF Spec

\* No interleaving of PromoteModel, DeployModel, RollbackModel and SetModelEndpoint
\* takes a model that failed its gate to production or into a container, in either
\* repository: the value that a handler is about to write was computed under the
\* gate, and the gate of a row never changes.
THEOREM GateSafe == Spec => []GateHolds
<1>1. IInv => GateHolds
  BY Zenon DEF IInv, Table, Gated, GateHolds, Rows, HasKind
<1> QED BY <1>1, Invariant, PTL

\* A resource whose creation was acknowledged is in the file, or in the tables of
\* PostgreSQL, and no restart or failed call takes it away.
THEOREM Durable == Spec => []AcknowledgedSurvives
<1>1. IInv => AcknowledgedSurvives
  BY Zenon DEF IInv, AckedInv, AcknowledgedSurvives
<1> QED BY <1>1, Invariant, PTL
=============================================================================
