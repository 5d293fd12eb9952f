------------------------------- MODULE Models -------------------------------
(***************************************************************************)
(* The model registry, and the serving manager, which runs one container   *)
(* per model name on Docker.  deployModel stores the model, asks the       *)
(* manager to remove the container of that name, to create one and to      *)
(* start it, and stores the outcome.  The manager is configured, and a     *)
(* version of a model is its row.                                          *)
(***************************************************************************)
EXTENDS Repository

CONSTANTS Versions, Stages, Weights   \* what clients ask for

VARIABLE docker   \* docker[n]: the container of name n [model, by, running], or Absent

modelVars == <<storeVars, docker>>

ModelsInit == docker = [n \in Names |-> Absent]

\* Mutant: a version may be registered again.
ConflictsNever(row) == FALSE

Conflicts(row) ==
  \E j \in Ids : HasKind(j, row.kind) /\ rows[j].name = row.name /\ rows[j].version = row.version

Add(h, i, row) ==
  /\ Idle(h) /\ IsNew(i)
  /\ Save(h, row.name, i, row, Absent)
  /\ UNCHANGED docker

\* The gate fails when the metrics hold an accuracy below 0.8.
NewModel(n, v, gate) ==
  [kind |-> "model", name |-> n, version |-> v, gate |-> gate, stage |-> "candidate", previous |-> "",
   deployment |-> "not_deployed", weight |-> 0, endpoint |-> ""]

RegisterModel(h, i, n, v, gate) ==
  ~Conflicts(NewModel(n, v, gate)) /\ Add(h, i, NewModel(n, v, gate))

Change(h, i, value, step) ==
  Idle(h) /\ Save(h, rows[i].name, i, value, step) /\ UNCHANGED docker

Step(i, at) == [at |-> at, name |-> rows[i].name, id |-> i]

MayPromote(i, stage) ==
  /\ stage \in {"staging", "production", "archived"} /\ HasKind(i, "model")
  /\ stage = "production" => rows[i].gate # "failed"

Promoted(row, stage) == [row EXCEPT !.previous = row.stage, !.stage = stage]

\* Mutant: only the candidates are gated.
PromoteModelCandidates(h, i, stage) ==
  /\ HasKind(i, "model") /\ stage \in {"staging", "production", "archived"}
  /\ stage = "production" /\ rows[i].stage = "candidate" => rows[i].gate # "failed"
  /\ Change(h, i, Promoted(rows[i], stage), Absent)

PromoteModel(h, i, stage) == MayPromote(i, stage) /\ Change(h, i, Promoted(rows[i], stage), Absent)

MayDeploy(i, w) == w \in 0..100 /\ HasKind(i, "model") /\ rows[i].gate = "passed"

Deploying(row, w) == [row EXCEPT !.deployment = "deploying", !.weight = w, !.endpoint = "path"]

DeployModel(h, i, w) == MayDeploy(i, w) /\ Change(h, i, Deploying(rows[i], w), Step(i, "Undeploy"))

MayRollBack(i) == HasKind(i, "model") /\ rows[i].previous # ""

RolledBack(row) ==
  [row EXCEPT !.stage = row.previous, !.previous = row.stage, !.deployment = "rolled_back", !.weight = 0]

\* Mutant: the container is left running.
RollbackModelOnly(h, i) == MayRollBack(i) /\ Change(h, i, RolledBack(rows[i]), Absent)

RollbackModel(h, i) == MayRollBack(i) /\ Change(h, i, RolledBack(rows[i]), Step(i, "DeleteDeployment"))

Recorded(row, endpoint, status) == [row EXCEPT !.endpoint = endpoint, !.deployment = status]

SetModelEndpoint(h, endpoint, status) ==
  /\ Save(h, job[h].name, job[h].id, Recorded(rows[job[h].id], endpoint, status), Absent)
  /\ UNCHANGED docker

-----------------------------------------------------------------------------
(* The serving manager *)

Call(h) == UNCHANGED <<repository, rows, sessions, traces, disk, acked>>

Then(h, at) == [job[h] EXCEPT !.at = at]

Container(h) == docker[job[h].name]

With(h, container) == [docker EXCEPT ![job[h].name] = container]

\* A call to the Docker engine succeeds, or fails with or without its effect.
do(h, after, step, error) ==
  /\ Call(h)
  /\ \/ Calm(h, job[h].name) /\ docker' = after /\ Goto(h, step)
     \/ Fault(job[h].name) /\ docker' \in {docker, after} /\ Goto(h, error)

\* Deploy drops the error of its first call.
Undeploy(h) == At(h, "Undeploy") /\ do(h, With(h, Absent), Then(h, "Create"), Then(h, "Create"))

\* Docker refuses a name in use.  That there is no such image, 404, passes for a
\* success.
Create(h) ==
  /\ At(h, "Create")
  /\ \/ Container(h) # Absent /\ do(h, docker, Then(h, "Failed"), Then(h, "Failed"))
     \/ Container(h) = Absent /\ do(h, With(h, [model |-> job[h].id, by |-> h, running |-> FALSE]),
                                    Then(h, "Start"), Then(h, "Failed"))
     \/ Container(h) = Absent /\ Call(h) /\ Fault(job[h].name) /\ Goto(h, Then(h, "Start")) /\ UNCHANGED docker

\* A container that is gone, 404, passes for started.
Started(h) ==
  IF Container(h) # Absent /\ Container(h).by = h THEN With(h, [Container(h) EXCEPT !.running = TRUE]) ELSE docker

Start(h) == At(h, "Start") /\ do(h, Started(h), Then(h, "Serving"), Then(h, "Failed"))

\* The serving manager's Deploy.
Deploy(h) == Undeploy(h) \/ Create(h) \/ Start(h)

\* When the manager cannot be reached, or is given up in its first call, nothing
\* else is called.
requestServing(h) ==
  \/ Deploy(h)
  \/ At(h, "Undeploy") /\ Fault(job[h].name) /\ Goto(h, Then(h, "Failed"))
     /\ docker' \in {docker, With(h, Absent)} /\ Call(h)

\* Mutant: the endpoint is not recorded.
DeployedUnrecorded(h) ==
  \/ At(h, "Serving") /\ Call(h) /\ Goto(h, Absent) /\ Calm(h, job[h].name) /\ UNCHANGED docker
  \/ At(h, "Failed") /\ SetModelEndpoint(h, "", "failed")

\* Back in deployModel.
Deployed(h) ==
  \/ At(h, "Serving") /\ SetModelEndpoint(h, "http", "serving")
  \/ At(h, "Failed") /\ SetModelEndpoint(h, "", "failed")

\* Back in rollbackModel: best effort.
DeleteDeployment(h) == At(h, "DeleteDeployment") /\ do(h, With(h, Absent), Absent, Absent)

\* The handlers: what clients ask for.
registerModel(h) ==
  \E i \in Ids, n \in Names, v \in Versions, gate \in {"passed", "failed"} : RegisterModel(h, i, n, v, gate)

promoteModel(h) == \E i \in Ids, stage \in Stages : PromoteModel(h, i, stage)

deployModel(h) == \E i \in Ids, w \in Weights : DeployModel(h, i, w)

rollbackModel(h) == \E i \in Ids : RollbackModel(h, i)

ModelRequest(h) == registerModel(h) \/ promoteModel(h) \/ deployModel(h) \/ rollbackModel(h)

ServingStep(h) == requestServing(h) \/ Deployed(h) \/ DeleteDeployment(h)
=============================================================================
