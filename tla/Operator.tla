------------------------------ MODULE Operator ------------------------------
(***************************************************************************)
(* The custom resources of the cluster and the controllers of cmd/operator *)
(* that reconcile them, one object of each kind.  A controller reads an    *)
(* object from its cache, writes the children and then the status; an      *)
(* error queues the object again.  The cache follows the API server by     *)
(* watch events, each of which queues the object.  A resourceVersion is    *)
(* kept as the set of those who hold the latest one: only they may update. *)
(* Labels, images, environments and ports are left out.                    *)
(***************************************************************************)
EXTENDS Integers, FiniteSets, FiniteSetsExt

CONSTANTS
  Versions,    \* versions of the agent and of the model
  Absent       \* an object that does not exist

VARIABLES
  cr,          \* cr[k]: the custom resource in the API server, or Absent
  cached,      \* cached[k]: the same in the operator's cache
  fresh,       \* fresh[k]: who holds its latest version
  queue,       \* objects the controllers have yet to look at
  active,      \* active[k]: the object a running Reconcile works on, or Absent
  calling,     \* the pipeline controller is about to call KFP
  workspace,   \* the children of the NexusWorkspace, or Absent
  agents,      \* agents[v]: the Deployment and the Service of a version
  submitted,   \* the NexusPipelineRun became a run in KFP
  mlflow,      \* mlflow[v]: stage of a version of the model
  inference    \* versions with an InferenceService

apiVars == <<cr, cached, fresh, queue, active>>
childVars == <<workspace, agents, submitted, mlflow, inference>>
clusterVars == <<apiVars, calling, childVars>>

CRKinds == {"NexusWorkspace", "NexusAgent", "NexusPipelineRun", "NexusModelPromotion"}

OperatorInit ==
  /\ cr = [k \in CRKinds |-> Absent] /\ cached = cr /\ active = cr
  /\ fresh = [k \in CRKinds |-> {"cache"}] /\ queue = {} /\ calling = FALSE
  /\ workspace = Absent /\ submitted = FALSE
  /\ agents = [v \in Versions |-> [replicas |-> 0, service |-> FALSE]]
  /\ mlflow = [v \in Versions |-> "None"] /\ inference = {}

-----------------------------------------------------------------------------
(* The API server. *)

\* Writing what is there already changes nothing.
Put(k, object, client) ==
  /\ cr' = [cr EXCEPT ![k] = object]
  /\ fresh' = IF object = cr[k] THEN fresh ELSE [fresh EXCEPT ![k] = {client}]

\* A copy of a deleted object is an owner that does not live any more.
Dead(object) == IF object = Absent THEN Absent ELSE [object EXCEPT !.live = FALSE]

\* The children outlive their owner until the garbage collector finds them.
DeleteWorkspace ==
  LET k == "NexusWorkspace"
  IN /\ cr' = [cr EXCEPT ![k] = Absent]
     /\ fresh' = [fresh EXCEPT ![k] = {}]
     /\ cached' = [cached EXCEPT ![k] = Dead(@)]
     /\ active' = [active EXCEPT ![k] = Dead(@)]
     /\ workspace' = Dead(workspace)
     /\ UNCHANGED <<queue, calling, agents, submitted, mlflow, inference>>

collectGarbage ==
  /\ workspace # Absent /\ ~workspace.live
  /\ workspace' = Absent
  /\ UNCHANGED <<apiVars, calling, agents, submitted, mlflow, inference>>

watchEvent(k) ==
  /\ "cache" \notin fresh[k]
  /\ cached' = [cached EXCEPT ![k] = cr[k]]
  /\ fresh' = [fresh EXCEPT ![k] = @ \cup {"cache"}]
  /\ queue' = queue \cup {k}
  /\ UNCHANGED <<cr, active, calling, childVars>>

-----------------------------------------------------------------------------
(* Every Reconcile begins with Get and ends with an update of the status.  *)

Get(k) ==
  /\ k \in queue /\ active[k] = Absent
  /\ queue' = queue \ {k}
  /\ active' = [active EXCEPT ![k] = cached[k]]
  /\ fresh' = [fresh EXCEPT ![k] = IF "cache" \in @ THEN @ \cup {"reconcile"} ELSE @ \ {"reconcile"}]
  /\ UNCHANGED <<cr, cached, calling, childVars>>

Current(k) == cr[k] # Absent /\ "reconcile" \in fresh[k]

\* Mutant: an error does not queue the object again.
FinishForGood(k, status, error) ==
  /\ active' = [active EXCEPT ![k] = Absent]
  /\ IF Current(k) THEN Put(k, [cr[k] EXCEPT !.status = status], "reconcile")
     ELSE UNCHANGED <<cr, fresh>>
  /\ UNCHANGED <<cached, queue>>

Finish(k, status, error) ==
  /\ active' = [active EXCEPT ![k] = Absent]
  /\ IF Current(k) THEN Put(k, [cr[k] EXCEPT !.status = status], "reconcile")
     ELSE UNCHANGED <<cr, fresh>>
  /\ queue' = IF error THEN queue \cup {k} ELSE queue
  /\ UNCHANGED cached

-----------------------------------------------------------------------------
(* WorkspaceReconciler *)

\* The pod's containers with their share of the granted CPU.
containers(spec) ==
  LET assigned == spec.services \cap {"workbench", "ide"}
  IN [s \in assigned |-> (spec.vcpus * 1000) \div Cardinality(assigned)]

workspacePorts(services) == services \cap {"workbench", "ide"}

NoChildren == [disk |-> 0, secret |-> FALSE, replicas |-> 0, pods |-> <<>>, service |-> {}, live |-> TRUE]

\* Mutant: the claim follows the grant down.
ChildrenShrink(a, old, n) ==
  LET pods == containers(a.spec)
  IN [disk |-> IF n >= 1 THEN a.spec.disk ELSE old.disk, secret |-> n >= 2 \/ old.secret,
      replicas |-> IF a.spec.disabled \/ DOMAIN pods = {} THEN 0 ELSE 1,
      pods |-> pods, service |-> DOMAIN pods, live |-> a.live]

\* The children after the first n of the four calls that write them.
Children(a, old, n) ==
  LET pods == containers(a.spec)
  IN [disk     |-> IF n >= 1 THEN Max({a.spec.disk, old.disk}) ELSE old.disk,
      secret   |-> n >= 2 \/ old.secret,
      replicas |-> IF n < 3 THEN old.replicas
                   ELSE IF a.spec.disabled \/ DOMAIN pods = {} THEN 0 ELSE 1,
      pods     |-> IF n >= 3 THEN pods ELSE old.pods,
      service  |-> IF n >= 4 THEN workspacePorts(a.spec.services) ELSE old.service,
      live     |-> IF n >= 1 THEN a.live ELSE old.live]

Valid(spec) == spec.vcpus >= 1 /\ spec.disk >= 1

failWorkspace ==
  LET a == active["NexusWorkspace"]
  IN /\ a # Absent /\ ~Valid(a.spec)
     /\ Finish("NexusWorkspace", [a.status EXCEPT !.phase = "Failed"], TRUE)
     /\ UNCHANGED <<calling, childVars>>

WorkspaceStatus(spec) == [phase |-> IF spec.disabled THEN "Suspended" ELSE "Ready", seen |-> spec]

ReconcileWorkspace(n) ==
  LET a   == active["NexusWorkspace"]
      old == IF workspace = Absent THEN NoChildren ELSE workspace
      new == Children(a, old, n)
  IN /\ a # Absent /\ Valid(a.spec)
     /\ workspace' = IF n = 0 THEN workspace ELSE new
     /\ IF n < 4 THEN Finish("NexusWorkspace", a.status, TRUE)
        ELSE Finish("NexusWorkspace", WorkspaceStatus(a.spec), cr["NexusWorkspace"] = Absent)
     /\ UNCHANGED <<calling, agents, submitted, mlflow, inference>>

-----------------------------------------------------------------------------
(* AgentReconciler: the children are named after the version, so those of  *)
(* earlier versions stay.                                                  *)

AddFinalizer ==
  LET k == "NexusAgent"
  IN /\ active[k] # Absent /\ ~active[k].finalizer
     /\ IF Current(k)
        THEN /\ Put(k, [cr[k] EXCEPT !.finalizer = TRUE], "reconcile")
             /\ active' = [active EXCEPT ![k].finalizer = TRUE]
             /\ UNCHANGED <<cached, queue>>
        ELSE Finish(k, active[k].status, TRUE)
     /\ UNCHANGED <<calling, childVars>>

\* The operator's plan: specifications are valid, since DeployAgent stores a
\* replica at least and SetAgentTraffic a weight in range.
AgentPlan(spec) == [replicas |-> Max({1, spec.replicas})]

\* n counts the children written, the Deployment and the Service.
ReconcileAgent(n) ==
  LET a == active["NexusAgent"]
  IN /\ a # Absent /\ a.finalizer
     /\ agents' = [agents EXCEPT ![a.spec.version] =
                     [replicas |-> IF n >= 1 THEN AgentPlan(a.spec).replicas ELSE @.replicas,
                      service  |-> n >= 2 \/ @.service]]
     /\ Finish("NexusAgent", IF n < 2 THEN a.status ELSE [phase |-> "Ready", seen |-> a.spec], n < 2)
     /\ UNCHANGED <<calling, workspace, submitted, mlflow, inference>>

-----------------------------------------------------------------------------
(* PipelineReconciler: the status says Submitting since now, KFP is called, *)
(* and the status stores the reference.                                    *)

StartSubmit ==
  LET k == "NexusPipelineRun"
  IN /\ active[k] # Absent /\ ~calling /\ active[k].status.ref = ""
     /\ calling' = TRUE
     /\ IF Current(k)
        THEN /\ cr' = [cr EXCEPT ![k].status.phase = "Submitting"]
             /\ fresh' = [fresh EXCEPT ![k] = {"reconcile"}]
        ELSE UNCHANGED <<cr, fresh>>
     /\ UNCHANGED <<cached, queue, active, childVars>>

AlreadySubmitted ==
  LET a == active["NexusPipelineRun"]
  IN /\ a # Absent /\ a.status.ref # ""
     /\ Finish("NexusPipelineRun", a.status, FALSE)
     /\ UNCHANGED <<calling, childVars>>

\* A failed call may have had its effect.
KFPSubmit(error) == submitted' \in {TRUE} \cup (IF error THEN {submitted} ELSE {})

Submit(error) ==
  /\ calling /\ calling' = FALSE /\ KFPSubmit(error)
  /\ Finish("NexusPipelineRun",
            IF error THEN [phase |-> "Failed", ref |-> ""] ELSE [phase |-> "Running", ref |-> "workflow"],
            error \/ ~Current("NexusPipelineRun"))
  /\ UNCHANGED <<workspace, agents, mlflow, inference>>

-----------------------------------------------------------------------------
(* ModelPromotionReconciler: the stage in MLflow, then the InferenceService. *)

AlreadyPromoted ==
  LET a == active["NexusModelPromotion"]
  IN /\ a # Absent /\ a.status.phase = "Succeeded"
     /\ Finish("NexusModelPromotion", a.status, FALSE)
     /\ UNCHANGED <<calling, childVars>>

stageName == [staging |-> "Staging", production |-> "Production", archived |-> "Archived"]

\* MLflow archives the other versions in production.
TransitionStage(version, stage, error) ==
  LET staged == [v \in Versions |-> CASE v = version -> stage
                                      [] v # version /\ stage = "Production" /\ mlflow[v] = stage -> "Archived"
                                      [] OTHER -> mlflow[v]]
  IN mlflow' \in {staged} \cup (IF error THEN {mlflow} ELSE {})

\* n counts the calls that succeeded, TransitionStage and Create.
ReconcilePromotion(n) ==
  LET k == "NexusModelPromotion"
      a == active[k]
  IN /\ a # Absent /\ a.status.phase # "Succeeded"
     /\ TransitionStage(a.spec.version, stageName[a.spec.stage], n = 0)
     /\ inference' = IF n = 2 THEN inference \cup {a.spec.version} ELSE inference
     /\ Finish(k, CASE n = 0 -> [phase |-> "Failed"] [] n = 1 -> a.status [] n = 2 -> [phase |-> "Succeeded"],
               n < 2 \/ ~Current(k))
     /\ UNCHANGED <<calling, workspace, agents, submitted>>
=============================================================================
