------------------------------ MODULE Delivery ------------------------------
(***************************************************************************)
(* From a change of the control plane to the cluster: the gateway commits  *)
(* grants, runs, promotions and agents, the relays carry the commands to   *)
(* Kafka, and the Dispatcher of each integration worker creates, updates   *)
(* or deletes the custom resources that the operator reconciles.  A        *)
(* command whose dispatch fails is logged and dropped.  Tools and          *)
(* connections, whose objects no controller reads, are left out.           *)
(***************************************************************************)
EXTENDS Outbox, Operator

VARIABLES
  grant,       \* the stored access grant of a subject, or Absent
  read         \* read[p]: what the Dispatcher's Get returned: "nothing", Absent or "found"

vars == <<outboxVars, clusterVars, grant, read>>

Init == OutboxInit /\ OperatorInit /\ grant = Absent /\ read = [p \in Partitions |-> "nothing"]

-----------------------------------------------------------------------------
(* The gateway. *)

UpsertUserAccess(m) ==
  /\ m.kind = "user_access" /\ m.verb = "upserted"
  /\ write(m)
  /\ grant' = m.payload

DeleteUserAccess(m) ==
  /\ m.kind = "user_access" /\ m.verb = "deleted"
  /\ grant # Absent
  /\ write(m)
  /\ grant' = Absent

OtherWrite(m) == m.kind # "user_access" /\ write(m) /\ UNCHANGED grant

Gateway ==
  /\ \E m \in Mutations : UpsertUserAccess(m) \/ DeleteUserAccess(m) \/ OtherWrite(m)
  /\ UNCHANGED <<clusterVars, read>>

Relay(g) == Flush(g) /\ UNCHANGED <<clusterVars, grant, read>>

-----------------------------------------------------------------------------
(* The integration worker. *)

Command(p) == rows[Head(todo[p])]

ResourceKind(m) ==
  CASE m.kind = "user_access" -> "NexusWorkspace"
    [] m.kind = "agent" -> "NexusAgent"
    [] m.kind = "pipeline_run" -> "NexusPipelineRun"
    [] m.kind = "model" /\ m.verb = "promoted" -> "NexusModelPromotion"
    [] OTHER -> "none"

NewStatus(k) ==
  CASE k = "NexusPipelineRun" -> [phase |-> "", ref |-> ""]
    [] k = "NexusModelPromotion" -> [phase |-> ""]
    [] OTHER -> [phase |-> "", seen |-> Absent]

\* What objects of a kind may look like, and what the operator makes of them.
Specs(k) == {m.payload : m \in {c \in Mutations : ResourceKind(c) = k /\ c.verb # "deleted"}}

Phases == {"", "Failed", "Ready", "Suspended", "Submitting", "Running", "Succeeded"}

Statuses(k) ==
  CASE k = "NexusPipelineRun" -> [phase : Phases, ref : {"", "workflow"}]
    [] k = "NexusModelPromotion" -> [phase : Phases]
    [] OTHER -> [phase : Phases, seen : Specs(k) \cup {Absent}]

Objects(k) == [spec : Specs(k), finalizer : BOOLEAN, live : BOOLEAN, status : Statuses(k)]

Workspaces ==
  [disk : Int, secret : BOOLEAN, replicas : {0, 1}, service : SUBSET {"workbench", "ide"}, live : BOOLEAN,
   pods : {<<>>} \cup {containers(spec) : spec \in Specs("NexusWorkspace")}]

\* DeployAgent stores a replica at least, and PromoteModel a stage that MLflow has.
ASSUME DeliveryAssumption ==
  /\ Partitions \cap {"cache", "reconcile"} = {}
  /\ Absent \notin Workspaces /\ \A k \in CRKinds : Absent \notin Objects(k)
  /\ \A spec \in Specs("NexusWorkspace") : spec.vcpus \in Int /\ spec.disk \in Int
  /\ \A spec \in Specs("NexusAgent") : spec.version \in Versions /\ spec.replicas \in Nat \ {0}
  /\ \A spec \in Specs("NexusModelPromotion") : spec.version \in Versions /\ spec.stage \in DOMAIN stageName

Return(p) ==
  /\ todo' = [todo EXCEPT ![p] = Tail(@)]
  /\ read' = [read EXCEPT ![p] = "nothing"]

\* An unsupported kind, or an action on a model other than its promotion.
DispatchNothing(p) ==
  /\ ResourceKind(Command(p)) = "none"
  /\ Return(p)
  /\ UNCHANGED <<clusterVars, inOrder>>

\* Mutant: a deleted grant is not passed on.
DispatchDeleteIgnored(p) ==
  /\ Command(p).kind = "user_access" /\ Command(p).verb = "deleted"
  /\ Return(p)
  /\ UNCHANGED <<clusterVars, inOrder>>

DispatchDelete(p) ==
  /\ Command(p).kind = "user_access" /\ Command(p).verb = "deleted"
  /\ IF cr["NexusWorkspace"] = Absent THEN UNCHANGED clusterVars ELSE DeleteWorkspace
  /\ Return(p)
  /\ UNCHANGED inOrder

DispatchGet(p) ==
  LET k == ResourceKind(Command(p))
  IN /\ k # "none" /\ Command(p).verb # "deleted" /\ read[p] = "nothing"
     /\ read' = [read EXCEPT ![p] = IF cr[k] = Absent THEN Absent ELSE "found"]
     /\ fresh' = [fresh EXCEPT ![k] = IF cr[k] = Absent THEN @ ELSE @ \cup {p}]
     /\ UNCHANGED <<cr, cached, queue, active, calling, childVars, todo, inOrder>>

\* Update replaces the metadata and leaves the status, a subresource, alone.  It
\* fails when the object changed since Get, and Create when there is one.
DispatchPut(p) ==
  LET k == ResourceKind(Command(p))
      refused == IF read[p] = Absent THEN cr[k] # Absent ELSE p \notin fresh[k]
  IN /\ read[p] # "nothing"
     /\ IF refused THEN UNCHANGED <<cr, fresh>>
        ELSE Put(k, [spec |-> Command(p).payload, finalizer |-> FALSE, live |-> TRUE,
                     status |-> IF read[p] = Absent THEN NewStatus(k) ELSE cr[k].status], p)
     /\ inOrder' = (inOrder /\ ~refused)
     /\ Return(p)
     /\ UNCHANGED <<cached, queue, active, calling, childVars>>

Dispatch(p) ==
  /\ todo[p] # <<>>
  /\ DispatchNothing(p) \/ DispatchDelete(p) \/ DispatchGet(p) \/ DispatchPut(p)
  /\ UNCHANGED <<relayVars, topic, faults, grant>>

Worker(p) == Dispatch(p) \/ (Poll(p) /\ UNCHANGED <<clusterVars, grant, read>>)

\* The API server refuses or loses a call.
DispatchFails(p) ==
  /\ todo[p] # <<>> /\ Fault /\ inOrder' = FALSE
  /\ Return(p)
  /\ UNCHANGED <<relayVars, topic, clusterVars, grant>>

-----------------------------------------------------------------------------
(* The operator. *)

Reconcile(k) ==
  /\ \/ Get(k)
     \/ k = "NexusWorkspace" /\ (failWorkspace \/ ReconcileWorkspace(4))
     \/ k = "NexusAgent" /\ (AddFinalizer \/ ReconcileAgent(2))
     \/ k = "NexusPipelineRun" /\ (StartSubmit \/ AlreadySubmitted \/ Submit(FALSE))
     \/ k = "NexusModelPromotion" /\ (AlreadyPromoted \/ ReconcilePromotion(2))
  /\ UNCHANGED <<outboxVars, grant, read>>

\* A call that a Reconcile makes fails.
ReconcileFails ==
  /\ Fault
  /\ \/ \E n \in 0..3 : ReconcileWorkspace(n)
     \/ \E n \in 0..1 : ReconcileAgent(n) \/ ReconcilePromotion(n)
     \/ Submit(TRUE)
  /\ UNCHANGED <<relayVars, topic, todo, inOrder, grant, read>>

Informer(k) == watchEvent(k) /\ UNCHANGED <<outboxVars, grant, read>>

Collector == collectGarbage /\ UNCHANGED <<outboxVars, grant, read>>

Failures ==
  \/ \E g \in Relays : (MarkFailed(g) \/ FlushStops(g)) /\ UNCHANGED <<clusterVars, grant, read>>
  \/ \E p \in Partitions : \/ DispatchFails(p)
                           \/ WorkerStops(p) /\ read' = [read EXCEPT ![p] = "nothing"]
                              /\ UNCHANGED <<clusterVars, grant>>
  \/ ReconcileFails

Next ==
  \/ Gateway \/ Failures \/ Collector
  \/ \E g \in Relays : Relay(g)
  \/ \E p \in Partitions : Worker(p)
  \/ \E k \in CRKinds : Reconcile(k) \/ Informer(k)

Fairness ==
  /\ \A g \in Relays : WF_vars(Relay(g))
  /\ \A p \in Partitions : WF_vars(Worker(p))
  /\ \A k \in CRKinds : WF_vars(Reconcile(k)) /\ WF_vars(Informer(k))
  /\ WF_vars(Collector)

Spec == Init /\ [][Next]_vars /\ Fairness

-----------------------------------------------------------------------------
(* Properties *)

Idle(k) == "cache" \in fresh[k] /\ k \notin queue /\ active[k] = Absent

WorkspaceMatches(spec) ==
  LET interactive == spec.services \cap {"workbench", "ide"}
  IN /\ workspace # Absent /\ workspace.live /\ workspace.secret
     /\ workspace.disk >= spec.disk
     /\ workspace.replicas = IF spec.disabled \/ interactive = {} THEN 0 ELSE 1
     /\ workspace.service = DOMAIN workspace.pods /\ workspace.service = interactive

\* Level-triggered reconciliation: an object that no controller has still to look
\* at is in the state its specification asks for, whatever order events, stale
\* reads, conflicts and failed calls came in.
OperatorConverges ==
  /\ Idle("NexusWorkspace") =>
       IF cr["NexusWorkspace"] = Absent THEN workspace = Absent \/ ~workspace.live
       ELSE /\ WorkspaceMatches(cr["NexusWorkspace"].spec)
            /\ cr["NexusWorkspace"].status.seen = cr["NexusWorkspace"].spec
  /\ Idle("NexusAgent") /\ cr["NexusAgent"] # Absent =>
       LET spec == cr["NexusAgent"].spec IN agents[spec.version] = [replicas |-> spec.replicas, service |-> TRUE]
  /\ Idle("NexusPipelineRun") /\ cr["NexusPipelineRun"] # Absent => submitted
  /\ Idle("NexusModelPromotion") /\ cr["NexusModelPromotion"] # Absent => \E v \in inference : mlflow[v] # "None"

\* The claim of a workspace never shrinks while the workspace exists, also when
\* the grant does: the PVC is only ever enlarged.
DiskNeverShrinks ==
  [][workspace # Absent /\ workspace' # Absent => workspace'.disk >= workspace.disk]_vars

\* Without reordering or loss, the workspace ends up as the grant says: running,
\* suspended or gone.
WorkspaceFollowsGrant ==
  <>[](inOrder => IF grant = Absent THEN workspace = Absent
                  ELSE Valid(grant) => WorkspaceMatches(grant))
=============================================================================
