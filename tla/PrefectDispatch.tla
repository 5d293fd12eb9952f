-------------------------- MODULE PrefectDispatch ---------------------------
(***************************************************************************)
(* Pipeline runs executed by Prefect: the submit, retry and cancel         *)
(* handlers of the gateway (go/internal/httpapi/server.go,                 *)
(* pipeline_dispatch.go), the flow that reports its steps back             *)
(* (python/pipelines/report.py, training.py), and the run record in the    *)
(* file store, each of whose methods is atomic.                            *)
(*                                                                         *)
(* A handler calls Prefect between two calls of the store, so the flow and *)
(* other requests act in between.  A call to Prefect may fail before or    *)
(* after Prefect acted on it, and a restart of the gateway ends its        *)
(* handlers wherever they are.  A report that times out after five seconds *)
(* is given up by the flow; the gateway may never see it, or see it later. *)
(* Prefect itself is external: it starts the flow some time after it was   *)
(* created and stops it some time after a cancellation.                    *)
(***************************************************************************)
EXTENDS RunSteps, Sequences

CONSTANTS
  RunIds,
  FlowSteps,     \* the steps of the training flow, in order
  MaxFaults      \* bound on failed calls, lost or late reports, restarts

ASSUME PrefectAssumption ==
  /\ FlowSteps \in Seq(STRING) /\ Len(FlowSteps) > 0
  /\ \A i, j \in 1..Len(FlowSteps) : FlowSteps[i] = FlowSteps[j] => i = j
  /\ MaxFaults \in Nat

VARIABLES
  configured,    \* PREFECT_API_URL is set
  runs,          \* run id -> [status, progress, steps, linked]
  handler,       \* run id -> where its dispatchPipeline call is
  flow,          \* run id -> its flow run in Prefect
  cancelling,    \* the runs whose cancel handler is about to call Prefect
  late,          \* reports the flow gave up on that are still under way
  faults

vars == <<configured, runs, handler, flow, cancelling, late, faults>>

TemplateSteps == {FlowSteps[i] : i \in 1..Len(FlowSteps)}

\* The flow run created for a run: its life in Prefect, the step it is at,
\* what it does next in the reported_step bracket, and whether Prefect was
\* asked to cancel it.
Flow == [state : {"absent", "scheduled", "executing", "completed", "failed",
                  "cancelled"},
         at    : 1..Len(FlowSteps) + 1,
         next  : {"report-running", "work", "report-succeeded", "report-failed"},
         stop  : BOOLEAN]

NoFlow == [state |-> "absent", at |-> 1, next |-> "report-running", stop |-> FALSE]

Alive(r) == flow[r].state \in {"scheduled", "executing"}

Init ==
  /\ configured \in BOOLEAN
  /\ runs = <<>>
  /\ handler = [r \in RunIds |-> "none"]
  /\ flow = [r \in RunIds |-> NoFlow]
  /\ cancelling = {} /\ late = {} /\ faults = 0

fault == faults < MaxFaults /\ faults' = faults + 1

-----------------------------------------------------------------------------
\* Requests of users.

accept(r, steps) ==
  /\ r \notin DOMAIN runs
  /\ runs' = [q \in DOMAIN runs \cup {r} |->
                IF q = r THEN [status |-> "queued", progress |-> 0,
                               steps |-> steps, linked |-> FALSE]
                ELSE runs[q]]
  /\ handler' = [handler EXCEPT ![r] = "dispatch"]
  /\ UNCHANGED <<configured, flow, cancelling, late, faults>>

submitPipeline(r) == accept(r, defaultSteps(TemplateSteps, "pending"))

retryRun(r, new) ==
  r \in DOMAIN runs /\ accept(new, resetSteps(runs[r].steps))

\* The stored cancellation, and the decision to call Prefect from the run
\* that CancelRun returned.
cancelRun(r) ==
  /\ r \in DOMAIN runs
  /\ runs[r].status \notin {"succeeded", "failed"}
  /\ runs' = [runs EXCEPT ![r] = Cancelled(@)]
  /\ cancelling' = IF runs[r].linked /\ configured
                   THEN cancelling \cup {r} ELSE cancelling
  /\ UNCHANGED <<configured, handler, flow, late, faults>>

\* CancelFlowRun succeeds, or its failure is logged.
cancelFlowRun(r) ==
  /\ r \in cancelling
  /\ cancelling' = cancelling \ {r}
  /\ \/ flow' = [flow EXCEPT ![r].stop = TRUE] /\ UNCHANGED faults
     \/ fault /\ UNCHANGED flow
  /\ UNCHANGED <<configured, runs, handler, late>>

-----------------------------------------------------------------------------
\* dispatchPipeline for mode "prefect".

\* Without an engine the run stays queued.
notConfigured(r) ==
  /\ handler[r] = "dispatch" /\ ~configured
  /\ handler' = [handler EXCEPT ![r] = "returned"]
  /\ UNCHANGED <<configured, runs, flow, cancelling, late, faults>>

flowCreated(r) == flow' = [flow EXCEPT ![r].state = "scheduled"]

\* CreateFlowRun returns the id of the flow run.
createFlowRun(r) ==
  /\ handler[r] = "dispatch" /\ configured
  /\ flowCreated(r)
  /\ handler' = [handler EXCEPT ![r] = "link"]
  /\ UNCHANGED <<configured, runs, cancelling, late, faults>>

\* Mutation: the error of CreateFlowRun is not reported.
createFailedSilently(r) ==
  /\ handler[r] = "dispatch" /\ configured
  /\ UNCHANGED <<runs, flow, faults>>
  /\ handler' = [handler EXCEPT ![r] = "returned"]
  /\ UNCHANGED <<configured, cancelling, late>>

\* CreateFlowRun returns an error: Prefect refused, or (a fault) it created
\* the flow run and the answer did not arrive.
createFailed(r) ==
  /\ handler[r] = "dispatch" /\ configured
  /\ \/ UNCHANGED <<flow, faults>>
     \/ fault /\ flowCreated(r)
  /\ runs' = [runs EXCEPT ![r] = StepReported(@, "submit-to-engine", "failed")]
  /\ handler' = [handler EXCEPT ![r] = "returned"]
  /\ UNCHANGED <<configured, cancelling, late>>

\* Mutation: the flow run id is not stored.
setRunEngineForgotten(r) ==
  /\ handler[r] = "link"
  /\ handler' = [handler EXCEPT ![r] = "returned"]
  /\ UNCHANGED <<configured, runs, flow, cancelling, late, faults>>

setRunEngine(r) ==
  /\ handler[r] = "link"
  /\ runs' = [runs EXCEPT ![r].linked = TRUE]
  /\ handler' = [handler EXCEPT ![r] = "returned"]
  /\ UNCHANGED <<configured, flow, cancelling, late, faults>>

-----------------------------------------------------------------------------
\* The flow.

\* report_step: the gateway applies the report, or it times out.
report(r, status) ==
  LET name == FlowSteps[flow[r].at] IN
  \/ /\ runs' = [runs EXCEPT ![r] = StepReported(@, name, status)]
     /\ UNCHANGED <<late, faults>>
  \/ fault /\ UNCHANGED <<runs, late>>
  \/ fault /\ late' = late \cup {<<r, name, status>>} /\ UNCHANGED runs

lateReport(r, name, status) ==
  /\ <<r, name, status>> \in late
  /\ late' = late \ {<<r, name, status>>}
  /\ runs' = [runs EXCEPT ![r] = StepReported(@, name, status)]
  /\ UNCHANGED <<configured, handler, flow, cancelling, faults>>

startFlow(r) ==
  /\ flow[r].state = "scheduled"
  /\ flow' = [flow EXCEPT ![r].state = "executing"]
  /\ UNCHANGED <<configured, runs, handler, cancelling, late, faults>>

executing(r, next) == flow[r].state = "executing" /\ flow[r].next = next

\* Mutation: the bracket reports success before the step's body runs.
reportRunningAsSucceeded(r) ==
  /\ executing(r, "report-running")
  /\ report(r, "succeeded")
  /\ flow' = [flow EXCEPT ![r].next = "work"]
  /\ UNCHANGED <<configured, handler, cancelling>>

reportRunning(r) ==
  /\ executing(r, "report-running")
  /\ report(r, "running")
  /\ flow' = [flow EXCEPT ![r].next = "work"]
  /\ UNCHANGED <<configured, handler, cancelling>>

\* The body of the step, which may raise.
work(r) ==
  /\ executing(r, "work")
  /\ \E next \in {"report-succeeded", "report-failed"} :
       flow' = [flow EXCEPT ![r].next = next]
  /\ UNCHANGED <<configured, runs, handler, cancelling, late, faults>>

\* Mutation: the last step's success is not reported.
reportSucceededButLast(r) ==
  /\ executing(r, "report-succeeded")
  /\ IF flow[r].at = Len(FlowSteps) THEN UNCHANGED <<runs, late, faults>>
                                    ELSE report(r, "succeeded")
  /\ flow' = [flow EXCEPT
       ![r].at = @ + 1, ![r].next = "report-running",
       ![r].state = IF flow[r].at = Len(FlowSteps) THEN "completed" ELSE @]
  /\ UNCHANGED <<configured, handler, cancelling>>

reportSucceeded(r) ==
  /\ executing(r, "report-succeeded")
  /\ report(r, "succeeded")
  /\ flow' = [flow EXCEPT
       ![r].at = @ + 1, ![r].next = "report-running",
       ![r].state = IF flow[r].at = Len(FlowSteps) THEN "completed" ELSE @]
  /\ UNCHANGED <<configured, handler, cancelling>>

reportFailed(r) ==
  /\ executing(r, "report-failed")
  /\ report(r, "failed")
  /\ flow' = [flow EXCEPT ![r].state = "failed"]
  /\ UNCHANGED <<configured, handler, cancelling>>

\* Prefect stops a flow it was asked to cancel.
stopFlow(r) ==
  /\ Alive(r) /\ flow[r].stop
  /\ flow' = [flow EXCEPT ![r].state = "cancelled"]
  /\ UNCHANGED <<configured, runs, handler, cancelling, late, faults>>

-----------------------------------------------------------------------------

\* The gateway restarts: the store is on disk, the handlers are gone.
gatewayStops ==
  /\ fault
  /\ handler' = [r \in RunIds |->
                   IF handler[r] \in {"dispatch", "link"} THEN "lost" ELSE handler[r]]
  /\ cancelling' = {}
  /\ UNCHANGED <<configured, runs, flow, late>>

dispatch(r) ==
  notConfigured(r) \/ createFlowRun(r) \/ createFailed(r) \/ setRunEngine(r)

flowStep(r) ==
  \/ startFlow(r) \/ reportRunning(r) \/ work(r)
  \/ reportSucceeded(r) \/ reportFailed(r) \/ stopFlow(r)

Next ==
  \/ \E r \in RunIds : submitPipeline(r) \/ cancelRun(r) \/ cancelFlowRun(r)
  \/ \E r, new \in RunIds : retryRun(r, new)
  \/ \E r \in RunIds : dispatch(r) \/ flowStep(r)
  \/ \E r \in RunIds, name \in TemplateSteps, s \in StepStatus :
       lateReport(r, name, s)
  \/ gatewayStops

\* Handlers and flows keep running; nobody has to submit, cancel or retry.
Fairness ==
  \A r \in RunIds : WF_vars(dispatch(r)) /\ WF_vars(flowStep(r))
                    /\ WF_vars(cancelFlowRun(r))

Spec == Init /\ [][Next]_vars /\ Fairness

-----------------------------------------------------------------------------
\* A run that reads "succeeded" had a flow that finished every step, however
\* many reports were lost or arrived late and out of order.
SucceededMeansCompleted ==
  \A r \in DOMAIN runs :
    runs[r].status = "succeeded" => flow[r].state = "completed"

\* "If the engine rejects the submission, the run is marked failed": once the
\* handler returned, a run that has no flow is terminal, not left waiting.
FailClosed ==
  configured =>
    \A r \in DOMAIN runs :
      handler[r] = "returned" /\ flow[r].state = "absent" =>
        runs[r].status \in Terminal

\* A run whose handler returned and that is not failed knows its flow: a
\* cancellation from then on reaches Prefect.
LinkedWhenDispatched ==
  configured =>
    \A r \in DOMAIN runs :
      handler[r] = "returned" /\ Alive(r) /\ runs[r].status \notin Terminal =>
        runs[r].linked

\* Without faults a run on the template of the flow always ends: the flow
\* reports every step the run waits for.
TemplateRunsFinish ==
  [](configured /\ faults = 0) =>
    \A r \in RunIds :
      (r \in DOMAIN runs /\ DOMAIN runs[r].steps = TemplateSteps)
        ~> (r \in DOMAIN runs /\ runs[r].status \in Terminal)

\* "Cancellation is authoritative in the control plane and also propagates to
\* Prefect to stop the actual execution": when the handlers of a cancelled
\* run have returned, its flow is over or has been told to stop.
CancelPropagates ==
  \A r \in DOMAIN runs :
    runs[r].status = "cancelled" /\ handler[r] = "returned" /\ r \notin cancelling
      => ~Alive(r) \/ flow[r].stop
=============================================================================
