-------------------------- MODULE FunctionPipeline --------------------------
(***************************************************************************)
(* The function engine of the gateway: dispatchPipeline for runs in mode   *)
(* "functions" and executeFunctionPipeline                                 *)
(* (go/internal/httpapi/pipeline_dispatch.go), with the run record it      *)
(* reports to.                                                             *)
(*                                                                         *)
(* The executor works in waves.  The goroutine of the run starts one       *)
(* goroutine for each ready job, waits for all of them, and goes on unless *)
(* one failed.  A job's goroutine reports "running", reads the outputs of  *)
(* its dependencies, calls the function up to Retries + 1 times and then   *)
(* reports the outcome.  Users cancel and retry runs and change the        *)
(* definition at any time; a gateway may stop and lose its executors.      *)
(*                                                                         *)
(* Outputs are left out: an output is there when its job is in completed.  *)
(* OpenFaaS is external: an invocation ends with an answer or an error,    *)
(* after five minutes at the latest.                                       *)
(***************************************************************************)
EXTENDS RunSteps, PipelineGraph

CONSTANTS
  RunIds,
  Definitions,    \* the graphs a user may store
  Retries,        \* Retries of every job
  MaxFaults,      \* bound on repository calls that fail (PostgreSQL only)
  MaxUpdates,     \* bound on updates of the definition
  MaxCrashes      \* bound on gateway restarts

ASSUME FunctionAssumption ==
  /\ \A def \in Definitions : DOMAIN def \subseteq Jobs /\ Valid(def)
  /\ Retries \in Nat /\ MaxFaults \in Nat
  /\ MaxUpdates \in Nat /\ MaxCrashes \in Nat

VARIABLES
  definition,     \* the stored definition
  configured,     \* OPENFAAS_URL is set
  runs,           \* run id -> [status, progress, steps]
  exec,           \* run id -> the state of its dispatch and executor
  faults, updates, crashes

counters == <<faults, updates, crashes>>
vars == <<definition, configured, runs, exec, counters>>

\* The goroutine of a job, by its next step; "waiting" before its wave and
\* "failed" or "done" once it has returned.
JobPc == {"waiting", "report-running", "read-outputs", "invoke", "invoking",
          "store-output", "report-succeeded", "report-failed", "failed", "done"}

Returned == {"waiting", "failed", "done"}

\* executeFunctionPipeline's variables: its copy of the definition, the jobs
\* not yet started and the completed ones, and the goroutines.
Exec(phase, def) ==
  [phase |-> phase, def |-> def, remaining |-> DOMAIN def, completed |-> {},
   pc |-> [j \in DOMAIN def |-> "waiting"],
   attempts |-> [j \in DOMAIN def |-> 0]]

Init ==
  /\ definition \in Definitions
  /\ configured \in BOOLEAN
  /\ runs = <<>>
  /\ exec = [r \in RunIds |-> Exec("none", <<>>)]
  /\ faults = 0 /\ updates = 0 /\ crashes = 0

-----------------------------------------------------------------------------
\* The repository.

queuedRun(steps) == [status |-> "queued", progress |-> 0, steps |-> steps]

addRun(r, run) ==
  runs' = [q \in DOMAIN runs \cup {r} |-> IF q = r THEN run ELSE runs[q]]

\* UpdateRunStep, whose error the engine ignores: the report is applied, or
\* lost when the repository fails.
report(r, name, status) ==
  \/ /\ runs' = [runs EXCEPT ![r] = StepReported(@, name, status)]
     /\ UNCHANGED faults
  \/ /\ faults < MaxFaults
     /\ faults' = faults + 1
     /\ UNCHANGED runs

submitPipeline(r) ==
  /\ r \notin DOMAIN runs
  /\ addRun(r, queuedRun(stepsFromDefinition(DOMAIN definition)))
  /\ exec' = [exec EXCEPT ![r] = Exec("dispatch", <<>>)]
  /\ UNCHANGED <<definition, configured, counters>>

\* The retry has the steps of the run it retries.
retryRun(r, new) ==
  /\ r \in DOMAIN runs
  /\ new \notin DOMAIN runs
  /\ addRun(new, queuedRun(resetSteps(runs[r].steps)))
  /\ exec' = [exec EXCEPT ![new] = Exec("dispatch", <<>>)]
  /\ UNCHANGED <<definition, configured, counters>>

\* The run has no engine id, so cancelling is the store's CancelRun alone.
cancelRun(r) ==
  /\ r \in DOMAIN runs
  /\ runs[r].status \notin {"succeeded", "failed"}
  /\ runs' = [runs EXCEPT ![r] = Cancelled(@)]
  /\ UNCHANGED <<definition, configured, exec, counters>>

upsertPipelineDefinition(def) ==
  /\ updates < MaxUpdates
  /\ definition' = def
  /\ updates' = updates + 1
  /\ UNCHANGED <<configured, runs, exec, faults, crashes>>

-----------------------------------------------------------------------------
\* dispatchPipeline, after the run was stored.

\* The definition cannot be read.
loadFailed(r) ==
  /\ exec[r].phase = "dispatch"
  /\ faults < MaxFaults
  /\ runs' = [runs EXCEPT ![r] = StepReported(@, "load-definition", "failed")]
  /\ exec' = [exec EXCEPT ![r].phase = "returned"]
  /\ faults' = faults + 1
  /\ UNCHANGED <<definition, configured, updates, crashes>>

\* Without OpenFaaS the first job of the definition is reported failed.
notConfigured(r, first) ==
  /\ exec[r].phase = "dispatch" /\ ~configured
  /\ first \in DOMAIN definition
  /\ report(r, first, "failed")
  /\ exec' = [exec EXCEPT ![r].phase = "returned"]
  /\ UNCHANGED <<definition, configured, updates, crashes>>

startExecutor(r) ==
  /\ exec[r].phase = "dispatch" /\ configured
  /\ exec' = [exec EXCEPT ![r] = Exec("executing", definition)]
  /\ UNCHANGED <<definition, configured, runs, counters>>

-----------------------------------------------------------------------------
\* The executor's own goroutine.

\* Mutation: one dependency is enough.
ReadyOnAny(e) == {j \in e.remaining : e.def[j] = {} \/ e.def[j] \cap e.completed # {}}

\* Mutation: the loop only sees jobs without dependencies.
ReadyRoots(e) == {j \in e.remaining : e.def[j] = {}}

Ready(e) == {j \in e.remaining : e.def[j] \subseteq e.completed}

\* Mutation: the last report of a job is not waited for.
waitedEarly(e) ==
  \A j \in DOMAIN e.def : e.pc[j] \in Returned \cup {"report-succeeded"}

\* wait.Wait() returns.
waited(e) == \A j \in DOMAIN e.def : e.pc[j] \in Returned

\* Mutation: the failed flag is not looked at.
stoppedNever(e) == e.remaining = {}

\* The loop ends: a job of the last wave failed, or none is left.
stopped(e) ==
  e.remaining = {} \/ \E j \in DOMAIN e.def : e.pc[j] = "failed"

\* One turn of the loop: start the ready jobs, or give up when none is.
wave(r) ==
  LET e == exec[r] IN
  /\ e.phase = "executing" /\ waited(e)
  /\ IF stopped(e)
     THEN /\ exec' = [exec EXCEPT ![r].phase = "returned"]
          /\ UNCHANGED <<runs, faults>>
     ELSE IF Ready(e) = {}
     THEN /\ report(r, "orchestrator", "failed")
          /\ exec' = [exec EXCEPT ![r].phase = "returned"]
     ELSE /\ exec' = [exec EXCEPT
               ![r].remaining = @ \ Ready(e),
               ![r].pc = [j \in DOMAIN e.def |->
                            IF j \in Ready(e) THEN "report-running" ELSE @[j]]]
          /\ UNCHANGED <<runs, faults>>
  /\ UNCHANGED <<definition, configured, updates, crashes>>

-----------------------------------------------------------------------------
\* The goroutine of job j of run r.

at(r, j, pc) ==
  /\ exec[r].phase = "executing"
  /\ j \in DOMAIN exec[r].def
  /\ exec[r].pc[j] = pc

goto(r, j, pc) == exec' = [exec EXCEPT ![r].pc[j] = pc]

reportRunning(r, j) ==
  /\ at(r, j, "report-running")
  /\ report(r, j, "running")
  /\ goto(r, j, "read-outputs")
  /\ UNCHANGED <<definition, configured, updates, crashes>>

readOutputs(r, j) ==
  /\ at(r, j, "read-outputs")
  /\ goto(r, j, "invoke")
  /\ UNCHANGED <<definition, configured, runs, counters>>

invoke(r, j) ==
  /\ at(r, j, "invoke")
  /\ exec' = [exec EXCEPT ![r].pc[j] = "invoking", ![r].attempts[j] = @ + 1]
  /\ UNCHANGED <<definition, configured, runs, counters>>

\* Mutation: success is reported before the output is stored.
answerReportFirst(r, j) ==
  /\ at(r, j, "invoking")
  /\ report(r, j, "succeeded")
  /\ goto(r, j, "store-output")
  /\ UNCHANGED <<definition, configured, updates, crashes>>

answer(r, j) ==
  /\ at(r, j, "invoking")
  /\ goto(r, j, "store-output")
  /\ UNCHANGED <<definition, configured, runs, counters>>

\* attempt <= job.Retries, for the attempts made so far.
again(attempts) == attempts <= Retries

\* Mutation: each error restarts the count of attempts.
invocationFailedRestarting(r, j) ==
  /\ at(r, j, "invoking")
  /\ exec' = [exec EXCEPT ![r].pc[j] = "invoke", ![r].attempts[j] = 0]
  /\ UNCHANGED <<definition, configured, runs, counters>>

\* An error or a timeout: the next attempt, or the failed report.
invocationFailed(r, j) ==
  /\ at(r, j, "invoking")
  /\ goto(r, j, IF again(exec[r].attempts[j]) THEN "invoke" ELSE "report-failed")
  /\ UNCHANGED <<definition, configured, runs, counters>>

\* The failed flag that follows is only read after wait.Wait().
reportFailed(r, j) ==
  /\ at(r, j, "report-failed")
  /\ report(r, j, "failed")
  /\ goto(r, j, "failed")
  /\ UNCHANGED <<definition, configured, updates, crashes>>

storeOutput(r, j) ==
  /\ at(r, j, "store-output")
  /\ exec' = [exec EXCEPT ![r].pc[j] = "report-succeeded",
                          ![r].completed = @ \cup {j}]
  /\ UNCHANGED <<definition, configured, runs, counters>>

\* Mutation: the goroutine returns without its last report.
reportSucceededSkipped(r, j) ==
  /\ at(r, j, "report-succeeded")
  /\ goto(r, j, "done")
  /\ UNCHANGED <<definition, configured, runs, counters>>

reportSucceeded(r, j) ==
  /\ at(r, j, "report-succeeded")
  /\ report(r, j, "succeeded")
  /\ goto(r, j, "done")
  /\ UNCHANGED <<definition, configured, updates, crashes>>

-----------------------------------------------------------------------------

\* The gateway restarts: dispatches and executors are gone, nothing resumes
\* them.
crash ==
  /\ crashes < MaxCrashes
  /\ crashes' = crashes + 1
  /\ exec' = [r \in RunIds |->
                IF exec[r].phase \in {"dispatch", "executing"}
                THEN [exec[r] EXCEPT !.phase = "lost"] ELSE exec[r]]
  /\ UNCHANGED <<definition, configured, runs, faults, updates>>

dispatch(r) ==
  loadFailed(r) \/ startExecutor(r) \/ \E j \in Jobs : notConfigured(r, j)

jobStep(r, j) ==
  \/ reportRunning(r, j) \/ readOutputs(r, j) \/ invoke(r, j)
  \/ answer(r, j) \/ invocationFailed(r, j)
  \/ reportFailed(r, j) \/ storeOutput(r, j) \/ reportSucceeded(r, j)

engineStep(r) == dispatch(r) \/ wave(r) \/ \E j \in Jobs : jobStep(r, j)

userStep ==
  \/ \E r \in RunIds : submitPipeline(r) \/ cancelRun(r)
  \/ \E r, new \in RunIds : retryRun(r, new)
  \/ \E def \in Definitions : upsertPipelineDefinition(def)

Next == userStep \/ crash \/ \E r \in RunIds : engineStep(r)

\* The handler and every goroutine keep running, and the invocation timeout
\* ends every call; nobody has to submit, cancel, retry or crash.
Fairness ==
  \A r \in RunIds :
    /\ WF_vars(dispatch(r)) /\ WF_vars(wave(r))
    /\ \A j \in Jobs : WF_vars(jobStep(r, j))

Spec == Init /\ [][Next]_vars /\ Fairness

-----------------------------------------------------------------------------
Started(r, j) == exec[r].pc[j] # "waiting"

\* "run ready jobs concurrently while preserving dependency ordering": a job
\* starts only when every dependency has completed, so the outputs it reads
\* are all there.
DependencyOrder ==
  \A r \in RunIds : \A j \in DOMAIN exec[r].def :
    Started(r, j) => exec[r].def[j] \subseteq exec[r].completed

\* The stored run agrees: when a job starts, the steps of its dependencies
\* read "succeeded", because the wave waits for the last report as well.
\* Runs that are already terminal, and lost reports, are excepted.
ReportedOrder ==
  \A r \in DOMAIN runs : \A j \in DOMAIN exec[r].def :
    faults = 0 /\ updates = 0 /\ runs[r].status \notin Terminal /\ Started(r, j) =>
      \A d \in exec[r].def[j] : runs[r].steps[d].status = "succeeded"

\* No job is started after one of its wave has failed.
FailureStopsWaves ==
  [][\A r \in RunIds :
       exec[r].phase = "executing"
       /\ (\E j \in DOMAIN exec[r].def : exec[r].pc[j] = "failed") =>
         exec'[r].remaining = exec[r].remaining]_vars

\* A validated definition never reaches "pipeline graph cannot make
\* progress": when the loop looks for ready jobs after a wave without
\* failure, there is one.
AlwaysProgress ==
  \A r \in RunIds :
    exec[r].phase = "executing" /\ waited(exec[r]) /\ ~stopped(exec[r]) =>
      Ready(exec[r]) # {}

\* A run that reads "succeeded" has executed every job of its definition,
\* also when reports were lost or the gateway restarted.
SucceededMeansExecuted ==
  \A r \in DOMAIN runs :
    runs[r].status = "succeeded" =>
      /\ DOMAIN exec[r].def # {}
      /\ exec[r].completed = DOMAIN exec[r].def

\* The same as long as the definition is not replaced under its runs.
SucceededUnlessReplaced == updates = 0 => SucceededMeansExecuted

\* Every submitted run reaches a terminal status, unless a report was lost,
\* the gateway restarted or the definition changed under the run.
RunsFinish ==
  [](faults = 0 /\ updates = 0 /\ crashes = 0) =>
    \A r \in RunIds :
      (r \in DOMAIN runs) ~> (r \in DOMAIN runs /\ runs[r].status \in Terminal)

\* Every executor that is not lost in a restart returns, also that of a run
\* that was cancelled or whose reports were lost.
ExecutorsReturn ==
  \A r \in RunIds :
    (exec[r].phase = "executing") ~> (exec[r].phase \in {"returned", "lost"})
=============================================================================
