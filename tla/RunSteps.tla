------------------------------ MODULE RunSteps ------------------------------
(***************************************************************************)
(* What a step report does to a pipeline run: the pure part of             *)
(* go/internal/store/store.go and workloads.go that the file store, the    *)
(* PostgreSQL store and the function executor share.                       *)
(*                                                                         *)
(* A run's steps are a function from step names to their state.  The code  *)
(* keeps a slice in which names are unique: definitions are validated for  *)
(* it and a report only appends a name it did not find.  The slice order   *)
(* is for display.  Logs, images and time stamps are left out.             *)
(***************************************************************************)
EXTENDS Integers, FiniteSets

StepStatus == {"pending", "running", "succeeded", "failed", "skipped"}

\* A step counts as completed in either of these states.
Finished == {"succeeded", "skipped"}

RunStatus == {"queued", "running", "succeeded", "failed", "cancelled"}

Terminal == {"cancelled", "failed", "succeeded"}

Step == [status : StepStatus, progress : {0, 100}]

PendingStep == [status |-> "pending", progress |-> 0]

\* defaultSteps(status): the four-step template of the training flow.
defaultSteps(names, status) ==
  [n \in names |-> [status   |-> status,
                    progress |-> IF status = "succeeded" THEN 100 ELSE 0]]

\* One pending step for each job of a definition.
stepsFromDefinition(jobs) == [n \in jobs |-> PendingStep]

\* A retry starts from the parent's steps, all of them pending again.
resetSteps(previous) == [n \in DOMAIN previous |-> PendingStep]

-----------------------------------------------------------------------------

\* The step is updated if it exists and appended if not.  Its progress
\* becomes 100 when it completes and is otherwise left as it was.
upsertStep(steps, name, status) ==
  LET before == IF name \in DOMAIN steps THEN steps[name].progress ELSE 0
      after  == IF status \in Finished THEN 100 ELSE before
  IN  [n \in DOMAIN steps \cup {name} |->
         IF n = name THEN [status |-> status, progress |-> after]
                     ELSE steps[n]]

\* Mutation: a failed step is counted as completed.
CompletedOrFailed(steps) ==
  {n \in DOMAIN steps : steps[n].status \in Finished \cup {"failed"}}

Completed(steps) == {n \in DOMAIN steps : steps[n].status \in Finished}

AnyFailed(steps) == \E n \in DOMAIN steps : steps[n].status = "failed"

AllFinished(steps) == \A n \in DOMAIN steps : steps[n].status \in Finished

AnyStarted(steps) ==
  \E n \in DOMAIN steps : steps[n].status \in Finished \cup {"running"}

\* completed * 100 / len(run.Steps), in integers.
runProgress(steps) ==
  (100 * Cardinality(Completed(steps))) \div Cardinality(DOMAIN steps)

\* Mutation: the running case of the switch comes before the failed one.
runStatusRunningFirst(before, steps) ==
  IF AllFinished(steps) THEN "succeeded"
  ELSE IF AnyStarted(steps) THEN "running"
  ELSE IF AnyFailed(steps) THEN "failed"
  ELSE before

\* The switch at the end of applyStepTransition; with nothing started the
\* status stays what it was.
runStatus(before, steps) ==
  IF AnyFailed(steps) THEN "failed"
  ELSE IF AllFinished(steps) THEN "succeeded"
  ELSE IF AnyStarted(steps) THEN "running"
  ELSE before

\* Upsert the step, then recompute the run's status and progress.
applyStepTransition(run, name, status) ==
  LET steps == upsertStep(run.steps, name, status)
      after == runStatus(run.status, steps)
  IN  [run EXCEPT !.steps    = steps,
                  !.status   = after,
                  !.progress = IF after = "succeeded" THEN 100
                                                      ELSE runProgress(steps)]

\* Mutation: late reports are applied.
StepReportedAlways(run, name, status) == applyStepTransition(run, name, status)

\* A report about a run in a terminal state is only logged.
StepReported(run, name, status) ==
  IF run.status \in Terminal THEN run
                             ELSE applyStepTransition(run, name, status)

Cancelled(run) == [run EXCEPT !.status = "cancelled"]
=============================================================================
