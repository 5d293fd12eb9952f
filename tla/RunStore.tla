------------------------------ MODULE RunStore ------------------------------
(***************************************************************************)
(* Pipeline runs and pipeline definitions as the file-backed Store keeps   *)
(* them (go/internal/store/store.go, workloads.go).  Every method holds    *)
(* the store's mutex from its first read to its last write, so each is one *)
(* atomic action.  This is also the abstract specification the PostgreSQL  *)
(* repository is compared with (PgRunStore).                               *)
(*                                                                         *)
(* A call that is refused changes nothing and is a stuttering step; a      *)
(* failed save reports an error after the change was made in memory.       *)
(* Run, definition and project ids come from UnixNano under the mutex and  *)
(* are never reused.  Names, versions, parameters and logs are left out; a *)
(* definition is addressed by its id, whether the caller gave the id or    *)
(* the store found it by project, name and version.                        *)
(***************************************************************************)
EXTENDS RunSteps

CONSTANTS
  ProjectIds,     \* ids of projects
  DefIds,         \* ids of pipeline definitions
  RunIds,         \* ids of pipeline runs
  EngineIds,      \* flow-run ids of the execution engine
  StepNames,      \* every name a step report may carry
  TemplateSteps,  \* the steps of the built-in training pipeline
  JobSets,        \* the job-name sets a definition may have
  None,           \* the empty definition id, parent id or engine id
  DemoProject,    \* the project New() seeds an empty store with
  DemoRun,        \* the run New() seeds an empty store with
  Seeded          \* TRUE for the file store; Postgres starts empty

ASSUME ConstantsAssumption ==
  /\ TemplateSteps \subseteq StepNames
  /\ JobSets \subseteq SUBSET StepNames
  /\ TemplateSteps # {} /\ {} \notin JobSets
  /\ IsFiniteSet(StepNames)
  /\ None \notin DefIds /\ None \notin RunIds /\ None \notin EngineIds
  /\ DemoProject \in ProjectIds /\ DemoRun \in RunIds
  /\ Seeded \in BOOLEAN

VARIABLES
  projects,       \* ids of the projects that exist
  definitions,    \* definition id -> [project, mode, jobs]
  runs            \* run id -> run record

vars == <<projects, definitions, runs>>

Mode == {"", "prefect", "functions"}

Definition ==
  [project : ProjectIds, mode : {"prefect", "functions"}, jobs : JobSets]

Run == [project    : ProjectIds,
        definition : DefIds \cup {None},
        mode       : Mode,
        parent     : RunIds \cup {None},
        engine     : EngineIds \cup {None},
        status     : RunStatus,
        progress   : 0..100,
        steps      : UNION {[S -> Step] : S \in SUBSET StepNames}]

\* f with key k set to v, whether or not k was there.
Put(f, k, v) == [x \in DOMAIN f \cup {k} |-> IF x = k THEN v ELSE f[x]]

-----------------------------------------------------------------------------

NewRun(p, d, mode, parent, steps) ==
  [project |-> p, definition |-> d, mode |-> mode, parent |-> parent,
   engine |-> None, status |-> "queued", progress |-> 0, steps |-> steps]

\* The run-demo entry of New().
SeedRun ==
  [project |-> DemoProject, definition |-> None, mode |-> "", parent |-> None,
   engine |-> None, status |-> "succeeded", progress |-> 100,
   steps |-> defaultSteps(TemplateSteps, "succeeded")]

Init ==
  /\ projects = IF Seeded THEN {DemoProject} ELSE {}
  /\ definitions = <<>>
  /\ runs = IF Seeded THEN [r \in {DemoRun} |-> SeedRun] ELSE <<>>

CreateProject(p) ==
  /\ p \notin projects
  /\ projects' = projects \cup {p}
  /\ UNCHANGED <<definitions, runs>>

\* Mutation: an update takes over the request's project.
UpsertPipelineDefinitionMoving(d, p, mode, jobs) ==
  /\ p \in projects
  /\ definitions' = Put(definitions, d,
                        [project |-> p, mode |-> mode, jobs |-> jobs])
  /\ UNCHANGED <<projects, runs>>

\* An update keeps the definition's project whatever project the request
\* names; it replaces mode and jobs.
UpsertPipelineDefinition(d, p, mode, jobs) ==
  /\ p \in projects
  /\ definitions' =
       Put(definitions, d,
           [project |-> IF d \in DOMAIN definitions
                        THEN definitions[d].project ELSE p,
            mode |-> mode, jobs |-> jobs])
  /\ UNCHANGED <<projects, runs>>

\* Submission without a definition uses the training template, submission
\* with one requires it to belong to the same project.
SubmitPipeline(r, p, d) ==
  /\ r \notin DOMAIN runs
  /\ p \in projects
  /\ \/ /\ d = None
        /\ runs' = Put(runs, r, NewRun(p, None, "prefect", None,
                                 defaultSteps(TemplateSteps, "pending")))
     \/ /\ d \in DOMAIN definitions
        /\ definitions[d].project = p
        /\ runs' = Put(runs, r, NewRun(p, d, definitions[d].mode, None,
                                 stepsFromDefinition(definitions[d].jobs)))
  /\ UNCHANGED <<projects, definitions>>

\* Only succeeded and failed runs are refused; a cancelled run may be
\* cancelled again.
CancelRun(r) ==
  /\ r \in DOMAIN runs
  /\ runs[r].status \notin {"succeeded", "failed"}
  /\ runs' = [runs EXCEPT ![r] = Cancelled(@)]
  /\ UNCHANGED <<projects, definitions>>

\* Mutation: the execution mode is not carried over.
RetriedDefaultMode(previous, r) ==
  NewRun(previous.project, previous.definition, "prefect", r,
         resetSteps(previous.steps))

Retried(previous, r) ==
  NewRun(previous.project, previous.definition, previous.mode, r,
         resetSteps(previous.steps))

\* Mutation: the retry resets the run itself.
RetryRunInPlace(r, new) ==
  /\ r \in DOMAIN runs
  /\ new \notin DOMAIN runs
  /\ runs' = [runs EXCEPT ![r] = Retried(@, @.parent)]
  /\ UNCHANGED <<projects, definitions>>

\* A run in any state may be retried; the retry is a new run.
RetryRun(r, new) ==
  /\ r \in DOMAIN runs
  /\ new \notin DOMAIN runs
  /\ runs' = Put(runs, new, Retried(runs[r], r))
  /\ UNCHANGED <<projects, definitions>>

EngineLinked(run, e) == [run EXCEPT !.engine = e]

SetRunEngine(r, e) ==
  /\ r \in DOMAIN runs
  /\ runs' = [runs EXCEPT ![r] = EngineLinked(@, e)]
  /\ UNCHANGED <<projects, definitions>>

UpdateRunStep(r, name, status) ==
  /\ r \in DOMAIN runs
  /\ runs' = [runs EXCEPT ![r] = StepReported(@, name, status)]
  /\ UNCHANGED <<projects, definitions>>

Next ==
  \/ \E p \in ProjectIds : CreateProject(p)
  \/ \E d \in DefIds, p \in ProjectIds, jobs \in JobSets,
        mode \in {"prefect", "functions"} :
       UpsertPipelineDefinition(d, p, mode, jobs)
  \/ \E r \in RunIds, p \in ProjectIds, d \in DefIds \cup {None} :
       SubmitPipeline(r, p, d)
  \/ \E r \in RunIds : CancelRun(r)
  \/ \E r, new \in RunIds : RetryRun(r, new)
  \/ \E r \in RunIds, e \in EngineIds : SetRunEngine(r, e)
  \/ \E r \in RunIds, n \in StepNames, s \in StepStatus :
       UpdateRunStep(r, n, s)

Spec == Init /\ [][Next]_vars

-----------------------------------------------------------------------------
\* Types of the stored values.
TypeOK ==
  /\ projects \subseteq ProjectIds
  /\ DOMAIN definitions \subseteq DefIds
  /\ \A d \in DOMAIN definitions : definitions[d] \in Definition
  /\ DOMAIN runs \subseteq RunIds
  /\ \A r \in DOMAIN runs : runs[r] \in Run

\* The run's status and progress are those of its steps.
MatchesSteps(run) ==
  /\ DOMAIN run.steps # {}
  /\ run.status = "failed" <=> AnyFailed(run.steps)
  /\ run.status = "succeeded" <=> AllFinished(run.steps)
  /\ run.status = "queued" => ~AnyStarted(run.steps)
  /\ run.progress = runProgress(run.steps)

\* A run always says what its steps say: it has failed exactly when a step
\* has, succeeded exactly when every step finished, is queued only while
\* nothing started, and its progress is the finished share of its steps.
\* Late reports, cancellation and retries of any run never separate the two.
RunMatchesSteps == \A r \in DOMAIN runs : MatchesSteps(runs[r])

\* A progress of 100 is shown for succeeded runs and for no other: the
\* integer division never rounds an unfinished run up, and no run that was
\* cancelled or failed on its last step reads as complete.
FullProgressMeansSucceeded ==
  \A r \in DOMAIN runs :
    runs[r].progress = 100 <=> runs[r].status = "succeeded"

\* A run and the definition it was compiled from stay in one project, also
\* after the definition was updated by a request that names another project
\* and after the run was retried.
DefinitionInProject ==
  \A r \in DOMAIN runs :
    runs[r].definition # None =>
      /\ runs[r].definition \in DOMAIN definitions
      /\ definitions[runs[r].definition].project = runs[r].project

\* A retry descends from a stored run of the same project, definition and
\* execution mode that existed before it.
RetryLineage ==
  \A r \in DOMAIN runs :
    LET p == runs[r].parent IN
    p # None =>
      /\ p \in DOMAIN runs \ {r}
      /\ runs[p].parent # r
      /\ runs[p].project = runs[r].project
      /\ runs[p].definition = runs[r].definition
      /\ runs[p].mode = runs[r].mode

\* What a reader sees of a run's outcome.
Outcome(run) == <<run.status, run.progress, run.steps>>

\* "Terminal runs keep their state; late reports are only logged."
TerminalRunsKeepState ==
  [][\A r \in DOMAIN runs :
       runs[r].status \in Terminal =>
         /\ r \in DOMAIN runs'
         /\ Outcome(runs'[r]) = Outcome(runs[r])]_vars

\* No run is ever lost or queued again, and a step once listed stays listed:
\* a retry never rewinds the run it came from.
RunsMoveForward ==
  [][\A r \in DOMAIN runs :
       /\ r \in DOMAIN runs'
       /\ DOMAIN runs[r].steps \subseteq DOMAIN runs'[r].steps
       /\ runs'[r].status = "queued" => runs[r].status = "queued"]_vars

=============================================================================
