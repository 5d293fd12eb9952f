----------------------------- MODULE PgRunStore -----------------------------
(***************************************************************************)
(* Pipeline runs and definitions as the PostgreSQL repository keeps them   *)
(* (go/internal/store/postgres.go, workloads.go).  A method reads the      *)
(* resource with a query of its own (get, list, exists), computes the new  *)
(* value in the gateway and writes it with write(), one transaction that   *)
(* upserts the whole payload without looking at what it replaces.  Calls   *)
(* of several clients, and of several gateway replicas, interleave between *)
(* the read and the write.                                                 *)
(*                                                                         *)
(* The tables are the variables of RunStore, whose Spec is the abstract    *)
(* specification.  The audit and outbox rows of the same transaction are   *)
(* left out here.                                                          *)
(***************************************************************************)
EXTENDS RunStore

CONSTANTS Clients     \* concurrent callers of the repository

\* The migrations seed nothing.
ASSUME EmptyAtFirst == ~Seeded

VARIABLES
  pending,            \* client -> the write() it is about to make, or Idle
  overtaken           \* clients whose write() follows one committed after their read

pgVars == <<projects, definitions, runs, pending, overtaken>>

Idle == [kind |-> "idle"]

Write(kind, id, value) == [kind |-> kind, id |-> id, value |-> value]

PgInit ==
  /\ projects = {} /\ definitions = <<>> /\ runs = <<>>
  /\ pending = [c \in Clients |-> Idle] /\ overtaken = {}

\* The read half of a method: the client now holds the value to write.
Read(c, w) ==
  /\ pending[c] = Idle
  /\ pending' = [pending EXCEPT ![c] = w]
  /\ UNCHANGED <<projects, definitions, runs, overtaken>>

\* No call has been given this id yet.
Unused(kind, id) ==
  \A c \in Clients : pending[c].kind = kind => pending[c].id # id

PgCreateProject(c, p) ==
  /\ p \notin projects /\ Unused("project", p)
  /\ Read(c, Write("project", p, None))

\* Projects are never deleted and a definition keeps its project, so the
\* check for the project and the read of the definition are one step.
PgUpsertPipelineDefinition(c, d, p, mode, jobs) ==
  /\ p \in projects
  /\ \/ d \in DOMAIN definitions
     \/ d \notin DOMAIN definitions /\ Unused("pipeline_definition", d)
  /\ Read(c, Write("pipeline_definition", d,
                   [project |-> IF d \in DOMAIN definitions
                                THEN definitions[d].project ELSE p,
                    mode |-> mode, jobs |-> jobs]))

FreshRun(r) == r \notin DOMAIN runs /\ Unused("pipeline_run", r)

PgSubmitPipeline(c, r, p, d) ==
  /\ FreshRun(r)
  /\ p \in projects
  /\ \/ /\ d = None
        /\ Read(c, Write("pipeline_run", r,
                     NewRun(p, None, "prefect", None,
                            defaultSteps(TemplateSteps, "pending"))))
     \/ /\ d \in DOMAIN definitions
        /\ definitions[d].project = p
        /\ Read(c, Write("pipeline_run", r,
                     NewRun(p, d, definitions[d].mode, None,
                            stepsFromDefinition(definitions[d].jobs))))

\* Mutation: a completed run is not refused.
PgCancelRunAnyStatus(c, r) ==
  /\ r \in DOMAIN runs
  /\ Read(c, Write("pipeline_run", r, Cancelled(runs[r])))

PgCancelRun(c, r) ==
  /\ r \in DOMAIN runs
  /\ runs[r].status \notin {"succeeded", "failed"}
  /\ Read(c, Write("pipeline_run", r, Cancelled(runs[r])))

PgRetryRun(c, r, new) ==
  /\ r \in DOMAIN runs
  /\ FreshRun(new)
  /\ Read(c, Write("pipeline_run", new, Retried(runs[r], r)))

PgSetRunEngine(c, r, e) ==
  /\ r \in DOMAIN runs
  /\ Read(c, Write("pipeline_run", r, EngineLinked(runs[r], e)))

\* A report about a terminal run rewrites the run as it was read.
PgUpdateRunStep(c, r, name, status) ==
  /\ r \in DOMAIN runs
  /\ Read(c, Write("pipeline_run", r, StepReported(runs[r], name, status)))

\* The transaction of write() commits: an upsert of the whole payload.
Commit(c) ==
  /\ pending[c] # Idle
  /\ pending' = [pending EXCEPT ![c] = Idle]
  /\ overtaken' = {b \in Clients \ {c} : pending[b] # Idle}
  /\ \/ /\ pending[c].kind = "project"
        /\ projects' = projects \cup {pending[c].id}
        /\ UNCHANGED <<definitions, runs>>
     \/ /\ pending[c].kind = "pipeline_definition"
        /\ definitions' = Put(definitions, pending[c].id, pending[c].value)
        /\ UNCHANGED <<projects, runs>>
     \/ /\ pending[c].kind = "pipeline_run"
        /\ runs' = Put(runs, pending[c].id, pending[c].value)
        /\ UNCHANGED <<projects, definitions>>

\* The transaction rolls back, or the gateway stops before it.
Rollback(c) ==
  /\ pending[c] # Idle
  /\ pending' = [pending EXCEPT ![c] = Idle]
  /\ overtaken' = overtaken \ {c}
  /\ UNCHANGED <<projects, definitions, runs>>

Call(c) ==
  \/ \E p \in ProjectIds : PgCreateProject(c, p)
  \/ \E d \in DefIds, p \in ProjectIds, jobs \in JobSets,
        mode \in {"prefect", "functions"} :
       PgUpsertPipelineDefinition(c, d, p, mode, jobs)
  \/ \E r \in RunIds, p \in ProjectIds, d \in DefIds \cup {None} :
       PgSubmitPipeline(c, r, p, d)
  \/ \E r \in RunIds : PgCancelRun(c, r)
  \/ \E r, new \in RunIds : PgRetryRun(c, r, new)
  \/ \E r \in RunIds, e \in EngineIds : PgSetRunEngine(c, r, e)
  \/ \E r \in RunIds, n \in StepNames, s \in StepStatus :
       PgUpdateRunStep(c, r, n, s)

PgNext == \E c \in Clients : Call(c) \/ Commit(c) \/ Rollback(c)

PgSpec == PgInit /\ [][PgNext]_pgVars

-----------------------------------------------------------------------------
\* The repository is the file store as long as no write() overtakes another:
\* every commit is the corresponding method of RunStore on the stored value, unless
\* another caller committed since this one's get().
ImplementsFileStore == Init /\ [][Next \/ \E c \in overtaken : Commit(c)]_vars
=============================================================================
