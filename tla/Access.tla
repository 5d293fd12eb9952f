------------------------------- MODULE Access -------------------------------
(***************************************************************************)
(* Access grants, quotas, access requests and functions: the handlers of   *)
(* the gateway that check a subject's grant and then change the            *)
(* repository, and OpenFaaS.  A handler authenticates and checks in one    *)
(* step and stores in a later one, so other handlers come in between.  A   *)
(* method of the file store is one step; in PostgreSQL it reads in one     *)
(* step and writes in another (the write of the job).  Requests that are   *)
(* refused change nothing.  Names, images and e-mail are left out; how a   *)
(* run executes is in FunctionPipeline and PrefectDispatch.                *)
(***************************************************************************)
EXTENDS Integers, FiniteSets, FiniteSetsExt

CONSTANTS
  Handlers,        \* requests served at the same time
  Subjects,        \* users; the administrator is another principal
  Projects, Runs, RequestIds,   \* ids, numbers in the order they are made
  Names,           \* of functions
  Demo,            \* the project that a new file store starts with
  GrantRequests,   \* what an administrator may ask for
  MaxFaults,       \* bound on failed calls and restarts
  Absent

VARIABLES
  repository,  \* "file" or "postgres"
  access,      \* access[s]: the grant of a subject, or Absent
  projects,    \* projects[p]: the owner of a project, or Absent
  runs,        \* runs[r]: [project, by, active], or Absent
  functions,   \* functions[n]: [project, owner], or Absent
  openfaas,    \* names of the functions that OpenFaaS has
  requests,    \* requests[q]: [subject, status], or Absent
  job,         \* job[h]: what handler h is about to do, or Absent
  disturbed,   \* names with overlapping deployments and deletions, or a lost deletion
  faults

stored == <<access, projects, runs, functions, requests>>
vars == <<repository, stored, openfaas, job, disturbed, faults>>

Init ==
  /\ repository \in {"file", "postgres"}
  /\ access = [s \in Subjects |-> Absent]
  /\ projects = [p \in Projects |-> IF repository = "file" /\ p = Demo THEN "nobody" ELSE Absent]
  /\ runs = [r \in Runs |-> Absent]
  /\ functions = [n \in Names |-> Absent] /\ openfaas = {}
  /\ requests = [q \in RequestIds |-> Absent]
  /\ job = [h \in Handlers |-> Absent] /\ disturbed = {} /\ faults = 0

-----------------------------------------------------------------------------
(* Grants *)

ResourceProfiles ==
  [starter |-> [projects |-> 2, runs |-> 1, functions |-> 3],
   team    |-> [projects |-> 5, runs |-> 3, functions |-> 10],
   power   |-> [projects |-> 10, runs |-> 6, functions |-> 25],
   gpu     |-> [projects |-> 10, runs |-> 4, functions |-> 15]]

\* A named profile replaces the limits asked for.
applyResourceProfile(req) ==
  IF req.profile \in DOMAIN ResourceProfiles THEN ResourceProfiles[req.profile] ELSE req.max

validateAccess(req) ==
  /\ req.profile \in DOMAIN ResourceProfiles \cup {"custom"}
  /\ \A limit \in {"projects", "runs", "functions"} : applyResourceProfile(req)[limit] >= 0

Grant(req) == [max |-> applyResourceProfile(req), disabled |-> req.disabled, projects |-> req.projects]

Who == Subjects \cup {"admin"}
Function == [project : Projects, owner : Who]

\* Subjects are neither the administrator nor the owner of the first project, and
\* a valid grant is asked for.
ASSUME AccessAssumption ==
  /\ IsFiniteSet(Handlers) /\ Handlers # {}
  /\ Absent \notin Who \cup Function \cup [at : {"DeleteFunction"}, name : Names]
  /\ "admin" \notin Subjects /\ "nobody" \notin Subjects \cup {Absent}
  /\ IsFiniteSet(GrantRequests) /\ \E req \in GrantRequests : validateAccess(req)
  /\ \A req \in GrantRequests : req.max \in [projects : Int, runs : Int, functions : Int]

UpsertUserAccess(s, req) ==
  /\ validateAccess(req)
  /\ access' = [access EXCEPT ![s] = Grant(req)]
  /\ UNCHANGED <<repository, projects, runs, functions, openfaas, requests, job, disturbed, faults>>

DeleteUserAccess(s) ==
  /\ access[s] # Absent
  /\ access' = [access EXCEPT ![s] = Absent]
  /\ UNCHANGED <<repository, projects, runs, functions, openfaas, requests, job, disturbed, faults>>

Administrator == [subject |-> "admin", privileged |-> TRUE, projects |-> {}]

\* Administrators keep their own access.
upsertUserAccess ==
  \E s \in Subjects \ {Administrator.subject}, req \in GrantRequests : UpsertUserAccess(s, req)

deleteUserAccess == \E s \in Subjects \ {Administrator.subject} : DeleteUserAccess(s)

-----------------------------------------------------------------------------
(* Authorization *)

\* Who may be making a request: RBAC denies subjects that are not provisioned.
Principals ==
  {Administrator} \cup
  {[subject |-> s, privileged |-> FALSE, projects |-> access[s].projects] :
     s \in {u \in Subjects : access[u] # Absent /\ ~access[u].disabled}}

Owned(s) == {p \in Projects : projects[p] = s}

allowedProjectIDs(who) ==
  IF who.privileged THEN Projects ELSE who.projects \cup Owned(who.subject)

projectAllowed(who, p) == p \in allowedProjectIDs(who)

functionAllowed(who, n) ==
  IF functions[n] # Absent THEN projectAllowed(who, functions[n].project) ELSE who.privileged

ActiveRuns(ps) == {r \in Runs : runs[r] # Absent /\ runs[r].active /\ runs[r].project \in ps}

OwnFunctions(s) == {n \in Names : functions[n] # Absent /\ functions[n].owner = s}

\* Privileged principals have no quota.
Below(who, count, kind) == IF who.privileged THEN TRUE ELSE count < access[who.subject].max[kind]

\* Mutant: the quota is reached one project too late.
enforceProjectQuotaLate(who) == Below(who, Cardinality(Owned(who.subject)) - 1, "projects")

enforceProjectQuota(who) == Below(who, Cardinality(Owned(who.subject)), "projects")

\* Mutant: only runs in the projects of the grant count.
enforceRunQuotaOfGrant(who) == Below(who, Cardinality(ActiveRuns(who.projects)), "runs")

enforceRunQuota(who) == Below(who, Cardinality(ActiveRuns(allowedProjectIDs(who))), "runs")

\* Mutant: only functions in the projects of the grant count.
enforceFunctionQuotaOfGrant(who) ==
  Below(who, Cardinality({n \in OwnFunctions(who.subject) : functions[n].project \in who.projects}), "functions")

enforceFunctionQuota(who) == Below(who, Cardinality(OwnFunctions(who.subject)), "functions")

-----------------------------------------------------------------------------
(* Steps of a handler. *)

Idle(h) == job[h] = Absent

\* The checks have passed.
Begin(h, j) ==
  /\ Idle(h)
  /\ job' = [job EXCEPT ![h] = j]
  /\ UNCHANGED <<repository, stored, openfaas, faults>>

\* The id of the next resource: ids are drawn at random, so any unused one will do.
IsNew(table, i) == table[i] = Absent /\ \A j \in DOMAIN table : table[j] = Absent => i <= j

At(h, at) == ~Idle(h) /\ job[h].at = at

Done(h) == job' = [job EXCEPT ![h] = Absent]

-----------------------------------------------------------------------------
(* Projects and runs *)

createProject(h, who) ==
  /\ enforceProjectQuota(who)
  /\ Begin(h, [at |-> "CreateProject", who |-> who.subject])
  /\ UNCHANGED disturbed

CreateProject(h, p) ==
  /\ At(h, "CreateProject") /\ IsNew(projects, p)
  /\ projects' = [projects EXCEPT ![p] = job[h].who]
  /\ Done(h)
  /\ UNCHANGED <<repository, access, runs, functions, openfaas, requests, disturbed, faults>>

submitPipeline(h, who, p) ==
  /\ projectAllowed(who, p) /\ enforceRunQuota(who)
  /\ Begin(h, [at |-> "SubmitPipeline", who |-> who.subject, project |-> p])
  /\ UNCHANGED disturbed

retryRun(h, who, r) ==
  /\ runs[r] # Absent /\ projectAllowed(who, runs[r].project) /\ enforceRunQuota(who)
  /\ Begin(h, [at |-> "SubmitPipeline", who |-> who.subject, project |-> runs[r].project])
  /\ UNCHANGED disturbed

\* SubmitPipeline and RetryRun both add a queued run to a project that exists.
StoreRun(h, r) ==
  /\ At(h, "SubmitPipeline") /\ IsNew(runs, r)
  /\ runs' = IF projects[job[h].project] = Absent THEN runs
             ELSE [runs EXCEPT ![r] = [project |-> job[h].project, by |-> job[h].who, active |-> TRUE]]
  /\ Done(h)
  /\ UNCHANGED <<repository, access, projects, functions, openfaas, requests, disturbed, faults>>

\* A run ends or is cancelled.
runEnds(r) ==
  /\ runs[r] # Absent /\ runs[r].active
  /\ runs' = [runs EXCEPT ![r].active = FALSE]
  /\ UNCHANGED <<repository, access, projects, functions, openfaas, requests, job, disturbed, faults>>

-----------------------------------------------------------------------------
(* Functions: OpenFaaS is called before the repository. *)

Fault == faults < MaxFaults /\ faults' = faults + 1

Overlaps(h, n, at) ==
  IF \E g \in Handlers \ {h} : ~Idle(g) /\ job[g].at \in at /\ job[g].name = n THEN {n} ELSE {}

deployFunction(h, who, p, n) ==
  /\ projectAllowed(who, p)
  /\ functionAllowed(who, n) \/ enforceFunctionQuota(who)
  /\ Begin(h, [at |-> "DeployFunction", who |-> who.subject, project |-> p, name |-> n])
  /\ disturbed' = disturbed \cup Overlaps(h, n, {"OpenFaaSDelete", "DeleteFunction"})

\* Mutant: the function is stored although OpenFaaS refused it.
OpenFaaSDeployUnchecked(h) ==
  /\ At(h, "DeployFunction")
  /\ job' = [job EXCEPT ![h].at = "UpsertFunction"]
  /\ \/ openfaas' = openfaas \cup {job[h].name} /\ UNCHANGED faults
     \/ Fault /\ UNCHANGED openfaas
  /\ UNCHANGED <<repository, stored, disturbed>>

\* On an error, with or without an effect, the handler returns.
OpenFaaSDeploy(h) ==
  /\ At(h, "DeployFunction")
  /\ \/ /\ openfaas' = openfaas \cup {job[h].name}
        /\ job' = [job EXCEPT ![h].at = "UpsertFunction"]
        /\ UNCHANGED faults
     \/ Fault /\ Done(h) /\ openfaas' \in {openfaas, openfaas \cup {job[h].name}}
  /\ UNCHANGED <<repository, stored, disturbed>>

\* The function as UpsertFunction leaves it, given the one it found: a function of
\* another project is a conflict.
Upserted(old, j) ==
  IF old = Absent /\ projects[j.project] # Absent THEN [project |-> j.project, owner |-> j.who] ELSE old

UpsertFunction(h) ==
  /\ At(h, "UpsertFunction") /\ repository = "file"
  /\ functions' = [functions EXCEPT ![job[h].name] = Upserted(@, job[h])]
  /\ Done(h)
  /\ UNCHANGED <<repository, access, projects, runs, openfaas, requests, disturbed, faults>>

\* PostgreSQL: what the method read decides what a later step writes, if anything.
PgUpsertFunction(h) ==
  LET n == job[h].name
      refused == projects[job[h].project] = Absent
                 \/ (functions[n] # Absent /\ functions[n].project # job[h].project)
  IN /\ At(h, "UpsertFunction") /\ repository = "postgres"
     /\ job' = [job EXCEPT ![h] = IF refused THEN Absent
                  ELSE [at |-> "WriteFunction", name |-> n, value |-> Upserted(functions[n], @)]]
     /\ UNCHANGED <<repository, stored, openfaas, disturbed, faults>>

WriteFunction(h) ==
  /\ At(h, "WriteFunction")
  /\ functions' = [functions EXCEPT ![job[h].name] = job[h].value]
  /\ Done(h)
  /\ UNCHANGED <<repository, access, projects, runs, openfaas, requests, disturbed, faults>>

deleteFunction(h, who, n) ==
  /\ functionAllowed(who, n)
  /\ Begin(h, [at |-> "OpenFaaSDelete", name |-> n])
  /\ disturbed' = disturbed \cup Overlaps(h, n, {"DeployFunction", "UpsertFunction", "WriteFunction",
                                               "OpenFaaSDelete", "DeleteFunction"})

\* OpenFaaS refuses to delete what it does not have.
OpenFaaSDelete(h) ==
  LET n == job[h].name
  IN /\ At(h, "OpenFaaSDelete")
     /\ \/ /\ n \in openfaas
           /\ openfaas' = openfaas \ {n}
           /\ job' = [job EXCEPT ![h].at = "DeleteFunction"]
           /\ UNCHANGED <<disturbed, faults>>
        \/ n \notin openfaas /\ Done(h) /\ UNCHANGED <<openfaas, disturbed, faults>>
        \/ Fault /\ Done(h) /\ openfaas' = openfaas \ {n} /\ disturbed' = disturbed \cup {n}
     /\ UNCHANGED <<repository, stored>>

DeleteFunction(h) ==
  /\ At(h, "DeleteFunction") /\ repository = "file"
  /\ functions' = [functions EXCEPT ![job[h].name] = Absent]
  /\ Done(h)
  /\ UNCHANGED <<repository, access, projects, runs, openfaas, requests, disturbed, faults>>

\* PostgreSQL: the row and its audit event are two statements, and no transaction;
\* an error of the second leaves the row deleted.
PgDeleteFunction(h) ==
  /\ At(h, "DeleteFunction") /\ repository = "postgres" /\ Done(h)
  /\ \/ functions' = [functions EXCEPT ![job[h].name] = Absent] /\ UNCHANGED <<disturbed, faults>>
     \/ Fault /\ disturbed' = disturbed \cup {job[h].name}
        /\ functions' \in {functions, [functions EXCEPT ![job[h].name] = Absent]}
  /\ UNCHANGED <<repository, access, projects, runs, openfaas, requests>>

\* The gateway restarts during a request.
handlerStops(h) ==
  /\ ~Idle(h) /\ Fault
  /\ Done(h)
  /\ disturbed' = IF At(h, "DeleteFunction") THEN disturbed \cup {job[h].name} ELSE disturbed
  /\ UNCHANGED <<repository, stored, openfaas>>

-----------------------------------------------------------------------------
(* Access requests *)

Pending(s) == {q \in RequestIds : requests[q] # Absent /\ requests[q] = [subject |-> s, status |-> "pending"]}

CreateAccessRequest(s, q) ==
  /\ repository = "file" /\ Pending(s) = {} /\ IsNew(requests, q)
  /\ requests' = [requests EXCEPT ![q] = [subject |-> s, status |-> "pending"]]
  /\ UNCHANGED <<repository, access, projects, runs, functions, openfaas, job, disturbed, faults>>

\* Mutant: an earlier request does not matter.
PgCreateAccessRequestAgain(h, s) ==
  /\ repository = "postgres"
  /\ Begin(h, [at |-> "WriteRequest", subject |-> s])
  /\ UNCHANGED disturbed

PgCreateAccessRequest(h, s) ==
  /\ repository = "postgres" /\ Pending(s) = {}
  /\ Begin(h, [at |-> "WriteRequest", subject |-> s])
  /\ UNCHANGED disturbed

WriteRequest(h, q) ==
  /\ At(h, "WriteRequest") /\ IsNew(requests, q)
  /\ requests' = [requests EXCEPT ![q] = [subject |-> job[h].subject, status |-> "pending"]]
  /\ Done(h)
  /\ UNCHANGED <<repository, access, projects, runs, functions, openfaas, disturbed, faults>>

ReviewAccessRequest(q, status) ==
  /\ repository = "file"
  /\ requests[q] # Absent /\ requests[q].status = "pending"
  /\ requests' = [requests EXCEPT ![q].status = status]
  /\ UNCHANGED <<repository, access, projects, runs, functions, openfaas, job, disturbed, faults>>

PgReviewAccessRequest(h, q, status) ==
  /\ repository = "postgres"
  /\ requests[q] # Absent /\ requests[q].status = "pending"
  /\ Begin(h, [at |-> "WriteReview", request |-> q, status |-> status])
  /\ UNCHANGED disturbed

WriteReview(h) ==
  /\ At(h, "WriteReview")
  /\ requests' = [requests EXCEPT ![job[h].request].status = job[h].status]
  /\ Done(h)
  /\ UNCHANGED <<repository, access, projects, runs, functions, openfaas, disturbed, faults>>

createAccessRequest(h) ==
  \E s \in Subjects : PgCreateAccessRequest(h, s) \/ \E q \in RequestIds : Idle(h) /\ CreateAccessRequest(s, q)

reviewAccessRequest(h) ==
  \E q \in RequestIds, status \in {"approved", "rejected"} :
    PgReviewAccessRequest(h, q, status) \/ (Idle(h) /\ ReviewAccessRequest(q, status))

-----------------------------------------------------------------------------
Checks(h) ==
  \/ \E who \in Principals :
       \/ createProject(h, who)
       \/ \E p \in Projects : submitPipeline(h, who, p) \/ \E n \in Names : deployFunction(h, who, p, n)
       \/ \E r \in Runs : retryRun(h, who, r)
       \/ \E n \in Names : deleteFunction(h, who, n)
  \/ createAccessRequest(h) \/ reviewAccessRequest(h)

Steps(h) ==
  \/ \E p \in Projects : CreateProject(h, p)
  \/ \E r \in Runs : StoreRun(h, r)
  \/ OpenFaaSDeploy(h) \/ UpsertFunction(h) \/ PgUpsertFunction(h) \/ WriteFunction(h)
  \/ OpenFaaSDelete(h) \/ DeleteFunction(h) \/ PgDeleteFunction(h)
  \/ \E q \in RequestIds : WriteRequest(h, q)
  \/ WriteReview(h)

Next ==
  \/ upsertUserAccess \/ deleteUserAccess \/ \E r \in Runs : runEnds(r)
  \/ \E h \in Handlers : Checks(h) \/ Steps(h) \/ handlerStops(h)

Spec == Init /\ [][Next]_vars

-----------------------------------------------------------------------------
(* Properties *)

Granted(kind) == {applyResourceProfile(req)[kind] : req \in {r \in GrantRequests : validateAccess(r)}}

\* A quota is checked before the resource is stored, so requests in flight may
\* exceed it together, by one less than there are handlers and never by more.
Exceeds(count, kind) == count > Max(Granted(kind)) + Cardinality(Handlers) - 1

\* A subject owns no more projects than enforceProjectQuota lets through.
ProjectsNearQuota == \A s \in Subjects : ~Exceeds(Cardinality(Owned(s)), "projects")

\* A subject has no more active runs in own projects than enforceRunQuota lets
\* through, new ones and retries together.
RunsNearQuota ==
  \A s \in Subjects : ~Exceeds(Cardinality({r \in ActiveRuns(Owned(s)) : runs[r].by = s}), "runs")

\* A subject owns no more functions than enforceFunctionQuota lets through, but
\* for those whose deployment, free of quota since the function was there,
\* overlapped its deletion.
FunctionsNearQuota ==
  \A s \in Subjects : ~Exceeds(Cardinality(OwnFunctions(s) \ disturbed), "functions")

\* A stored function is one that OpenFaaS has, once no request is working on it:
\* deployFunction stores last and deleteFunction removes last.
RegisteredIsLive ==
  \A n \in Names \ disturbed :
    functions[n] # Absent /\ (\A h \in Handlers : ~At(h, "DeleteFunction") \/ job[h].name # n)
      => n \in openfaas

\* A subject has one pending request at most; in PostgreSQL, where the check is
\* an earlier query, one per concurrent handler.
PendingRequests ==
  \A s \in Subjects :
    Cardinality(Pending(s)) <= IF repository = "file" THEN 1 ELSE Cardinality(Handlers)
=============================================================================
