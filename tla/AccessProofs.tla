---------------------------- MODULE AccessProofs ----------------------------
(***************************************************************************)
(* For any number of handlers, subjects, projects, runs, functions and     *)
(* requests, any grants, and failed calls at any point: quotas are         *)
(* exceeded by requests in flight only, a stored function is one that      *)
(* OpenFaaS has, and a subject has one pending request, or in PostgreSQL   *)
(* one per handler.                                                        *)
(***************************************************************************)
EXTENDS Access, FiniteSetTheorems, TLAPS

Named(j, ats) == j # Absent /\ j.at \in ats

DeployAts == {"DeployFunction", "UpsertFunction", "WriteFunction"}
DeleteAts == {"OpenFaaSDelete", "DeleteFunction"}

Run == [project : Projects, by : Who, active : BOOLEAN]
AccessRequest == [subject : Subjects, status : {"pending", "approved", "rejected"}]

\* The fields of a job; rs are the stored requests.
JobInv(j, rs, repo) ==
  /\ Named(j, {"CreateProject", "SubmitPipeline", "DeployFunction", "UpsertFunction"}) => j.who \in Who
  /\ Named(j, {"SubmitPipeline", "DeployFunction", "UpsertFunction"}) => j.project \in Projects
  /\ Named(j, DeployAts \cup DeleteAts) => j.name \in Names
  /\ Named(j, {"DeployFunction"}) => j = [at |-> j.at, who |-> j.who, project |-> j.project, name |-> j.name]
  /\ Named(j, {"OpenFaaSDelete"}) => j = [at |-> j.at, name |-> j.name]
  /\ Named(j, {"WriteFunction"}) => j.value \in Function
  /\ Named(j, {"WriteRequest"}) => j.subject \in Subjects /\ repo = "postgres"
  /\ Named(j, {"WriteReview"}) =>
       j.request \in RequestIds /\ j.status \in {"approved", "rejected"} /\ rs[j.request] \in AccessRequest

JobsInv == job = [h \in Handlers |-> job[h]] /\ \A h \in Handlers : JobInv(job[h], requests, repository)

StoredRuns == {r \in Runs : runs[r] # Absent}
StoredFunctions == {n \in Names : functions[n] # Absent}

\* What is stored: grants were valid, and a run is in a project that is there.
StoreInv ==
  /\ repository \in {"file", "postgres"}
  /\ access = [s \in Subjects |-> access[s]]
  /\ \A s \in Subjects : access[s] # Absent => \E req \in GrantRequests : validateAccess(req) /\ access[s] = Grant(req)
  /\ projects \in [Projects -> Who \cup {"nobody", Absent}]
  /\ runs \in [Runs -> Run \cup {Absent}] /\ IsFiniteSet(StoredRuns)
  /\ \A r \in StoredRuns : projects[runs[r].project] # Absent
  /\ functions \in [Names -> Function \cup {Absent}] /\ IsFiniteSet(StoredFunctions)
  /\ requests \in [RequestIds -> AccessRequest \cup {Absent}]

\* What there is of a resource, and the requests in flight for more of it.
Within(S, T, limit) == IsFiniteSet(S) /\ Cardinality(S) + Cardinality(T) <= limit

Limit(kind) == Max(Granted(kind)) + Cardinality(Handlers) - 1

Doing(s, at) == {h \in Handlers : Named(job[h], {at}) /\ job[h].who = s}

ProjectInv == \A s \in Subjects : Within(Owned(s), Doing(s, "CreateProject"), Limit("projects"))

Running(s) == {r \in ActiveRuns(Owned(s)) : runs[r].by = s}

RunInv == \A s \in Subjects : Within(Running(s), Doing(s, "SubmitPipeline"), Limit("runs"))

\* The functions that a subject has, or will have once the jobs are done.
Claims(j, n, s) ==
  \/ Named(j, {"WriteFunction"}) /\ j.name = n /\ j.value.owner = s
  \/ Named(j, {"DeployFunction", "UpsertFunction"}) /\ j.name = n /\ j.who = s /\ functions[n] = Absent

Claimed(s) == OwnFunctions(s) \cup {n \in Names : \E h \in Handlers : Claims(job[h], n, s)}

FunctionInv == \A s \in Subjects : Within(Claimed(s) \ disturbed, {}, Limit("functions"))

\* A deletion does not overlap unnoticed.
OverlapInv ==
  \A g, h \in Handlers :
    g # h /\ Named(job[g], DeployAts \cup DeleteAts) /\ Named(job[h], DeleteAts) /\ job[g].name = job[h].name
    => job[h].name \in disturbed

LiveInv ==
  \A n \in Names \ disturbed :
    /\ functions[n] # Absent => n \in openfaas \/ \E h \in Handlers : Named(job[h], {"DeleteFunction"}) /\ job[h].name = n
    /\ (\E h \in Handlers : Named(job[h], {"UpsertFunction", "WriteFunction"}) /\ job[h].name = n) => n \in openfaas

Asking(s) == {h \in Handlers : Named(job[h], {"WriteRequest"}) /\ job[h].subject = s}

RequestInv ==
  \A s \in Subjects : Within(Pending(s), Asking(s), IF repository = "file" THEN 1 ELSE Cardinality(Handlers))

IInv == StoreInv /\ JobsInv /\ ProjectInv /\ RunInv /\ FunctionInv /\ OverlapInv /\ LiveInv /\ RequestInv

-----------------------------------------------------------------------------
(* Counting *)

Kinds == {"projects", "runs", "functions"}

\* A part is within the limit too: an owner that leaves no more than it found.
LEMMA WithinLess ==
  ASSUME NEW S, NEW T \in SUBSET Handlers, NEW limit \in Int, Within(S, T, limit),
         NEW S1 \in SUBSET S, NEW T1 \in SUBSET T
  PROVE  Within(S1, T1, limit)
<1>1. IsFiniteSet(T)
  BY AccessAssumption, FS_Subset, Zenon
<1>2. IsFiniteSet(S1) /\ Cardinality(S1) <= Cardinality(S)
  BY FS_Subset, Zenon DEF Within
<1>3. IsFiniteSet(T1) /\ Cardinality(T1) <= Cardinality(T)
  BY <1>1, FS_Subset, Zenon
<1>4. Cardinality(S) \in Nat /\ Cardinality(T) \in Nat /\ Cardinality(S1) \in Nat /\ Cardinality(T1) \in Nat
  BY <1>1, <1>2, <1>3, FS_CardinalityType, Zenon DEF Within
<1>5. Cardinality(S) + Cardinality(T) <= limit
  BY Zenon DEF Within
<1>6. Cardinality(S1) + Cardinality(T1) <= limit
  BY <1>2, <1>3, <1>4, <1>5
<1> QED BY <1>2, <1>6, Zenon DEF Within

\* A request that stores what it was made for ends with it.
LEMMA WithinMove ==
  ASSUME NEW S, NEW T \in SUBSET Handlers, NEW limit \in Int, Within(S, T, limit),
         NEW h \in T, NEW x, NEW S1 \in SUBSET (S \cup {x}), NEW T1 \in SUBSET (T \ {h})
  PROVE  Within(S1, T1, limit)
<1>1. IsFiniteSet(T) /\ IsFiniteSet(S)
  BY AccessAssumption, FS_Subset, Zenon DEF Within
<1>2. IsFiniteSet(S \cup {x}) /\ Cardinality(S \cup {x}) <= Cardinality(S) + 1
  <2>1. Cardinality(S) \in Nat
    BY <1>1, FS_CardinalityType, Zenon
  <2>2. IsFiniteSet(S \cup {x}) /\ (Cardinality(S \cup {x}) = Cardinality(S) \/ Cardinality(S \cup {x}) = Cardinality(S) + 1)
    BY <1>1, FS_AddElement, Zenon
  <2> QED BY <2>1, <2>2
<1>3. IsFiniteSet(S1) /\ Cardinality(S1) <= Cardinality(S \cup {x})
  BY <1>2, FS_Subset, Zenon
<1>4. IsFiniteSet(T \ {h}) /\ Cardinality(T \ {h}) = Cardinality(T) - 1
  BY <1>1, FS_RemoveElement, Zenon
<1>5. IsFiniteSet(T1) /\ Cardinality(T1) <= Cardinality(T \ {h})
  BY <1>4, FS_Subset, Zenon
<1>6. Cardinality(S) \in Nat /\ Cardinality(T) \in Nat /\ Cardinality(S1) \in Nat /\ Cardinality(T1) \in Nat
      /\ Cardinality(S \cup {x}) \in Nat
  BY <1>1, <1>2, <1>3, <1>5, FS_CardinalityType, Zenon
<1>7. Cardinality(S) + Cardinality(T) <= limit
  BY Zenon DEF Within
<1>8. Cardinality(S1) + Cardinality(T1) <= limit
  BY <1>2, <1>3, <1>4, <1>5, <1>6, <1>7
<1> QED BY <1>3, <1>8, Zenon DEF Within

\* The check of a quota leaves room for every handler but one more than the quota.
LEMMA WithinStart ==
  ASSUME NEW S, IsFiniteSet(S), NEW most \in Int, Cardinality(S) < most,
         NEW S1 \in SUBSET S, NEW T1 \in SUBSET Handlers
  PROVE  Within(S1, T1, most + Cardinality(Handlers) - 1)
<1>1. IsFiniteSet(S1) /\ Cardinality(S1) <= Cardinality(S)
  BY FS_Subset, Zenon
<1>2. IsFiniteSet(T1) /\ Cardinality(T1) <= Cardinality(Handlers)
  BY AccessAssumption, FS_Subset, Zenon
<1>3. Cardinality(S) \in Nat /\ Cardinality(S1) \in Nat /\ Cardinality(T1) \in Nat /\ Cardinality(Handlers) \in Nat
  BY <1>1, <1>2, AccessAssumption, FS_CardinalityType, Zenon
<1>4. Cardinality(S1) + Cardinality(T1) <= most + Cardinality(Handlers) - 1
  BY <1>1, <1>2, <1>3
<1> QED BY <1>1, <1>4, Zenon DEF Within

\* A finite set of numbers that is not empty has a greatest one: of the grants
\* that are asked for, one is the most generous.
LEMMA HasGreatest ==
  ASSUME NEW S \in SUBSET Nat, IsFiniteSet(S), S # {}
  PROVE  \E m \in S : \A x \in S : x <= m
<1> DEFINE Bad == {T \in SUBSET S : T # {} /\ ~\E m \in T : \A x \in T : x <= m}
<1> SUFFICES ASSUME S \in Bad PROVE FALSE
  BY Zenon
<1>1. Bad \subseteq FiniteSubsetsOf(S)
  BY FS_Subset, Zenon DEF FiniteSubsetsOf
<1>2. PICK T \in Bad : \A U \in Bad : ~(<<U, T>> \in StrictSubsetOrdering(S))
  <2> HIDE DEF Bad
  <2> QED BY <1>1, FS_StrictSubsetOrderingWellFounded, WFMin, Zenon
<1>3. PICK x \in T : TRUE
  BY Zenon
<1> DEFINE U == T \ {x}
<1>4. U \in SUBSET S /\ <<U, T>> \in StrictSubsetOrdering(S)
  BY <1>3, Zenon DEF StrictSubsetOrdering
<1>5. U \notin Bad
  <2> HIDE DEF Bad, U
  <2> QED BY <1>2, <1>4, Zenon
<1>6. CASE U = {}
  <2>1. T = {x}
    BY <1>3, <1>6, Zenon
  <2> QED BY <2>1
<1>7. CASE U # {}
  <2>1. PICK m \in U : \A y \in U : y <= m
    BY <1>4, <1>5, <1>7, Zenon
  <2>2. m \in Nat /\ x \in Nat /\ m \in T /\ T \subseteq Nat
    BY Zenon
  <2>3. \E k \in T : \A y \in T : y <= k
    <3>1. CASE x <= m
      BY <2>1, <2>2, <3>1, Zenon
    <3>2. CASE m <= x
      BY <2>1, <2>2, <3>2
    <3> QED BY <2>2, <3>1, <3>2
  <2> QED BY <2>3, Zenon
<1> QED BY <1>6, <1>7, Zenon

\* A profile sets each limit.
LEMMA LimitsAreNumbers ==
  ASSUME NEW req \in GrantRequests, validateAccess(req), NEW kind \in Kinds
  PROVE  applyResourceProfile(req)[kind] \in Nat
<1>1. applyResourceProfile(req) \in [projects : Int, runs : Int, functions : Int]
  <2>1. CASE req.profile \in DOMAIN ResourceProfiles
    <3>1. DOMAIN ResourceProfiles = {"starter", "team", "power", "gpu"}
      BY Zenon DEF ResourceProfiles
    <3>2. ResourceProfiles["starter"] \in [projects : Int, runs : Int, functions : Int]
      BY DEF ResourceProfiles
    <3>3. ResourceProfiles["team"] \in [projects : Int, runs : Int, functions : Int]
      BY DEF ResourceProfiles
    <3>4. ResourceProfiles["power"] \in [projects : Int, runs : Int, functions : Int]
      BY DEF ResourceProfiles
    <3>5. ResourceProfiles["gpu"] \in [projects : Int, runs : Int, functions : Int]
      BY DEF ResourceProfiles
    <3> QED BY <2>1, <3>1, <3>2, <3>3, <3>4, <3>5, Zenon DEF applyResourceProfile
  <2>2. CASE req.profile \notin DOMAIN ResourceProfiles
    BY <2>2, AccessAssumption, Zenon DEF applyResourceProfile
  <2> QED BY <2>1, <2>2, Zenon
<1>2. applyResourceProfile(req)[kind] >= 0
  BY Zenon DEF validateAccess, Kinds
<1> QED BY <1>1, <1>2 DEF Kinds

\* The most generous grant bounds every grant.
LEMMA MostGranted ==
  ASSUME NEW kind \in Kinds
  PROVE  /\ Max(Granted(kind)) \in Nat /\ Limit(kind) \in Int
         /\ Granted(kind) \subseteq Nat /\ \A m \in Granted(kind) : m <= Max(Granted(kind))
<1> DEFINE V == {r \in GrantRequests : validateAccess(r)}
           f == [r \in V |-> applyResourceProfile(r)[kind]]
<1>1. Granted(kind) \subseteq Nat
  BY LimitsAreNumbers, Zenon DEF Granted
<1>2. Granted(kind) # {}
  BY AccessAssumption DEF Granted
<1>3. IsFiniteSet(V)
  BY AccessAssumption, FS_Subset, Zenon
<1>4. f \in Surjection(V, Granted(kind))
  BY Zenon DEF Surjection, Granted
<1>5. IsFiniteSet(Granted(kind))
  <2> HIDE DEF V, f
  <2> QED BY <1>3, <1>4, FS_Surjection, Zenon
<1>6. PICK m \in Granted(kind) : \A x \in Granted(kind) : x <= m
  <2> HIDE DEF V, f
  <2>1. PICK S : S = Granted(kind)
    BY Zenon
  <2>2. \E m \in S : \A x \in S : x <= m
    BY <1>1, <1>2, <1>5, <2>1, HasGreatest, Zenon
  <2> QED BY <2>1, <2>2, Zenon
<1>7. Max(Granted(kind)) \in Granted(kind) /\ \A x \in Granted(kind) : Max(Granted(kind)) >= x
  <2> HIDE DEF V, f
  <2>1. m \in Granted(kind) /\ \A x \in Granted(kind) : m >= x
    BY <1>1, <1>6, Zenon
  <2> QED BY <2>1, Zenon DEF Max
<1>8. Cardinality(Handlers) \in Nat
  BY AccessAssumption, FS_CardinalityType, Zenon
<1> HIDE DEF V, f
<1> QED BY <1>1, <1>7, <1>8 DEF Limit

-----------------------------------------------------------------------------
(* One handler moves; the others keep their jobs. *)

Change(h, j) == job' = [job EXCEPT ![h] = j]

\* The jobs after a step of handler h.
LEMMA Jobs ==
  ASSUME JobsInv, NEW h \in Handlers, NEW j, Change(h, j)
  PROVE  /\ job' = [g \in Handlers |-> job'[g]]
         /\ job'[h] = j
         /\ \A g \in Handlers \ {h} : job'[g] = job[g]
BY Zenon DEF JobsInv, Change

\* Stored requests stay requests of the same repository.
LEMMA JobsFrame ==
  ASSUME JobsInv, NEW h \in Handlers, NEW j, Change(h, j), JobInv(j, requests', repository'),
         UNCHANGED repository,
         \A q \in RequestIds : requests[q] \in AccessRequest => requests'[q] \in AccessRequest
  PROVE  JobsInv'
<1>1. ASSUME NEW g \in Handlers PROVE JobInv(job'[g], requests', repository')
  <2>1. CASE g = h
    BY <2>1, Jobs, Zenon
  <2>2. CASE g # h
    <3>1. JobInv(job[g], requests, repository) /\ job'[g] = job[g]
      BY <2>2, Jobs, Zenon DEF JobsInv
    <3> QED BY <3>1 DEF JobInv, Named
  <2> QED BY <2>1, <2>2, Zenon
<1> QED BY <1>1, Jobs, Zenon DEF JobsInv

\* A step of a request that is not CreateProject's leaves the projects alone.
LEMMA ProjectFrame ==
  ASSUME JobsInv, ProjectInv, NEW h \in Handlers, NEW j, Change(h, j),
         ~Named(j, {"CreateProject"}), UNCHANGED projects
  PROVE  ProjectInv'
<1> SUFFICES ASSUME NEW s \in Subjects
             PROVE  Within(Owned(s)', Doing(s, "CreateProject")', Limit("projects"))
  BY Zenon DEF ProjectInv
<1>1. Owned(s)' \subseteq Owned(s)
  BY Zenon DEF Owned
<1>2. Doing(s, "CreateProject")' \subseteq Doing(s, "CreateProject")
  BY Jobs, Zenon DEF Doing
<1>3. Doing(s, "CreateProject") \subseteq Handlers /\ Limit("projects") \in Int
  BY MostGranted, Zenon DEF Doing, Kinds
<1>4. Within(Owned(s), Doing(s, "CreateProject"), Limit("projects"))
  BY Zenon DEF ProjectInv
<1> QED BY <1>1, <1>2, <1>3, <1>4, WithinLess, Zenon

\* A step that starts no run leaves the runs of a subject as they are.
LEMMA RunFrame ==
  ASSUME JobsInv, RunInv, NEW h \in Handlers, NEW j, Change(h, j),
         ~Named(j, {"SubmitPipeline"}), UNCHANGED <<projects, runs>>
  PROVE  RunInv'
<1> SUFFICES ASSUME NEW s \in Subjects
             PROVE  Within(Running(s)', Doing(s, "SubmitPipeline")', Limit("runs"))
  BY Zenon DEF RunInv
<1>1. Running(s)' \subseteq Running(s)
  BY Zenon DEF Running, ActiveRuns, Owned
<1>2. Doing(s, "SubmitPipeline")' \subseteq Doing(s, "SubmitPipeline")
  BY Jobs, Zenon DEF Doing
<1>3. Doing(s, "SubmitPipeline") \subseteq Handlers /\ Limit("runs") \in Int
  BY MostGranted, Zenon DEF Doing, Kinds
<1>4. Within(Running(s), Doing(s, "SubmitPipeline"), Limit("runs"))
  BY Zenon DEF RunInv
<1> QED BY <1>1, <1>2, <1>3, <1>4, WithinLess, Zenon

\* Fewer claims are within the quota too.
LEMMA FewerClaims ==
  ASSUME FunctionInv, NEW s \in Subjects, (Claimed(s) \ disturbed)' \subseteq Claimed(s) \ disturbed
  PROVE  Within((Claimed(s) \ disturbed)', {}, Limit("functions"))
<1>1. Within(Claimed(s) \ disturbed, {}, Limit("functions")) /\ Limit("functions") \in Int
  BY MostGranted, Zenon DEF FunctionInv, Kinds
<1> QED BY <1>1, WithinLess, Zenon

\* A step that neither stores nor removes a function, and claims nothing new for s.
LEMMA ClaimsKept ==
  ASSUME JobsInv, FunctionInv, NEW h \in Handlers, NEW j, Change(h, j),
         UNCHANGED functions, disturbed \subseteq disturbed',
         NEW s \in Subjects, \A n \in Names : Claims(j, n, s) => n \in Claimed(s)
  PROVE  Within((Claimed(s) \ disturbed)', {}, Limit("functions"))
<1>1. ASSUME NEW n \in Claimed(s)' PROVE n \in Claimed(s)
  <2>1. n \in Names
    BY Zenon DEF Claimed, OwnFunctions
  <2>2. CASE n \in OwnFunctions(s)'
    BY <2>2, Zenon DEF Claimed, OwnFunctions
  <2>3. CASE \E g \in Handlers : Claims(job[g], n, s)'
    <3>1. PICK g \in Handlers : Claims(job[g], n, s)'
      BY <2>3, Zenon
    <3>2. CASE g = h
      <4>1. Claims(j, n, s)
        BY <3>1, <3>2, Jobs, Zenon DEF Claims
      <4> QED BY <2>1, <4>1, Zenon
    <3>3. CASE g # h
      <4>1. Claims(job[g], n, s)
        BY <3>1, <3>3, Jobs, Zenon DEF Claims
      <4> QED BY <2>1, <4>1, Zenon DEF Claimed
    <3> QED BY <3>2, <3>3, Zenon
  <2> QED BY <2>2, <2>3, Zenon DEF Claimed
<1>2. (Claimed(s) \ disturbed)' \subseteq Claimed(s) \ disturbed
  BY <1>1, Zenon
<1> QED BY <1>2, FewerClaims, Zenon

\* The same for every subject.
LEMMA ClaimFrame ==
  ASSUME JobsInv, FunctionInv, NEW h \in Handlers, NEW j, Change(h, j),
         UNCHANGED functions, disturbed \subseteq disturbed',
         \A n \in Names, s \in Subjects : Claims(j, n, s) => n \in Claimed(s)
  PROVE  FunctionInv'
<1>1. ASSUME NEW s \in Subjects PROVE Within((Claimed(s) \ disturbed)', {}, Limit("functions"))
  BY ClaimsKept, Zenon
<1> QED BY <1>1, Zenon DEF FunctionInv

\* A function is stored or removed at the end of a request: it was claimed for its
\* owner, and no deployment overlaps its deletion unnoticed.
LEMMA ClaimStored ==
  ASSUME JobsInv, FunctionInv, OverlapInv, StoreInv, NEW h \in Handlers, Change(h, Absent),
         NEW n \in Names, NEW v, functions' = [functions EXCEPT ![n] = v], disturbed \subseteq disturbed',
         v # Absent => \A s \in Subjects : v.owner = s => n \in Claimed(s),
         v = Absent => functions[n] = Absent \/ (Named(job[h], DeleteAts) /\ job[h].name = n)
  PROVE  FunctionInv'
<1> SUFFICES ASSUME NEW s \in Subjects
             PROVE  Within((Claimed(s) \ disturbed)', {}, Limit("functions"))
  BY Zenon DEF FunctionInv
<1>1. functions'[n] = v /\ \A m \in Names \ {n} : functions'[m] = functions[m]
  BY Zenon DEF StoreInv
<1>2. ASSUME NEW m \in Claimed(s)', m \notin disturbed PROVE m \in Claimed(s)
  <2>1. m \in Names
    BY Zenon DEF Claimed, OwnFunctions
  <2>2. CASE m \in OwnFunctions(s)'
    BY <1>1, <2>2, Zenon DEF Claimed, OwnFunctions
  <2>3. CASE \E g \in Handlers : Claims(job[g], m, s)'
    <3>1. PICK g \in Handlers : Claims(job[g], m, s)'
      BY <2>3, Zenon
    <3>2. g # h
      BY <3>1, Jobs, Zenon DEF Claims, Named
    <3>3. job'[g] = job[g]
      BY <3>2, Jobs, Zenon
    <3>4. CASE Named(job[g], {"WriteFunction"}) /\ job[g].name = m /\ job[g].value.owner = s
      BY <2>1, <3>4, Zenon DEF Claimed, Claims
    <3>5. CASE Named(job[g], {"DeployFunction", "UpsertFunction"}) /\ job[g].name = m /\ job[g].who = s
               /\ functions'[m] = Absent
      <4>1. CASE functions[m] = Absent
        BY <2>1, <3>5, <4>1, Zenon DEF Claimed, Claims
      <4>2. CASE functions[m] # Absent
        <5>1. m = n /\ v = Absent
          BY <1>1, <2>1, <3>5, <4>2, Zenon
        <5>2. Named(job[h], DeleteAts) /\ job[h].name = m
          BY <4>2, <5>1, Zenon
        <5>3. Named(job[g], DeployAts \cup DeleteAts)
          BY <3>5, Zenon DEF Named, DeployAts
        <5> QED BY <1>2, <3>2, <3>5, <5>2, <5>3, Zenon DEF OverlapInv
      <4> QED BY <4>1, <4>2, Zenon
    <3> QED BY <3>1, <3>3, <3>4, <3>5, Zenon DEF Claims
  <2> QED BY <2>2, <2>3, Zenon DEF Claimed
<1>3. (Claimed(s) \ disturbed)' \subseteq Claimed(s) \ disturbed
  BY <1>2, Zenon
<1> QED BY <1>3, FewerClaims, Zenon

\* A request keeps to its name, and a deployment stays one.
LEMMA OverlapFrame ==
  ASSUME JobsInv, OverlapInv, NEW h \in Handlers, NEW j, Change(h, j), disturbed \subseteq disturbed',
         Named(j, DeployAts \cup DeleteAts) => Named(job[h], DeployAts \cup DeleteAts) /\ j.name = job[h].name,
         Named(j, DeleteAts) => Named(job[h], DeleteAts)
  PROVE  OverlapInv'
<1> SUFFICES ASSUME NEW f \in Handlers, NEW g \in Handlers, f # g,
                    Named(job'[f], DeployAts \cup DeleteAts), Named(job'[g], DeleteAts),
                    job'[f].name = job'[g].name
             PROVE  job'[g].name \in disturbed'
  BY Zenon DEF OverlapInv
<1>1. \A i \in Handlers : /\ Named(job'[i], DeployAts \cup DeleteAts)
                             => Named(job[i], DeployAts \cup DeleteAts) /\ job'[i].name = job[i].name
                          /\ Named(job'[i], DeleteAts) => Named(job[i], DeleteAts)
  BY Jobs
<1>2. Named(job'[g], DeployAts \cup DeleteAts)
  BY Zenon DEF Named
<1>3. job[g].name \in disturbed
  BY <1>1, <1>2, Zenon DEF OverlapInv
<1> QED BY <1>1, <1>2, <1>3, Zenon

\* A function is stored once OpenFaaS has it, and OpenFaaS loses none but those
\* that are disturbed.
LEMMA LiveFrame ==
  ASSUME JobsInv, LiveInv, NEW h \in Handlers, NEW j, Change(h, j), disturbed \subseteq disturbed',
         \A n \in Names : functions'[n] # Absent => functions[n] # Absent \/ n \in openfaas \/ n \in disturbed',
         \A n \in Names : n \in openfaas => n \in openfaas' \/ n \in disturbed',
         Named(job[h], {"DeleteFunction"}) => job[h].name \in disturbed' \/ functions'[job[h].name] = Absent,
         Named(j, {"UpsertFunction", "WriteFunction"}) => j.name \in openfaas' \/ j.name \in disturbed'
  PROVE  LiveInv'
<1> SUFFICES ASSUME NEW n \in Names \ disturbed'
             PROVE  /\ functions'[n] # Absent =>
                         n \in openfaas' \/ \E g \in Handlers : Named(job'[g], {"DeleteFunction"}) /\ job'[g].name = n
                    /\ (\E g \in Handlers : Named(job'[g], {"UpsertFunction", "WriteFunction"}) /\ job'[g].name = n)
                         => n \in openfaas'
  BY Zenon DEF LiveInv
<1>1. n \in Names \ disturbed
  BY Zenon
<1>2. ASSUME functions'[n] # Absent
      PROVE  n \in openfaas' \/ \E g \in Handlers : Named(job'[g], {"DeleteFunction"}) /\ job'[g].name = n
  <2>1. n \in openfaas \/ \E g \in Handlers : Named(job[g], {"DeleteFunction"}) /\ job[g].name = n
    BY <1>1, <1>2, Zenon DEF LiveInv
  <2>2. ASSUME NEW g \in Handlers, Named(job[g], {"DeleteFunction"}), job[g].name = n
        PROVE  Named(job'[g], {"DeleteFunction"}) /\ job'[g].name = n
    BY <1>2, <2>2, Jobs, Zenon
  <2> QED BY <2>1, <2>2, Zenon
<1>3. ASSUME NEW g \in Handlers, Named(job'[g], {"UpsertFunction", "WriteFunction"}), job'[g].name = n
      PROVE  n \in openfaas'
  <2>1. CASE g = h
    BY <1>3, <2>1, Jobs
  <2>2. CASE g # h
    <3>1. Named(job[g], {"UpsertFunction", "WriteFunction"}) /\ job[g].name = n
      BY <1>3, <2>2, Jobs, Zenon
    <3> QED BY <1>1, <3>1, Zenon DEF LiveInv
  <2> QED BY <2>1, <2>2, Zenon
<1> QED BY <1>2, <1>3, Zenon

\* A step of a request about something else, or the end of one about a function.
LEMMA FunctionFrame ==
  ASSUME JobsInv, FunctionInv, OverlapInv, LiveInv, NEW h \in Handlers, NEW j, Change(h, j),
         ~Named(j, DeployAts \cup DeleteAts), UNCHANGED <<functions, openfaas>>, disturbed \subseteq disturbed',
         Named(job[h], {"DeleteFunction"}) => job[h].name \in disturbed'
  PROVE  FunctionInv' /\ OverlapInv' /\ LiveInv'
<1>1. ~Named(j, DeleteAts) /\ (\A n, s : ~Claims(j, n, s)) /\ ~Named(j, {"UpsertFunction", "WriteFunction"})
  BY Zenon DEF Claims, Named, DeployAts
<1>2. FunctionInv'
  BY <1>1, ClaimFrame, Zenon
<1>3. OverlapInv'
  BY <1>1, OverlapFrame, Zenon
<1>4. LiveInv'
  BY <1>1, LiveFrame, Zenon
<1> QED BY <1>2, <1>3, <1>4, Zenon

\* A step that asks for no access.
LEMMA RequestFrame ==
  ASSUME JobsInv, RequestInv, NEW h \in Handlers, NEW j, Change(h, j),
         ~Named(j, {"WriteRequest"}), UNCHANGED repository, \A s \in Subjects : Pending(s)' \subseteq Pending(s)
  PROVE  RequestInv'
<1> SUFFICES ASSUME NEW s \in Subjects
             PROVE  Within(Pending(s)', Asking(s)', IF repository = "file" THEN 1 ELSE Cardinality(Handlers))
  BY Zenon DEF RequestInv
<1>1. Asking(s)' \subseteq Asking(s)
  BY Jobs, Zenon DEF Asking
<1>2. Asking(s) \subseteq Handlers /\ (IF repository = "file" THEN 1 ELSE Cardinality(Handlers)) \in Int
  BY AccessAssumption, FS_CardinalityType DEF Asking
<1>3. Within(Pending(s), Asking(s), IF repository = "file" THEN 1 ELSE Cardinality(Handlers))
  BY Zenon DEF RequestInv
<1>4. PICK limit \in Int : limit = IF repository = "file" THEN 1 ELSE Cardinality(Handlers)
  BY <1>2, Zenon
<1> QED BY <1>1, <1>2, <1>3, <1>4, WithinLess, Zenon

-----------------------------------------------------------------------------
(* Grants, projects and runs *)

\* Nothing is there at first, and the first project is nobody's.
LEMMA Starts == Init => IInv
<1> SUFFICES ASSUME Init PROVE IInv
  BY Zenon
<1> USE DEF Init
<1>1. \A h \in Handlers : job[h] = Absent
  BY Zenon
<1>2. IsFiniteSet({}) /\ Cardinality({}) = 0 /\ Cardinality(Handlers) \in Nat /\ Cardinality(Handlers) # 0
  BY AccessAssumption, FS_EmptySet, FS_CardinalityType, Zenon
<1>3. StoreInv
  <2>1. StoredRuns = {} /\ StoredFunctions = {}
    BY Zenon DEF StoredRuns, StoredFunctions
  <2> QED BY <1>2, <2>1, Zenon DEF StoreInv
<1>4. JobsInv /\ OverlapInv /\ LiveInv
  BY <1>1, Zenon DEF JobsInv, JobInv, Named, OverlapInv, LiveInv
<1>5. \A kind \in Kinds : Limit(kind) \in Int /\ Limit(kind) >= 0
  BY <1>2, MostGranted DEF Limit
<1>6. \A limit \in Int : limit >= 0 => Within({}, {}, limit)
  BY <1>2 DEF Within
<1>7. ProjectInv
  <2>1. ASSUME NEW s \in Subjects PROVE Owned(s) = {} /\ Doing(s, "CreateProject") = {}
    BY <1>1, AccessAssumption, Zenon DEF Owned, Doing, Named, Who
  <2> QED BY <1>5, <1>6, <2>1, Zenon DEF ProjectInv, Kinds
<1>8. RunInv
  <2>1. ASSUME NEW s \in Subjects PROVE Running(s) = {} /\ Doing(s, "SubmitPipeline") = {}
    BY <1>1, Zenon DEF Running, ActiveRuns, Doing, Named
  <2> QED BY <1>5, <1>6, <2>1, Zenon DEF RunInv, Kinds
<1>9. FunctionInv
  <2>1. ASSUME NEW s \in Subjects PROVE Claimed(s) \ disturbed = {}
    BY <1>1, Zenon DEF Claimed, OwnFunctions, Claims, Named
  <2> QED BY <1>5, <1>6, <2>1, Zenon DEF FunctionInv, Kinds
<1>10. RequestInv
  <2>1. ASSUME NEW s \in Subjects PROVE Pending(s) = {} /\ Asking(s) = {}
    BY <1>1, Zenon DEF Pending, Asking, Named
  <2>2. PICK limit \in Int : limit >= 0 /\ limit = IF repository = "file" THEN 1 ELSE Cardinality(Handlers)
    BY <1>2
  <2> QED BY <1>6, <2>1, <2>2, Zenon DEF RequestInv
<1> QED BY <1>3, <1>4, <1>7, <1>8, <1>9, <1>10, Zenon DEF IInv

\* All that IInv says but for the grants depends on the rest of the state only.
LEMMA Stutter ==
  ASSUME IInv, UNCHANGED <<repository, projects, runs, functions, openfaas, requests, job, disturbed>>,
         access' = [s \in Subjects |-> access'[s]],
         \A s \in Subjects : access'[s] # Absent => \E req \in GrantRequests : validateAccess(req) /\ access'[s] = Grant(req)
  PROVE  IInv'
<1>1. StoreInv'
  BY Zenon DEF IInv, StoreInv, StoredRuns, StoredFunctions
<1>2. JobsInv' /\ OverlapInv' /\ LiveInv'
  BY Zenon DEF IInv, JobsInv, OverlapInv, LiveInv
<1>3. ProjectInv' /\ RunInv'
  BY Zenon DEF IInv, ProjectInv, RunInv, Running, ActiveRuns, Owned, Doing
<1>4. FunctionInv' /\ RequestInv'
  BY DEF IInv, FunctionInv, RequestInv, Claimed, OwnFunctions, Claims, Pending, Asking
<1> QED BY <1>1, <1>2, <1>3, <1>4, Zenon DEF IInv

\* A grant that is stored has been validated.
LEMMA Grants ==
  ASSUME IInv, upsertUserAccess \/ deleteUserAccess
  PROVE  IInv'
<1>1. CASE upsertUserAccess
  <2>1. PICK s \in Subjects, req \in GrantRequests : UpsertUserAccess(s, req)
    BY <1>1, Zenon DEF upsertUserAccess
  <2>2. access' = [u \in Subjects |-> access'[u]] /\ access'[s] = Grant(req)
        /\ \A u \in Subjects \ {s} : access'[u] = access[u]
    BY <2>1, Zenon DEF UpsertUserAccess, IInv, StoreInv
  <2>3. validateAccess(req)
    BY <2>1, Zenon DEF UpsertUserAccess
  <2>4. \A u \in Subjects : access'[u] # Absent => \E r \in GrantRequests : validateAccess(r) /\ access'[u] = Grant(r)
    BY <2>2, <2>3 DEF IInv, StoreInv
  <2> QED BY <2>1, <2>2, <2>4, Stutter, Zenon DEF UpsertUserAccess
<1>2. CASE deleteUserAccess
  <2>1. PICK s \in Subjects : DeleteUserAccess(s)
    BY <1>2, Zenon DEF deleteUserAccess
  <2>2. access' = [u \in Subjects |-> access'[u]] /\ access'[s] = Absent
        /\ \A u \in Subjects \ {s} : access'[u] = access[u]
    BY <2>1, Zenon DEF DeleteUserAccess, IInv, StoreInv
  <2>3. \A u \in Subjects : access'[u] # Absent => \E r \in GrantRequests : validateAccess(r) /\ access'[u] = Grant(r)
    BY <2>2 DEF IInv, StoreInv
  <2> QED BY <2>1, <2>2, <2>3, Stutter, Zenon DEF DeleteUserAccess
<1> QED BY <1>1, <1>2, Zenon

\* A quota that lets a subject through is one that was granted.
LEMMA Quota ==
  ASSUME StoreInv, NEW who \in Principals, NEW count, NEW kind \in Kinds
  PROVE  /\ who.subject \in Who
         /\ who.privileged => who.subject = "admin"
         /\ who.subject \in Subjects => who.privileged = FALSE
         /\ who.subject \in Subjects /\ Below(who, count, kind) => \E m \in Granted(kind) : count < m
<1>1. CASE who = Administrator
  BY <1>1, AccessAssumption, Zenon DEF Administrator, Who
<1>2. ASSUME NEW s \in Subjects, access[s] # Absent,
             who = [subject |-> s, privileged |-> FALSE, projects |-> access[s].projects]
      PROVE  /\ who.subject \in Who /\ who.privileged = FALSE
             /\ Below(who, count, kind) => \E m \in Granted(kind) : count < m
  <2>1. who.subject = s /\ who.privileged = FALSE
    BY <1>2, Zenon
  <2>2. PICK req \in GrantRequests : validateAccess(req) /\ access[s] = Grant(req)
    BY <1>2, Zenon DEF StoreInv
  <2>3. access[s].max[kind] = applyResourceProfile(req)[kind]
    BY <2>2 DEF Grant
  <2>4. applyResourceProfile(req)[kind] \in Granted(kind)
    BY <2>2, Zenon DEF Granted
  <2> QED BY <2>1, <2>3, <2>4, Zenon DEF Below, Who
<1>3. who = Administrator \/ \E s \in Subjects :
        access[s] # Absent /\ who = [subject |-> s, privileged |-> FALSE, projects |-> access[s].projects]
  BY Zenon DEF Principals
<1> QED BY <1>1, <1>2, <1>3, Zenon

\* What is stored depends on the stored variables only.
LEMMA StoreFrame ==
  ASSUME StoreInv, UNCHANGED <<repository, access, projects, runs, functions, requests>>
  PROVE  StoreInv'
BY Zenon DEF StoreInv, StoredRuns, StoredFunctions

\* enforceProjectQuota has counted the projects that the subject owns.
LEMMA CreateProjectBegins ==
  ASSUME IInv, NEW h \in Handlers, NEW who \in Principals, createProject(h, who)
  PROVE  IInv'
<1> DEFINE j == [at |-> "CreateProject", who |-> who.subject]
<1> USE DEF IInv
<1>1. /\ Change(h, j) /\ job[h] = Absent
      /\ UNCHANGED <<repository, access, projects, runs, functions, requests, openfaas, disturbed>>
  BY Zenon DEF createProject, Begin, Idle, Change, stored
<1>2. j.at = "CreateProject" /\ j.who = who.subject /\ who.subject \in Who
  BY Quota, Zenon DEF Kinds
<1> HIDE DEF j
<1>3. JobInv(j, requests', repository')
  BY <1>2, Zenon DEF JobInv, Named, DeployAts, DeleteAts
<1>4. StoreInv' /\ JobsInv'
  BY <1>1, <1>3, StoreFrame, JobsFrame, Zenon
<1>5. ProjectInv'
  <2> SUFFICES ASSUME NEW s \in Subjects
               PROVE  Within(Owned(s)', Doing(s, "CreateProject")', Limit("projects"))
    BY Zenon DEF ProjectInv
  <2>1. Within(Owned(s), Doing(s, "CreateProject"), Limit("projects")) /\ Owned(s)' = Owned(s)
        /\ Doing(s, "CreateProject")' \subseteq Handlers /\ Doing(s, "CreateProject") \subseteq Handlers
    BY <1>1, Zenon DEF ProjectInv, Owned, Doing
  <2>2. CASE s = who.subject
    <3>1. PICK m \in Granted("projects") : Cardinality(Owned(s)) < m
      BY <2>2, Quota, Zenon DEF createProject, enforceProjectQuota, Kinds
    <3>2. PICK most \in Int : most = Max(Granted("projects")) /\ m \in Int /\ m <= most
      BY MostGranted DEF Kinds
    <3>3. IsFiniteSet(Owned(s)) /\ Cardinality(Owned(s)) < most
      <4>1. IsFiniteSet(Owned(s)) /\ Cardinality(Owned(s)) \in Nat
        BY <2>1, FS_CardinalityType, Zenon DEF Within
      <4> QED BY <3>1, <3>2, <4>1
    <3> QED BY <2>1, <3>2, <3>3, WithinStart, Zenon DEF Limit
  <2>3. CASE s # who.subject
    <3>1. Doing(s, "CreateProject")' \subseteq Doing(s, "CreateProject")
      BY <1>1, <1>2, <2>3, Jobs DEF Doing
    <3> QED BY <2>1, <3>1, WithinLess, MostGranted, Zenon DEF Kinds
  <2> QED BY <2>2, <2>3, Zenon
<1>6. RunInv'
  BY <1>1, <1>2, RunFrame, Zenon DEF Named
<1>7. FunctionInv' /\ OverlapInv' /\ LiveInv'
  <2>1. ~Named(j, DeployAts \cup DeleteAts) /\ ~Named(job[h], {"DeleteFunction"})
    BY <1>1, <1>2, Zenon DEF Named, DeployAts, DeleteAts
  <2> QED BY <1>1, <2>1, FunctionFrame, Zenon
<1>8. RequestInv'
  BY <1>1, <1>2, RequestFrame, Zenon DEF Named, Pending
<1> QED BY <1>4, <1>5, <1>6, <1>7, <1>8, Zenon

\* CreateProject stores the project that its request was let through for.
LEMMA CreateProjectStores ==
  ASSUME IInv, NEW h \in Handlers, NEW p \in Projects, CreateProject(h, p)
  PROVE  IInv'
<1> USE DEF IInv
<1>1. /\ Named(job[h], {"CreateProject"}) /\ Change(h, Absent) /\ projects[p] = Absent
      /\ projects' = [projects EXCEPT ![p] = job[h].who]
      /\ UNCHANGED <<repository, access, runs, functions, requests, openfaas, disturbed>>
  BY Zenon DEF CreateProject, At, Idle, Done, Change, IsNew, Named
<1>2. JobInv(job[h], requests, repository) /\ job[h].who \in Who /\ job[h].who # Absent
  BY <1>1, AccessAssumption, Zenon DEF JobsInv, JobInv, Named
<1>3. \A ats : ~Named(Absent, ats)
  BY Zenon DEF Named
<1>4. JobsInv'
  <2>1. JobInv(Absent, requests', repository')
    BY <1>3, Zenon DEF JobInv
  <2> QED BY <1>1, <2>1, JobsFrame, Zenon
<1>5. projects' \in [Projects -> Who \cup {"nobody", Absent}] /\ projects'[p] = job[h].who
      /\ \A q \in Projects \ {p} : projects'[q] = projects[q]
  BY <1>1, <1>2, Zenon DEF StoreInv
<1>6. StoreInv'
  <2>1. \A r \in StoredRuns' : projects'[runs'[r].project] # Absent
    <3> SUFFICES ASSUME NEW r \in StoredRuns PROVE projects'[runs[r].project] # Absent
      BY <1>1, Zenon DEF StoredRuns
    <3>1. projects[runs[r].project] # Absent /\ runs[r].project \in Projects
      BY DEF StoreInv, StoredRuns, Run
    <3> QED BY <1>2, <1>5, <3>1, Zenon
  <2> QED BY <1>1, <1>5, <2>1 DEF StoreInv, StoredRuns, StoredFunctions
<1>7. ASSUME NEW s \in Subjects
      PROVE  /\ Owned(s)' \subseteq Owned(s) \cup {p}
             /\ job[h].who # s => Owned(s)' \subseteq Owned(s)
  BY <1>5, Zenon DEF Owned
<1>8. ProjectInv'
  <2> SUFFICES ASSUME NEW s \in Subjects
               PROVE  Within(Owned(s)', Doing(s, "CreateProject")', Limit("projects"))
    BY Zenon DEF ProjectInv
  <2>1. Within(Owned(s), Doing(s, "CreateProject"), Limit("projects")) /\ Limit("projects") \in Int
        /\ Doing(s, "CreateProject") \subseteq Handlers
    BY MostGranted, Zenon DEF ProjectInv, Doing, Kinds
  <2>2. Doing(s, "CreateProject")' \subseteq Doing(s, "CreateProject") \ {h}
    BY <1>1, <1>3, Jobs, Zenon DEF Doing
  <2>3. CASE s = job[h].who
    <3>1. h \in Doing(s, "CreateProject")
      BY <1>1, <2>3, Zenon DEF Doing
    <3>2. PICK S, T, S1, T1, limit : S = Owned(s) /\ T = Doing(s, "CreateProject") /\ S1 = Owned(s)'
                                      /\ T1 = Doing(s, "CreateProject")' /\ limit = Limit("projects")
      BY Zenon
    <3>3. S1 \in SUBSET (S \cup {p}) /\ T1 \in SUBSET (T \ {h})
      BY <1>7, <2>2, <3>2, Zenon
    <3>4. T \in SUBSET Handlers /\ limit \in Int /\ Within(S, T, limit) /\ h \in T
      BY <2>1, <3>1, <3>2, Zenon
    <3>5. Within(S1, T1, limit)
      BY <3>3, <3>4, WithinMove, Zenon
    <3> QED BY <3>2, <3>5, Zenon
  <2>4. CASE s # job[h].who
    BY <1>7, <2>1, <2>2, <2>4, WithinLess, Zenon
  <2> QED BY <2>3, <2>4, Zenon
<1>9. RunInv'
  <2> SUFFICES ASSUME NEW s \in Subjects
               PROVE  Within(Running(s)', Doing(s, "SubmitPipeline")', Limit("runs"))
    BY Zenon DEF RunInv
  <2>1. Within(Running(s), Doing(s, "SubmitPipeline"), Limit("runs")) /\ Limit("runs") \in Int
        /\ Doing(s, "SubmitPipeline") \subseteq Handlers
    BY MostGranted, Zenon DEF RunInv, Doing, Kinds
  <2>2. Doing(s, "SubmitPipeline")' \subseteq Doing(s, "SubmitPipeline")
    BY <1>1, <1>3, Jobs, Zenon DEF Doing
  <2>3. Running(s)' \subseteq Running(s)
    <3> SUFFICES ASSUME NEW r \in Running(s)' PROVE r \in Running(s)
      BY Zenon
    <3>1. r \in Runs /\ runs[r] # Absent /\ runs[r].active /\ runs[r].by = s /\ runs[r].project \in Owned(s)'
      BY <1>1, Zenon DEF Running, ActiveRuns
    <3>2. projects[runs[r].project] # Absent
      BY <3>1, Zenon DEF StoreInv, StoredRuns
    <3>3. runs[r].project \in Owned(s)
      BY <1>1, <1>7, <3>1, <3>2, Zenon
    <3> QED BY <3>1, <3>3, Zenon DEF Running, ActiveRuns
  <2> QED BY <2>1, <2>2, <2>3, WithinLess, Zenon
<1>10. FunctionInv' /\ OverlapInv' /\ LiveInv'
  <2>1. ~Named(job[h], {"DeleteFunction"})
    BY <1>1, Zenon DEF Named
  <2> QED BY <1>1, <1>3, <2>1, FunctionFrame, Zenon
<1>11. RequestInv'
  BY <1>1, <1>3, RequestFrame, Zenon DEF Pending
<1> QED BY <1>4, <1>6, <1>8, <1>9, <1>10, <1>11, Zenon

\* enforceRunQuota has counted the active runs of the subject's own projects, and
\* of those that were granted.
LEMMA RunBegins ==
  ASSUME IInv, NEW h \in Handlers, NEW who \in Principals, NEW p \in Projects, enforceRunQuota(who),
         Begin(h, [at |-> "SubmitPipeline", who |-> who.subject, project |-> p]), UNCHANGED disturbed
  PROVE  IInv'
<1> DEFINE j == [at |-> "SubmitPipeline", who |-> who.subject, project |-> p]
<1> USE DEF IInv
<1>1. /\ Change(h, j) /\ job[h] = Absent
      /\ UNCHANGED <<repository, access, projects, runs, functions, requests, openfaas, disturbed>>
  BY Zenon DEF Begin, Idle, Change, stored
<1>2. j.at = "SubmitPipeline" /\ j.who = who.subject /\ who.subject \in Who /\ j.project = p
  BY Quota, Zenon DEF Kinds
<1> HIDE DEF j
<1>3. JobInv(j, requests', repository')
  BY <1>2, Zenon DEF JobInv, Named, DeployAts, DeleteAts
<1>4. StoreInv' /\ JobsInv'
  BY <1>1, <1>3, StoreFrame, JobsFrame, Zenon
<1>5. ProjectInv'
  BY <1>1, <1>2, ProjectFrame, Zenon DEF Named
<1>6. RunInv'
  <2> SUFFICES ASSUME NEW s \in Subjects
               PROVE  Within(Running(s)', Doing(s, "SubmitPipeline")', Limit("runs"))
    BY Zenon DEF RunInv
  <2>1. Within(Running(s), Doing(s, "SubmitPipeline"), Limit("runs")) /\ Running(s)' = Running(s)
        /\ Doing(s, "SubmitPipeline")' \subseteq Handlers /\ Doing(s, "SubmitPipeline") \subseteq Handlers
    BY <1>1 DEF RunInv, Running, ActiveRuns, Owned, Doing
  <2>2. CASE s = who.subject
    <3> DEFINE S == ActiveRuns(allowedProjectIDs(who))
    <3>1. PICK m \in Granted("runs") : Cardinality(S) < m
      BY <2>2, Quota, Zenon DEF enforceRunQuota, Kinds
    <3>2. PICK most \in Int : most = Max(Granted("runs")) /\ m \in Int /\ m <= most
      BY MostGranted DEF Kinds
    <3>3. IsFiniteSet(S)
      <4>1. S \subseteq StoredRuns /\ IsFiniteSet(StoredRuns)
        BY Zenon DEF ActiveRuns, StoredRuns, StoreInv
      <4> QED BY <4>1, FS_Subset, Zenon
    <3>4. Running(s) \subseteq S
      <4>1. who.privileged = FALSE
        BY <2>2, Quota, Zenon DEF Kinds
      <4>2. Owned(s) \subseteq allowedProjectIDs(who)
        BY <2>2, <4>1, Zenon DEF allowedProjectIDs
      <4> QED BY <4>2, Zenon DEF Running, ActiveRuns
    <3> HIDE DEF S
    <3>5. Cardinality(S) < most
      <4>1. Cardinality(S) \in Nat
        BY <3>3, FS_CardinalityType, Zenon
      <4> QED BY <3>1, <3>2, <4>1
    <3> QED BY <2>1, <3>2, <3>3, <3>4, <3>5, WithinStart, Zenon DEF Limit
  <2>3. CASE s # who.subject
    <3>1. Doing(s, "SubmitPipeline")' \subseteq Doing(s, "SubmitPipeline")
      BY <1>1, <1>2, <2>3, Jobs DEF Doing
    <3> QED BY <2>1, <3>1, WithinLess, MostGranted, Zenon DEF Kinds
  <2> QED BY <2>2, <2>3, Zenon
<1>7. FunctionInv' /\ OverlapInv' /\ LiveInv'
  <2>1. ~Named(j, DeployAts \cup DeleteAts) /\ ~Named(job[h], {"DeleteFunction"})
    BY <1>1, <1>2, Zenon DEF Named, DeployAts, DeleteAts
  <2> QED BY <1>1, <2>1, FunctionFrame, Zenon
<1>8. RequestInv'
  BY <1>1, <1>2, RequestFrame, Zenon DEF Named, Pending
<1> QED BY <1>4, <1>5, <1>6, <1>7, <1>8, Zenon

\* SubmitPipeline and RetryRun store the run that their request was let through
\* for, in a project that is there.
LEMMA RunStored ==
  ASSUME IInv, NEW h \in Handlers, NEW r \in Runs, StoreRun(h, r)
  PROVE  IInv'
<1> USE DEF IInv
<1>1. /\ Named(job[h], {"SubmitPipeline"}) /\ Change(h, Absent) /\ runs[r] = Absent
      /\ runs' = IF projects[job[h].project] = Absent THEN runs
                 ELSE [runs EXCEPT ![r] = [project |-> job[h].project, by |-> job[h].who, active |-> TRUE]]
      /\ UNCHANGED <<repository, access, projects, functions, requests, openfaas, disturbed>>
  BY Zenon DEF StoreRun, At, Idle, Done, Change, IsNew, Named
<1>2. job[h].who \in Who /\ job[h].project \in Projects
  BY <1>1, Zenon DEF JobsInv, JobInv, Named
<1>3. \A ats : ~Named(Absent, ats)
  BY Zenon DEF Named
<1>4. JobsInv'
  <2>1. JobInv(Absent, requests', repository')
    BY <1>3, Zenon DEF JobInv
  <2> QED BY <1>1, <2>1, JobsFrame, Zenon
<1>5. /\ runs' \in [Runs -> Run \cup {Absent}]
      /\ \A i \in Runs \ {r} : runs'[i] = runs[i]
      /\ runs'[r] = Absent \/ (projects[runs'[r].project] # Absent /\ runs'[r].by = job[h].who)
  <2>1. CASE projects[job[h].project] = Absent
    BY <1>1, <2>1, Zenon DEF StoreInv
  <2>2. CASE projects[job[h].project] # Absent
    <3> DEFINE v == [project |-> job[h].project, by |-> job[h].who, active |-> TRUE]
    <3>1. v \in Run /\ v.project = job[h].project /\ v.by = job[h].who
      BY <1>2, Zenon DEF Run
    <3>2. runs' = [runs EXCEPT ![r] = v]
      BY <1>1, <2>2, Zenon
    <3> HIDE DEF v
    <3> QED BY <2>2, <3>1, <3>2, Zenon DEF StoreInv
  <2> QED BY <2>1, <2>2, Zenon
<1>6. StoreInv'
  <2>1. IsFiniteSet(StoredRuns')
    <3>1. StoredRuns' \subseteq StoredRuns \cup {r}
      BY <1>5, Zenon DEF StoredRuns
    <3>2. IsFiniteSet(StoredRuns \cup {r})
      BY FS_AddElement, Zenon DEF StoreInv
    <3> QED BY <3>1, <3>2, FS_Subset, Zenon
  <2>2. \A i \in StoredRuns' : projects'[runs'[i].project] # Absent
    BY <1>1, <1>5, Zenon DEF StoreInv, StoredRuns
  <2> QED BY <1>1, <1>5, <2>1, <2>2, ZenonT(30) DEF StoreInv, StoredFunctions
<1>7. ProjectInv'
  BY <1>1, <1>3, ProjectFrame, Zenon
<1>8. RunInv'
  <2> SUFFICES ASSUME NEW s \in Subjects
               PROVE  Within(Running(s)', Doing(s, "SubmitPipeline")', Limit("runs"))
    BY Zenon DEF RunInv
  <2>1. Within(Running(s), Doing(s, "SubmitPipeline"), Limit("runs")) /\ Limit("runs") \in Int
        /\ Doing(s, "SubmitPipeline") \subseteq Handlers
    BY MostGranted, Zenon DEF RunInv, Doing, Kinds
  <2>2. Doing(s, "SubmitPipeline")' \subseteq Doing(s, "SubmitPipeline") \ {h}
    BY <1>1, <1>3, Jobs, Zenon DEF Doing
  <2>3. Running(s)' \subseteq Running(s) \cup {r} /\ (job[h].who # s => Running(s)' \subseteq Running(s))
    BY <1>1, <1>5, Zenon DEF Running, ActiveRuns, Owned
  <2>4. CASE s = job[h].who
    <3>1. h \in Doing(s, "SubmitPipeline")
      BY <1>1, <2>4, Zenon DEF Doing
    <3>2. PICK S, T, S1, T1, limit : S = Running(s) /\ T = Doing(s, "SubmitPipeline") /\ S1 = Running(s)'
                                      /\ T1 = Doing(s, "SubmitPipeline")' /\ limit = Limit("runs")
      BY Zenon
    <3>3. S1 \in SUBSET (S \cup {r}) /\ T1 \in SUBSET (T \ {h})
      BY <2>2, <2>3, <3>2, Zenon
    <3>4. T \in SUBSET Handlers /\ limit \in Int /\ Within(S, T, limit) /\ h \in T
      BY <2>1, <3>1, <3>2, Zenon
    <3>5. Within(S1, T1, limit)
      BY <3>3, <3>4, WithinMove, Zenon
    <3> QED BY <3>2, <3>5, Zenon
  <2>5. CASE s # job[h].who
    BY <2>1, <2>2, <2>3, <2>5, WithinLess, Zenon
  <2> QED BY <2>4, <2>5, Zenon
<1>9. FunctionInv' /\ OverlapInv' /\ LiveInv'
  <2>1. ~Named(job[h], {"DeleteFunction"})
    BY <1>1, Zenon DEF Named
  <2> QED BY <1>1, <1>3, <2>1, FunctionFrame, Zenon
<1>10. RequestInv'
  BY <1>1, <1>3, RequestFrame, Zenon DEF Pending
<1> QED BY <1>4, <1>6, <1>7, <1>8, <1>9, <1>10, Zenon

\* A run that ends is no longer active.
LEMMA RunEnds ==
  ASSUME IInv, NEW r \in Runs, runEnds(r)
  PROVE  IInv'
<1> USE DEF IInv
<1>1. /\ runs[r] # Absent /\ runs' = [runs EXCEPT ![r].active = FALSE]
      /\ UNCHANGED <<repository, access, projects, functions, openfaas, requests, job, disturbed>>
  BY Zenon DEF runEnds
<1>2. runs[r] \in Run
  BY <1>1 DEF StoreInv
<1>3. [runs[r] EXCEPT !.active = FALSE] \in Run /\ [runs[r] EXCEPT !.active = FALSE].project = runs[r].project
      /\ [runs[r] EXCEPT !.active = FALSE].active = FALSE
  BY <1>2, Zenon DEF Run
<1>4. /\ runs' \in [Runs -> Run \cup {Absent}] /\ runs'[r].project = runs[r].project /\ runs'[r].active = FALSE
      /\ \A i \in Runs \ {r} : runs'[i] = runs[i]
  BY <1>1, <1>3, Zenon DEF StoreInv
<1>5. StoredRuns' \subseteq StoredRuns
  BY <1>1, <1>4, Zenon DEF StoredRuns
<1>6. StoreInv'
  <2>1. IsFiniteSet(StoredRuns')
    BY <1>5, FS_Subset, Zenon DEF StoreInv
  <2>2. \A i \in StoredRuns' : projects'[runs'[i].project] # Absent
    BY <1>1, <1>4, <1>5 DEF StoreInv
  <2> QED BY <1>1, <1>4, <2>1, <2>2 DEF StoreInv, StoredFunctions
<1>7. JobsInv' /\ OverlapInv' /\ LiveInv'
  BY <1>1, Zenon DEF JobsInv, OverlapInv, LiveInv
<1>8. ProjectInv'
  BY <1>1, Zenon DEF ProjectInv, Owned, Doing
<1>9. RunInv'
  <2> SUFFICES ASSUME NEW s \in Subjects
               PROVE  Within(Running(s)', Doing(s, "SubmitPipeline")', Limit("runs"))
    BY Zenon DEF RunInv
  <2>1. Within(Running(s), Doing(s, "SubmitPipeline"), Limit("runs")) /\ Limit("runs") \in Int
        /\ Doing(s, "SubmitPipeline") \subseteq Handlers
    BY MostGranted, Zenon DEF RunInv, Doing, Kinds
  <2>2. Doing(s, "SubmitPipeline")' = Doing(s, "SubmitPipeline")
    BY <1>1, Zenon DEF Doing
  <2>3. Running(s)' \subseteq Running(s)
    BY <1>1, <1>4, Zenon DEF Running, ActiveRuns, Owned
  <2> QED BY <2>1, <2>2, <2>3, WithinLess, Zenon
<1>10. FunctionInv' /\ RequestInv'
  BY <1>1 DEF FunctionInv, RequestInv, Claimed, OwnFunctions, Claims, Pending, Asking
<1> QED BY <1>6, <1>7, <1>8, <1>9, <1>10, Zenon

-----------------------------------------------------------------------------
(* Functions *)

\* Requests about functions leave projects, runs and access requests alone.
LEMMA OthersFrame ==
  ASSUME JobsInv, ProjectInv, RunInv, RequestInv, NEW h \in Handlers, NEW j, Change(h, j),
         Named(j, DeployAts \cup DeleteAts) \/ j = Absent, UNCHANGED <<repository, projects, runs, requests>>
  PROVE  ProjectInv' /\ RunInv' /\ RequestInv'
<1>1. ~Named(j, {"CreateProject"}) /\ ~Named(j, {"SubmitPipeline"}) /\ ~Named(j, {"WriteRequest"})
  BY Zenon DEF Named, DeployAts, DeleteAts
<1> QED BY <1>1, ProjectFrame, RunFrame, RequestFrame, Zenon DEF Pending

\* A request about a function notes the deletions that it overlaps, and a deletion
\* the deployments too.
LEMMA OverlapNoted ==
  ASSUME JobsInv, OverlapInv, NEW h \in Handlers, NEW j, Change(h, j), NEW ats,
         disturbed' = disturbed \cup Overlaps(h, j.name, ats),
         DeleteAts \subseteq ats, Named(j, DeleteAts) => DeployAts \subseteq ats
  PROVE  OverlapInv'
<1> SUFFICES ASSUME NEW f \in Handlers, NEW g \in Handlers, f # g,
                    Named(job'[f], DeployAts \cup DeleteAts), Named(job'[g], DeleteAts),
                    job'[f].name = job'[g].name
             PROVE  job'[g].name \in disturbed'
  BY Zenon DEF OverlapInv
<1>1. CASE f = h
  <2>1. g # h /\ job'[g] = job[g] /\ job'[f] = j
    BY <1>1, Jobs, Zenon
  <2>2. Named(job[g], ats)
    BY <2>1, Zenon DEF Named
  <2>3. j.name \in Overlaps(h, j.name, ats)
    BY <2>1, <2>2, Zenon DEF Overlaps, Idle, Named
  <2> QED BY <2>1, <2>3, Zenon
<1>2. CASE g = h
  <2>1. f # h /\ job'[f] = job[f] /\ job'[g] = j
    BY <1>2, Jobs, Zenon
  <2>2. Named(job[f], ats)
    BY <2>1, Zenon DEF Named
  <2>3. j.name \in Overlaps(h, j.name, ats)
    BY <2>1, <2>2, Zenon DEF Overlaps, Idle, Named
  <2> QED BY <2>1, <2>3, Zenon
<1>3. CASE f # h /\ g # h
  <2>1. job'[f] = job[f] /\ job'[g] = job[g]
    BY <1>3, Jobs, Zenon
  <2>2. job[g].name \in disturbed
    BY <2>1, Zenon DEF OverlapInv
  <2> QED BY <2>1, <2>2, Zenon
<1> QED BY <1>1, <1>2, <1>3, Zenon

\* The functions of a subject and a name for each handler.
LEMMA WithinNames ==
  ASSUME NEW S, IsFiniteSet(S), NEW most \in Int, Cardinality(S) < most, NEW f,
         f = [g \in Handlers |-> f[g]], NEW S1 \in SUBSET (S \cup {f[g] : g \in Handlers})
  PROVE  Within(S1, {}, most + Cardinality(Handlers) - 1)
<1> DEFINE I == {f[g] : g \in Handlers}
<1>1. f \in Surjection(Handlers, I)
  BY Zenon DEF Surjection
<1>2. S1 \in SUBSET (S \cup I)
  BY Zenon
<1> HIDE DEF I
<1>3. IsFiniteSet(I) /\ Cardinality(I) <= Cardinality(Handlers)
  BY <1>1, AccessAssumption, FS_Surjection, Zenon
<1>4. IsFiniteSet(S \cup I) /\ IsFiniteSet(S \cap I)
      /\ Cardinality(S \cup I) = Cardinality(S) + Cardinality(I) - Cardinality(S \cap I)
  <2>1. IsFiniteSet(S \cap I)
    BY FS_Subset, Zenon
  <2> QED BY <1>3, <2>1, FS_Union, Zenon
<1>5. IsFiniteSet(S1) /\ Cardinality(S1) <= Cardinality(S \cup I)
  BY <1>2, <1>4, FS_Subset, Zenon
<1>6. /\ Cardinality(S) \in Nat /\ Cardinality(I) \in Nat /\ Cardinality(S \cap I) \in Nat
      /\ Cardinality(S1) \in Nat /\ Cardinality(Handlers) \in Nat
  BY <1>3, <1>4, <1>5, AccessAssumption, FS_CardinalityType, Zenon
<1>7. Cardinality({}) = 0
  BY FS_EmptySet, Zenon
<1>8. Cardinality(S1) + Cardinality({}) <= most + Cardinality(Handlers) - 1
  BY <1>3, <1>4, <1>5, <1>6, <1>7
<1> QED BY <1>5, <1>8, Zenon DEF Within

\* enforceFunctionQuota has counted the functions that the subject owns; without
\* it the function is there already.
LEMMA DeployBegins ==
  ASSUME IInv, NEW h \in Handlers, NEW who \in Principals, NEW p \in Projects, NEW n \in Names,
         deployFunction(h, who, p, n)
  PROVE  IInv'
<1> DEFINE j == [at |-> "DeployFunction", who |-> who.subject, project |-> p, name |-> n]
<1> USE DEF IInv
<1>1. /\ Change(h, j) /\ job[h] = Absent /\ disturbed' = disturbed \cup Overlaps(h, n, DeleteAts)
      /\ UNCHANGED <<repository, access, projects, runs, functions, requests, openfaas>>
  BY Zenon DEF deployFunction, Begin, Idle, Change, stored, DeleteAts
<1>2. j.at = "DeployFunction" /\ j.who = who.subject /\ who.subject \in Who /\ j.project = p /\ j.name = n
      /\ j = [at |-> j.at, who |-> j.who, project |-> j.project, name |-> j.name]
  BY Quota, Zenon DEF Kinds
<1> HIDE DEF j
<1>3. JobInv(j, requests', repository')
  BY <1>2, Zenon DEF JobInv, Named, DeployAts, DeleteAts
<1>4. StoreInv' /\ JobsInv'
  BY <1>1, <1>3, StoreFrame, JobsFrame, Zenon
<1>5. ProjectInv' /\ RunInv' /\ RequestInv'
  <2>1. Named(j, DeployAts \cup DeleteAts) \/ j = Absent
    BY <1>2, Zenon DEF Named, DeployAts
  <2> QED BY <1>1, <2>1, OthersFrame, Zenon
<1>6. OverlapInv'
  <2>1. ~Named(j, DeleteAts)
    BY <1>2, Zenon DEF Named, DeleteAts
  <2> QED BY <1>1, <1>2, <2>1, OverlapNoted, Zenon
<1>7. LiveInv'
  <2>1. ~Named(j, {"UpsertFunction", "WriteFunction"}) /\ ~Named(job[h], {"DeleteFunction"})
    BY <1>1, <1>2, Zenon DEF Named
  <2> QED BY <1>1, <2>1, LiveFrame, Zenon
<1>8. ASSUME NEW s \in Subjects PROVE Within((Claimed(s) \ disturbed)', {}, Limit("functions"))
  <2>1. CASE \A m \in Names : ~Claims(j, m, s)
    BY <1>1, <2>1, ClaimsKept, Zenon
  <2>2. CASE \E m \in Names : Claims(j, m, s)
    <3>1. s = who.subject /\ functions[n] = Absent
      BY <1>2, <2>2, Zenon DEF Claims, Named
    <3>2. who.privileged = FALSE
      BY <3>1, Quota, Zenon DEF Kinds
    <3>3. enforceFunctionQuota(who)
      BY <3>1, <3>2, Zenon DEF deployFunction, functionAllowed
    <3>4. PICK m \in Granted("functions") : Cardinality(OwnFunctions(s)) < m
      BY <3>1, <3>3, Quota, Zenon DEF enforceFunctionQuota, Kinds
    <3>5. PICK most \in Int : most = Max(Granted("functions")) /\ m \in Int /\ m <= most
      BY MostGranted DEF Kinds
    <3>6. IsFiniteSet(OwnFunctions(s))
      <4>1. OwnFunctions(s) \subseteq StoredFunctions /\ IsFiniteSet(StoredFunctions)
        BY Zenon DEF OwnFunctions, StoredFunctions, StoreInv
      <4> QED BY <4>1, FS_Subset, Zenon
    <3>7. Cardinality(OwnFunctions(s)) < most
      <4>1. Cardinality(OwnFunctions(s)) \in Nat
        BY <3>6, FS_CardinalityType, Zenon
      <4> QED BY <3>4, <3>5, <4>1
    <3>8. PICK f : f = [g \in Handlers |-> job'[g].name]
      BY Zenon
    <3>9. f = [g \in Handlers |-> f[g]] /\ \A g \in Handlers : f[g] = job'[g].name
      BY <3>8, Zenon
    <3>10. (Claimed(s) \ disturbed)' \in SUBSET (OwnFunctions(s) \cup {f[g] : g \in Handlers})
      <4>1. OwnFunctions(s)' = OwnFunctions(s)
        BY <1>1, Zenon DEF OwnFunctions
      <4>2. ASSUME NEW k, NEW g \in Handlers, Claims(job[g], k, s)' PROVE k = f[g]
        BY <3>9, <4>2, Zenon DEF Claims
      <4> QED BY <4>1, <4>2, Zenon DEF Claimed
    <3> QED BY <3>5, <3>6, <3>7, <3>9, <3>10, WithinNames DEF Limit
  <2> QED BY <2>1, <2>2, Zenon
<1>9. FunctionInv'
  BY <1>8, Zenon DEF FunctionInv
<1> QED BY <1>4, <1>5, <1>6, <1>7, <1>9, Zenon

\* The deployment goes on with the repository once OpenFaaS has the function.
LEMMA DeployCalls ==
  ASSUME IInv, NEW h \in Handlers, OpenFaaSDeploy(h)
  PROVE  IInv'
<1> USE DEF IInv
<1>1. /\ Named(job[h], {"DeployFunction"}) /\ job[h].at = "DeployFunction"
      /\ UNCHANGED <<repository, access, projects, runs, functions, requests, disturbed>>
      /\ openfaas \subseteq openfaas'
  BY Zenon DEF OpenFaaSDeploy, At, Idle, Named, stored
<1>2. /\ JobInv(job[h], requests, repository) /\ job[h].name \in Names /\ job[h].who \in Who /\ job[h].project \in Projects
      /\ job[h] = [at |-> job[h].at, who |-> job[h].who, project |-> job[h].project, name |-> job[h].name]
  BY <1>1, Zenon DEF JobsInv, JobInv, Named, DeployAts
<1>3. CASE Done(h)
  <2>1. Change(h, Absent) /\ \A ats : ~Named(Absent, ats)
    BY <1>3, Zenon DEF Done, Change, Named
  <2>2. JobInv(Absent, requests', repository')
    BY <2>1, Zenon DEF JobInv
  <2>3. StoreInv' /\ JobsInv'
    <3>1. StoreInv'
      BY <1>1, StoreFrame, Zenon
    <3>2. JobsInv'
      BY <1>1, <2>1, <2>2, JobsFrame, Zenon
    <3> QED BY <3>1, <3>2, Zenon
  <2>4. ProjectInv' /\ RunInv' /\ RequestInv'
    BY <1>1, <2>1, OthersFrame, Zenon
  <2>5. FunctionInv'
    BY <1>1, <2>1, ClaimFrame, Zenon DEF Claims
  <2>6. OverlapInv'
    BY <1>1, <2>1, OverlapFrame, Zenon
  <2>7. LiveInv'
    <3>1. ~Named(job[h], {"DeleteFunction"})
      BY <1>1, Zenon DEF Named
    <3> QED BY <1>1, <2>1, <3>1, LiveFrame, Zenon
  <2> QED BY <2>3, <2>4, <2>5, <2>6, <2>7, Zenon
<1>4. CASE openfaas' = openfaas \cup {job[h].name} /\ job' = [job EXCEPT ![h].at = "UpsertFunction"]
  <2> DEFINE j == [at |-> "UpsertFunction", who |-> job[h].who, project |-> job[h].project, name |-> job[h].name]
  <2>1. [job[h] EXCEPT !.at = "UpsertFunction"] = j
    BY <1>2
  <2>2. Change(h, j)
    BY <1>4, <2>1, Zenon DEF Change, JobsInv
  <2>3. j.at = "UpsertFunction" /\ j.who = job[h].who /\ j.project = job[h].project /\ j.name = job[h].name
    BY Zenon
  <2> HIDE DEF j
  <2>4. JobInv(j, requests', repository')
    BY <1>2, <2>3, Zenon DEF JobInv, Named, DeployAts, DeleteAts
  <2>5. StoreInv' /\ JobsInv'
    BY <1>1, <2>2, <2>4, StoreFrame, JobsFrame, Zenon
  <2>6. (Named(j, DeployAts \cup DeleteAts) \/ j = Absent) /\ ~Named(j, DeleteAts)
        /\ Named(job[h], DeployAts \cup DeleteAts) /\ ~Named(job[h], {"DeleteFunction"})
    BY <1>1, <2>3, Zenon DEF Named, DeployAts, DeleteAts
  <2>7. ProjectInv' /\ RunInv' /\ RequestInv'
    BY <1>1, <2>2, <2>6, OthersFrame, Zenon
  <2>8. FunctionInv'
    <3>1. ASSUME NEW n \in Names, NEW s \in Subjects, Claims(j, n, s) PROVE n \in Claimed(s)
      <4>1. Claims(job[h], n, s)
        BY <1>1, <2>3, <3>1, Zenon DEF Claims, Named
      <4> QED BY <4>1, Zenon DEF Claimed
    <3> QED BY <1>1, <2>2, <3>1, ClaimFrame, Zenon
  <2>9. OverlapInv'
    BY <1>1, <2>2, <2>3, <2>6, OverlapFrame, Zenon
  <2>10. LiveInv'
    <3>1. j.name \in openfaas'
      BY <1>4, <2>3, Zenon
    <3> QED BY <1>1, <2>2, <2>6, <3>1, LiveFrame, Zenon
  <2> QED BY <2>5, <2>7, <2>8, <2>9, <2>10, Zenon
<1> QED BY <1>3, <1>4, Zenon DEF OpenFaaSDeploy

\* A request about a function ends and leaves v under the name n.
LEMMA FunctionEnds ==
  ASSUME IInv, NEW h \in Handlers, Change(h, Absent), NEW n \in Names, NEW v \in Function \cup {Absent},
         functions' = [functions EXCEPT ![n] = v],
         UNCHANGED <<repository, access, projects, runs, openfaas, requests>>, disturbed \subseteq disturbed',
         v # Absent => /\ functions[n] # Absent \/ n \in openfaas \/ n \in disturbed
                       /\ \A s \in Subjects : v.owner = s => n \in Claimed(s),
         v = Absent => functions[n] = Absent \/ (Named(job[h], DeleteAts) /\ job[h].name = n),
         Named(job[h], {"DeleteFunction"}) => job[h].name \in disturbed' \/ functions'[job[h].name] = Absent
  PROVE  IInv'
<1> USE DEF IInv
<1>1. /\ functions' \in [Names -> Function \cup {Absent}] /\ functions'[n] = v
      /\ \A m \in Names \ {n} : functions'[m] = functions[m]
  BY Zenon DEF StoreInv
<1>2. StoreInv'
  <2>1. StoredFunctions' \subseteq StoredFunctions \cup {n}
    BY <1>1, Zenon DEF StoredFunctions
  <2>2. IsFiniteSet(StoredFunctions \cup {n})
    BY FS_AddElement, Zenon DEF StoreInv
  <2>3. IsFiniteSet(StoredFunctions')
    BY <2>1, <2>2, FS_Subset, ZenonT(30)
  <2> QED BY <1>1, <2>3 DEF StoreInv, StoredRuns
<1>3. \A ats : ~Named(Absent, ats)
  BY DEF Named
<1>4. JobsInv'
  <2>1. JobInv(Absent, requests', repository')
    BY <1>3, Zenon DEF JobInv
  <2> QED BY <2>1, JobsFrame
<1>5. ProjectInv' /\ RunInv' /\ RequestInv'
  BY OthersFrame, Zenon
<1>6. FunctionInv'
  BY ClaimStored, Zenon
<1>7. OverlapInv'
  BY <1>3, OverlapFrame, Zenon
<1>8. LiveInv'
  <2>1. \A m \in Names : functions'[m] # Absent => functions[m] # Absent \/ m \in openfaas \/ m \in disturbed'
    BY <1>1, Zenon
  <2> QED BY <1>3, <2>1, LiveFrame, Zenon
<1> QED BY <1>2, <1>4, <1>5, <1>6, <1>7, <1>8, Zenon

\* What a deployment leaves: a function that was there stays its owner's, and a new
\* one is claimed by the deployment.
LEMMA Upserts ==
  ASSUME IInv, NEW h \in Handlers, At(h, "UpsertFunction"),
         NEW v, v = Upserted(functions[job[h].name], job[h])
  PROVE  /\ job[h].name \in Names /\ v \in Function \cup {Absent}
         /\ v = Absent => functions[job[h].name] = Absent
         /\ v # Absent => \A s \in Subjects : v.owner = s => job[h].name \in Claimed(s)
         /\ functions[job[h].name] = Absent /\ projects[job[h].project] # Absent => v # Absent
         /\ functions[job[h].name] # Absent => v # Absent
         /\ job[h].name \in openfaas \/ job[h].name \in disturbed
<1> DEFINE n == job[h].name
<1> USE DEF IInv
<1>1. Named(job[h], {"UpsertFunction"}) /\ Named(job[h], DeployAts \cup DeleteAts)
      /\ Named(job[h], {"UpsertFunction", "WriteFunction"}) /\ Named(job[h], {"DeployFunction", "UpsertFunction"})
  BY Zenon DEF At, Idle, Named, DeployAts
<1>2. n \in Names /\ job[h].who \in Who /\ job[h].project \in Projects
  BY <1>1, Zenon DEF JobsInv, JobInv, Named
<1>3. functions[n] \in Function \cup {Absent}
  BY <1>2, Zenon DEF StoreInv
<1>4. n \in openfaas \/ n \in disturbed
  BY <1>1, <1>2, ZenonT(30) DEF LiveInv
<1>5. CASE v = functions[n] /\ ~(functions[n] = Absent /\ projects[job[h].project] # Absent)
  <2>1. ASSUME v # Absent, NEW s \in Subjects, v.owner = s PROVE n \in Claimed(s)
    BY <1>2, <1>5, <2>1 DEF Claimed, OwnFunctions
  <2>2. v \in Function \cup {Absent} /\ (v = Absent => functions[n] = Absent) /\ (functions[n] # Absent => v # Absent)
    BY <1>3, <1>5, Zenon
  <2> QED BY <1>2, <1>4, <1>5, <2>1, <2>2, Zenon
<1>6. CASE functions[n] = Absent /\ v = [project |-> job[h].project, owner |-> job[h].who]
  <2>1. v \in Function /\ v.owner = job[h].who /\ v # Absent
    BY <1>2, <1>6, AccessAssumption DEF Function
  <2>2. ASSUME NEW s \in Subjects, v.owner = s PROVE n \in Claimed(s)
    BY <1>1, <1>2, <1>6, <2>1, <2>2, Zenon DEF Claimed, Claims
  <2> QED BY <1>2, <1>4, <2>1, <2>2
<1> QED BY <1>5, <1>6, Zenon DEF Upserted

\* UpsertFunction stores the function at once in the file store.
LEMMA Upsert ==
  ASSUME IInv, NEW h \in Handlers, UpsertFunction(h)
  PROVE  IInv'
<1>1. /\ At(h, "UpsertFunction") /\ Change(h, Absent)
      /\ functions' = [functions EXCEPT ![job[h].name] = Upserted(functions[job[h].name], job[h])]
      /\ UNCHANGED <<repository, access, projects, runs, openfaas, requests, disturbed>>
  BY Zenon DEF UpsertFunction, Done, Change
<1>2. PICK v, n : v = Upserted(functions[job[h].name], job[h]) /\ n = job[h].name
  BY Zenon
<1>3. /\ n \in Names /\ v \in Function \cup {Absent}
      /\ v = Absent => functions[n] = Absent
      /\ v # Absent => \A s \in Subjects : v.owner = s => n \in Claimed(s)
      /\ n \in openfaas \/ n \in disturbed
  BY <1>1, <1>2, Upserts, Zenon
<1>4. functions' = [functions EXCEPT ![n] = v]
  BY <1>1, <1>2, Zenon
<1>5. ~Named(job[h], {"DeleteFunction"})
  BY <1>1, Zenon DEF At, Named
<1> QED BY <1>1, <1>3, <1>4, <1>5, FunctionEnds, Zenon

\* In PostgreSQL it decides what a later statement writes.
LEMMA PgUpsert ==
  ASSUME IInv, NEW h \in Handlers, PgUpsertFunction(h)
  PROVE  IInv'
<1> USE DEF IInv
<1> DEFINE refused == projects[job[h].project] = Absent
                      \/ (functions[job[h].name] # Absent /\ functions[job[h].name].project # job[h].project)
<1>1. /\ At(h, "UpsertFunction")
      /\ job' = [job EXCEPT ![h] = IF refused THEN Absent
                  ELSE [at |-> "WriteFunction", name |-> job[h].name, value |-> Upserted(functions[job[h].name], job[h])]]
      /\ UNCHANGED <<repository, access, projects, runs, functions, openfaas, requests, disturbed>>
  BY Zenon DEF PgUpsertFunction, stored
<1>2. PICK v, n : v = Upserted(functions[job[h].name], job[h]) /\ n = job[h].name
  BY Zenon
<1>3. /\ n \in Names /\ v \in Function \cup {Absent}
      /\ v # Absent => \A s \in Subjects : v.owner = s => n \in Claimed(s)
      /\ n \in openfaas \/ n \in disturbed
      /\ functions[n] = Absent /\ projects[job[h].project] # Absent => v # Absent
      /\ functions[n] # Absent => v # Absent
  BY <1>1, <1>2, Upserts, Zenon
<1>4. Named(job[h], DeployAts \cup DeleteAts) /\ ~Named(job[h], {"DeleteFunction"})
  BY <1>1, Zenon DEF At, Idle, Named, DeployAts
<1>5. CASE refused
  <2>1. Change(h, Absent) /\ \A ats : ~Named(Absent, ats)
    BY <1>1, <1>5, Zenon DEF Change, Named
  <2>2. JobInv(Absent, requests', repository')
    BY <2>1, Zenon DEF JobInv
  <2>3. StoreInv' /\ JobsInv'
    BY <1>1, <2>1, <2>2, StoreFrame, JobsFrame, Zenon
  <2>4. ProjectInv' /\ RunInv' /\ RequestInv'
    BY <1>1, <2>1, OthersFrame, Zenon
  <2>5. FunctionInv' /\ OverlapInv' /\ LiveInv'
    BY <1>1, <1>4, <2>1, FunctionFrame, Zenon
  <2> QED BY <2>3, <2>4, <2>5, Zenon
<1>6. CASE ~refused
  <2> DEFINE j == [at |-> "WriteFunction", name |-> n, value |-> v]
  <2>1. Change(h, j)
    BY <1>1, <1>2, <1>6, Zenon DEF Change
  <2>2. v \in Function /\ v # Absent
    BY <1>2, <1>3, <1>6, Zenon
  <2>3. j.at = "WriteFunction" /\ j.name = n /\ j.value = v
    BY Zenon
  <2> HIDE DEF j, refused
  <2>4. JobInv(j, requests', repository')
    BY <1>3, <2>2, <2>3, Zenon DEF JobInv, Named
  <2>5. StoreInv' /\ JobsInv'
    BY <1>1, <2>1, <2>4, StoreFrame, JobsFrame, Zenon
  <2>6. (Named(j, DeployAts \cup DeleteAts) \/ j = Absent) /\ ~Named(j, DeleteAts)
    BY <2>3, Zenon DEF Named, DeployAts, DeleteAts
  <2>7. ProjectInv' /\ RunInv' /\ RequestInv'
    BY <1>1, <2>1, <2>6, OthersFrame, Zenon
  <2>8. FunctionInv'
    <3>1. ASSUME NEW m \in Names, NEW s \in Subjects, Claims(j, m, s) PROVE m \in Claimed(s)
      <4>1. m = n /\ v.owner = s
        BY <2>3, <3>1, Zenon DEF Claims, Named
      <4> QED BY <1>3, <2>2, <4>1, Zenon
    <3> QED BY <1>1, <2>1, <3>1, ClaimFrame, Zenon
  <2>9. OverlapInv'
    BY <1>1, <1>2, <1>4, <2>1, <2>3, <2>6, OverlapFrame, Zenon
  <2>10. LiveInv'
    BY <1>1, <1>3, <1>4, <2>1, <2>3, LiveFrame, Zenon
  <2> QED BY <2>5, <2>7, <2>8, <2>9, <2>10, Zenon
<1> QED BY <1>5, <1>6, Zenon

\* What was decided earlier is written.
LEMMA Write ==
  ASSUME IInv, NEW h \in Handlers, WriteFunction(h)
  PROVE  IInv'
<1> USE DEF IInv
<1>1. /\ Named(job[h], {"WriteFunction"}) /\ Change(h, Absent)
      /\ functions' = [functions EXCEPT ![job[h].name] = job[h].value]
      /\ UNCHANGED <<repository, access, projects, runs, openfaas, requests, disturbed>>
  BY DEF WriteFunction, At, Idle, Named, Done, Change
<1>2. PICK v, n : v = job[h].value /\ n = job[h].name
  BY Zenon
<1>3. v \in Function /\ n \in Names
  BY <1>1, <1>2, Zenon DEF JobsInv, JobInv, Named, DeployAts
<1>4. n \in openfaas \/ n \in disturbed
  <2>1. Named(job[h], {"UpsertFunction", "WriteFunction"})
    BY <1>1, Zenon DEF Named
  <2> QED BY <1>2, <1>3, <2>1, Zenon DEF LiveInv
<1>5. ASSUME NEW s \in Subjects, v.owner = s PROVE n \in Claimed(s)
  BY <1>1, <1>2, <1>3, <1>5, Zenon DEF Claimed, Claims
<1>6. ~Named(job[h], {"DeleteFunction"}) /\ v # Absent
  BY <1>1, <1>3, AccessAssumption, Zenon DEF Named
<1>7. functions' = [functions EXCEPT ![n] = v]
  BY <1>1, <1>2, Zenon
<1> HIDE DEF IInv
<1> QED BY <1>1, <1>3, <1>4, <1>5, <1>6, <1>7, FunctionEnds, Zenon

\* A deletion notes every request about the function that it overlaps.
LEMMA DeleteBegins ==
  ASSUME IInv, NEW h \in Handlers, NEW who, NEW n \in Names, deleteFunction(h, who, n)
  PROVE  IInv'
<1> DEFINE j == [at |-> "OpenFaaSDelete", name |-> n]
<1> USE DEF IInv
<1>1. /\ Change(h, j) /\ job[h] = Absent
      /\ disturbed' = disturbed \cup Overlaps(h, n, {"DeployFunction", "UpsertFunction", "WriteFunction",
                                                     "OpenFaaSDelete", "DeleteFunction"})
      /\ UNCHANGED <<repository, access, projects, runs, functions, requests, openfaas>>
  BY Zenon DEF deleteFunction, Begin, Idle, Change, stored
<1>2. j.at = "OpenFaaSDelete" /\ j.name = n /\ j = [at |-> j.at, name |-> j.name]
  BY Zenon
<1> HIDE DEF j
<1>3. JobInv(j, requests', repository')
  BY <1>2, Zenon DEF JobInv, Named, DeployAts, DeleteAts
<1>4. StoreInv' /\ JobsInv'
  BY <1>1, <1>3, StoreFrame, JobsFrame, Zenon
<1>5. ProjectInv' /\ RunInv' /\ RequestInv'
  <2>1. Named(j, DeployAts \cup DeleteAts) \/ j = Absent
    BY <1>2, Zenon DEF Named, DeleteAts
  <2> QED BY <1>1, <2>1, OthersFrame, Zenon
<1>6. OverlapInv'
  <2>1. PICK ats : ats = {"DeployFunction", "UpsertFunction", "WriteFunction", "OpenFaaSDelete", "DeleteFunction"}
    BY Zenon
  <2>2. DeleteAts \subseteq ats /\ DeployAts \subseteq ats
    BY <2>1, Zenon DEF DeleteAts, DeployAts
  <2> QED BY <1>1, <1>2, <2>1, <2>2, OverlapNoted, Zenon
<1>7. ~Named(j, {"UpsertFunction", "WriteFunction"}) /\ ~Named(job[h], {"DeleteFunction"})
      /\ \A m, s : ~Claims(j, m, s)
  BY <1>1, <1>2, Zenon DEF Named, Claims
<1>8. FunctionInv' /\ LiveInv'
  BY <1>1, <1>7, ClaimFrame, LiveFrame, Zenon
<1> QED BY <1>4, <1>5, <1>6, <1>8, Zenon

\* The deletion goes on with the repository once OpenFaaS has removed the function.
LEMMA DeleteCalls ==
  ASSUME IInv, NEW h \in Handlers, OpenFaaSDelete(h)
  PROVE  IInv'
<1> USE DEF IInv
<1>1. /\ Named(job[h], {"OpenFaaSDelete"}) /\ job[h].at = "OpenFaaSDelete"
      /\ UNCHANGED <<repository, access, projects, runs, functions, requests>>
      /\ disturbed \subseteq disturbed'
  BY Zenon DEF OpenFaaSDelete, At, Idle, Named, stored
<1>2. PICK n : n = job[h].name
  BY Zenon
<1>3. n \in Names /\ job[h] = [at |-> job[h].at, name |-> n]
  BY <1>1, <1>2, Zenon DEF JobsInv, JobInv, Named, DeleteAts
<1>4. Named(job[h], DeployAts \cup DeleteAts) /\ Named(job[h], DeleteAts) /\ ~Named(job[h], {"DeleteFunction"})
  BY <1>1, Zenon DEF Named, DeleteAts
<1>5. CASE /\ Done(h)
           /\ \A m \in Names : m \in openfaas => m \in openfaas' \/ m \in disturbed'
  <2>1. Change(h, Absent) /\ \A ats : ~Named(Absent, ats)
    BY <1>5, Zenon DEF Done, Change, Named
  <2>2. JobInv(Absent, requests', repository')
    BY <2>1, Zenon DEF JobInv
  <2>3. StoreInv' /\ JobsInv'
    BY <1>1, <2>1, <2>2, StoreFrame, JobsFrame, ZenonT(30)
  <2>4. ProjectInv' /\ RunInv' /\ RequestInv'
    BY <1>1, <2>1, OthersFrame, Zenon
  <2>5. FunctionInv'
    BY <1>1, <2>1, ClaimFrame, Zenon DEF Claims
  <2>6. OverlapInv'
    BY <1>1, <2>1, OverlapFrame
  <2>7. LiveInv'
    BY <1>1, <1>4, <1>5, <2>1, LiveFrame, Zenon
  <2> QED BY <2>3, <2>4, <2>5, <2>6, <2>7, Zenon
<1>6. CASE openfaas' = openfaas \ {n} /\ job' = [job EXCEPT ![h].at = "DeleteFunction"] /\ UNCHANGED disturbed
  <2> DEFINE j == [at |-> "DeleteFunction", name |-> n]
  <2>1. [job[h] EXCEPT !.at = "DeleteFunction"] = j
    BY <1>3
  <2>2. Change(h, j)
    BY <1>6, <2>1, Zenon DEF Change, JobsInv
  <2>3. j.at = "DeleteFunction" /\ j.name = n /\ j # Absent
    BY <1>3, AccessAssumption
  <2> HIDE DEF j
  <2>4. JobInv(j, requests', repository')
    BY <1>3, <2>3, Zenon DEF JobInv, Named, DeployAts, DeleteAts
  <2>5. StoreInv' /\ JobsInv'
    BY <1>1, <2>2, <2>4, StoreFrame, JobsFrame, Zenon
  <2>6. Named(j, DeployAts \cup DeleteAts) /\ Named(j, {"DeleteFunction"})
        /\ ~Named(j, {"UpsertFunction", "WriteFunction"}) /\ \A m, s : ~Claims(j, m, s)
    BY <2>3, Zenon DEF Named, DeleteAts, Claims
  <2>7. ProjectInv' /\ RunInv' /\ RequestInv'
    BY <1>1, <2>2, <2>6, OthersFrame, Zenon
  <2>8. FunctionInv'
    BY <1>1, <2>2, <2>6, ClaimFrame, Zenon
  <2>9. OverlapInv'
    BY <1>1, <1>2, <1>4, <2>2, <2>3, OverlapFrame, Zenon
  <2>10. LiveInv'
    <3> SUFFICES ASSUME NEW m \in Names \ disturbed
                 PROVE  /\ functions[m] # Absent =>
                             m \in openfaas' \/ \E g \in Handlers : Named(job'[g], {"DeleteFunction"}) /\ job'[g].name = m
                        /\ (\E g \in Handlers : Named(job'[g], {"UpsertFunction", "WriteFunction"}) /\ job'[g].name = m)
                             => m \in openfaas'
      BY <1>1, <1>6, Zenon DEF LiveInv
    <3>1. job'[h] = j /\ \A g \in Handlers \ {h} : job'[g] = job[g]
      BY <2>2, Jobs, Zenon
    <3>2. ASSUME functions[m] # Absent
          PROVE  m \in openfaas' \/ \E g \in Handlers : Named(job'[g], {"DeleteFunction"}) /\ job'[g].name = m
      <4>1. CASE m = n
        BY <2>3, <2>6, <3>1, <4>1, Zenon
      <4>2. CASE m # n
        <5>1. m \in openfaas \/ \E g \in Handlers : Named(job[g], {"DeleteFunction"}) /\ job[g].name = m
          BY <3>2, Zenon DEF LiveInv
        <5> QED BY <1>4, <1>6, <3>1, <4>2, <5>1, Zenon
      <4> QED BY <4>1, <4>2, Zenon
    <3>3. ASSUME NEW g \in Handlers, Named(job'[g], {"UpsertFunction", "WriteFunction"}), job'[g].name = m
          PROVE  m \in openfaas'
      <4>1. g # h
        BY <2>6, <3>1, <3>3, Zenon
      <4>2. Named(job[g], {"UpsertFunction", "WriteFunction"}) /\ job[g].name = m
        BY <3>1, <3>3, <4>1, Zenon
      <4>3. m \in openfaas
        BY <4>2, Zenon DEF LiveInv
      <4>4. m # n
        <5>1. Named(job[g], DeployAts \cup DeleteAts)
          BY <4>2, Zenon DEF Named, DeployAts
        <5> QED BY <1>2, <1>4, <4>1, <4>2, <5>1, Zenon DEF OverlapInv
      <4> QED BY <1>6, <4>3, <4>4, Zenon
    <3> QED BY <3>2, <3>3, Zenon
  <2> QED BY <2>5, <2>7, <2>8, <2>9, <2>10, Zenon
<1> QED BY <1>2, <1>5, <1>6, Zenon DEF OpenFaaSDelete

\* DeleteFunction removes the function; when it is not known whether it did, the
\* name is disturbed.
LEMMA Deletes ==
  ASSUME IInv, NEW h \in Handlers, DeleteFunction(h) \/ PgDeleteFunction(h)
  PROVE  IInv'
<1> USE DEF IInv
<1>1. PICK n : n = job[h].name
  BY Zenon
<1>2. /\ Named(job[h], {"DeleteFunction"}) /\ Change(h, Absent)
      /\ UNCHANGED <<repository, access, projects, runs, openfaas, requests>>
      /\ disturbed \subseteq disturbed'
      /\ functions' = [functions EXCEPT ![n] = Absent] \/ (UNCHANGED functions /\ n \in disturbed')
  BY <1>1, Zenon DEF DeleteFunction, PgDeleteFunction, At, Idle, Named, Done, Change
<1>3. n \in Names /\ Named(job[h], DeleteAts)
  BY <1>1, <1>2, Zenon DEF JobsInv, JobInv, Named, DeleteAts
<1>4. CASE functions' = [functions EXCEPT ![n] = Absent]
  <2>1. functions'[n] = Absent
    BY <1>3, <1>4, Zenon DEF StoreInv
  <2>2. PICK v \in Function \cup {Absent} : v = Absent
    BY Zenon
  <2> HIDE DEF IInv
  <2> QED BY <1>1, <1>2, <1>3, <1>4, <2>1, <2>2, FunctionEnds, Zenon
<1>5. CASE UNCHANGED functions /\ n \in disturbed'
  <2>1. \A ats : ~Named(Absent, ats)
    BY Zenon DEF Named
  <2>2. JobInv(Absent, requests', repository')
    BY <2>1, Zenon DEF JobInv
  <2>3. StoreInv' /\ JobsInv'
    BY <1>2, <1>5, <2>2, StoreFrame, JobsFrame, Zenon
  <2>4. ProjectInv' /\ RunInv' /\ RequestInv'
    BY <1>2, OthersFrame, Zenon
  <2>5. FunctionInv' /\ OverlapInv' /\ LiveInv'
    BY <1>1, <1>2, <1>5, <2>1, FunctionFrame, Zenon
  <2> QED BY <2>3, <2>4, <2>5, Zenon
<1> QED BY <1>2, <1>4, <1>5, Zenon

\* A request that is cut short stores nothing, and a deletion that is cut short
\* disturbs its name.
LEMMA Stops ==
  ASSUME IInv, NEW h \in Handlers, handlerStops(h)
  PROVE  IInv'
<1> USE DEF IInv
<1>1. /\ Change(h, Absent) /\ UNCHANGED <<repository, access, projects, runs, functions, openfaas, requests>>
      /\ disturbed \subseteq disturbed' /\ (Named(job[h], {"DeleteFunction"}) => job[h].name \in disturbed')
  BY Zenon DEF handlerStops, Done, Change, stored, At, Idle, Named
<1>2. \A ats : ~Named(Absent, ats)
  BY Zenon DEF Named
<1>3. JobInv(Absent, requests', repository')
  BY <1>2, Zenon DEF JobInv
<1>4. StoreInv' /\ JobsInv'
  BY <1>1, <1>3, StoreFrame, JobsFrame, Zenon
<1>5. ProjectInv' /\ RunInv' /\ RequestInv'
  BY <1>1, OthersFrame, Zenon
<1>6. FunctionInv' /\ OverlapInv' /\ LiveInv'
  BY <1>1, <1>2, FunctionFrame, Zenon
<1> QED BY <1>4, <1>5, <1>6, Zenon

-----------------------------------------------------------------------------
(* Access requests *)

\* A step that stores a request, or reviews one, changes nothing else.
LEMMA RequestStored ==
  ASSUME IInv, requests' \in [RequestIds -> AccessRequest \cup {Absent}],
         \A q \in RequestIds : requests[q] \in AccessRequest => requests'[q] \in AccessRequest,
         UNCHANGED <<repository, access, projects, runs, functions, openfaas, disturbed>>,
         UNCHANGED job \/ \E h \in Handlers : Change(h, Absent) /\ ~Named(job[h], {"DeleteFunction"})
  PROVE  StoreInv' /\ JobsInv' /\ ProjectInv' /\ RunInv' /\ FunctionInv' /\ OverlapInv' /\ LiveInv'
<1> USE DEF IInv
<1>1. StoreInv'
  BY Zenon DEF StoreInv, StoredRuns, StoredFunctions
<1>2. CASE UNCHANGED job
  <2>1. JobsInv' /\ OverlapInv' /\ LiveInv'
    <3>1. JobsInv'
      BY <1>2, Zenon DEF JobsInv, JobInv, Named
    <3> QED BY <1>2, <3>1, Zenon DEF Named, OverlapInv, LiveInv
  <2>2. ProjectInv' /\ RunInv'
    BY <1>2, Zenon DEF ProjectInv, RunInv, Running, ActiveRuns, Owned, Doing
  <2>3. FunctionInv'
    BY <1>2, ZenonT(30) DEF FunctionInv, Claimed, OwnFunctions, Claims
  <2> QED BY <1>1, <2>1, <2>2, <2>3, Zenon
<1>3. ASSUME NEW h \in Handlers, Change(h, Absent), ~Named(job[h], {"DeleteFunction"})
      PROVE  JobsInv' /\ ProjectInv' /\ RunInv' /\ FunctionInv' /\ OverlapInv' /\ LiveInv'
  <2>1. \A ats : ~Named(Absent, ats)
    BY Zenon DEF Named
  <2>2. JobInv(Absent, requests', repository')
    BY <2>1, Zenon DEF JobInv
  <2>3. JobsInv'
    BY <1>3, <2>2, JobsFrame, Zenon
  <2>4. ProjectInv' /\ RunInv'
    BY <1>3, <2>1, ProjectFrame, RunFrame, Zenon
  <2>5. FunctionInv' /\ OverlapInv' /\ LiveInv'
    BY <1>3, <2>1, FunctionFrame, Zenon
  <2> QED BY <2>3, <2>4, <2>5, Zenon
<1> QED BY <1>1, <1>2, <1>3, Zenon

\* The bound on pending requests is a number.
LEMMA RequestLimit ==
  /\ (IF repository = "file" THEN 1 ELSE Cardinality(Handlers)) \in Int
  /\ Cardinality(Handlers) \in Nat /\ Cardinality(Handlers) # 0
BY AccessAssumption, FS_CardinalityType, FS_EmptySet

\* The file store looks for a pending request and stores one in the same step.
LEMMA FileAsks ==
  ASSUME IInv, NEW s \in Subjects, NEW q \in RequestIds, CreateAccessRequest(s, q)
  PROVE  IInv'
<1> USE DEF IInv
<1> DEFINE v == [subject |-> s, status |-> "pending"]
<1>1. /\ repository = "file" /\ Pending(s) = {} /\ requests[q] = Absent
      /\ requests' = [requests EXCEPT ![q] = v]
      /\ UNCHANGED <<repository, access, projects, runs, functions, openfaas, job, disturbed>>
  BY Zenon DEF CreateAccessRequest, IsNew
<1>2. v \in AccessRequest /\ v.subject = s
  BY Zenon DEF AccessRequest
<1> HIDE DEF v
<1>3. /\ requests' \in [RequestIds -> AccessRequest \cup {Absent}] /\ requests'[q] = v
      /\ \A i \in RequestIds \ {q} : requests'[i] = requests[i]
  BY <1>1, <1>2, Zenon DEF StoreInv
<1>4. StoreInv' /\ JobsInv' /\ ProjectInv' /\ RunInv' /\ FunctionInv' /\ OverlapInv' /\ LiveInv'
  <2>1. \A i \in RequestIds : requests[i] \in AccessRequest => requests'[i] \in AccessRequest
    BY <1>2, <1>3, Zenon
  <2> QED BY <1>1, <1>3, <2>1, RequestStored, Zenon
<1>5. RequestInv'
  <2> SUFFICES ASSUME NEW u \in Subjects PROVE Within(Pending(u)', Asking(u)', 1)
    BY <1>1, Zenon DEF RequestInv
  <2>1. Asking(u)' = Asking(u) /\ Asking(u) = {}
    BY <1>1, Zenon DEF Asking, JobsInv, JobInv, Named
  <2>2. CASE u = s
    <3>1. Pending(u)' \subseteq {q}
      BY <1>1, <1>3, <2>2, Zenon DEF Pending
    <3>2. IsFiniteSet({q}) /\ Cardinality({q}) = 1 /\ Cardinality({}) = 0
      BY FS_Singleton, FS_EmptySet, Zenon
    <3>3. IsFiniteSet(Pending(u)') /\ Cardinality(Pending(u)') <= 1 /\ Cardinality(Pending(u)') \in Nat
      BY <3>1, <3>2, FS_Subset, FS_CardinalityType
    <3> QED BY <2>1, <3>2, <3>3 DEF Within
  <2>3. CASE u # s
    <3>1. Pending(u)' \subseteq Pending(u)
      BY <1>2, <1>3, <2>3 DEF Pending
    <3>2. Within(Pending(u), Asking(u), 1) /\ Asking(u) \subseteq Handlers
      BY <1>1, Zenon DEF RequestInv, Asking
    <3> QED BY <2>1, <3>1, <3>2, WithinLess
  <2> QED BY <2>2, <2>3, Zenon
<1> QED BY <1>4, <1>5, Zenon

\* In PostgreSQL the look and the insert are two statements: the request is asked
\* for when none is pending.
LEMMA PgAsks ==
  ASSUME IInv, NEW h \in Handlers, NEW s \in Subjects, PgCreateAccessRequest(h, s)
  PROVE  IInv'
<1> USE DEF IInv
<1> DEFINE j == [at |-> "WriteRequest", subject |-> s]
<1>1. /\ Change(h, j) /\ job[h] = Absent /\ repository = "postgres" /\ Pending(s) = {}
      /\ UNCHANGED <<repository, access, projects, runs, functions, requests, openfaas, disturbed>>
  BY Zenon DEF PgCreateAccessRequest, Begin, Idle, Change, stored
<1>2. j.at = "WriteRequest" /\ j.subject = s
  BY Zenon
<1> HIDE DEF j
<1>3. JobInv(j, requests', repository')
  BY <1>1, <1>2, Zenon DEF JobInv, Named, DeployAts, DeleteAts
<1>4. StoreInv' /\ JobsInv'
  BY <1>1, <1>3, StoreFrame, JobsFrame, Zenon
<1>5. ~Named(j, {"CreateProject"}) /\ ~Named(j, {"SubmitPipeline"}) /\ ~Named(j, DeployAts \cup DeleteAts)
      /\ ~Named(job[h], {"DeleteFunction"})
  BY <1>1, <1>2, Zenon DEF Named, DeployAts, DeleteAts
<1>6. ProjectInv' /\ RunInv'
  BY <1>1, <1>5, ProjectFrame, RunFrame, Zenon
<1>7. FunctionInv' /\ OverlapInv' /\ LiveInv'
  BY <1>1, <1>5, FunctionFrame, Zenon
<1>8. RequestInv'
  <2> SUFFICES ASSUME NEW u \in Subjects PROVE Within(Pending(u)', Asking(u)', Cardinality(Handlers))
    BY <1>1, Zenon DEF RequestInv
  <2>1. Pending(u)' = Pending(u) /\ Asking(u)' \subseteq Handlers /\ Asking(u) \subseteq Handlers
    BY <1>1, Zenon DEF Pending, Asking
  <2>2. CASE u = s
    <3>1. Pending(u)' = {} /\ IsFiniteSet({}) /\ Cardinality({}) = 0
      BY <1>1, <2>1, <2>2, FS_EmptySet, Zenon
    <3>2. Cardinality(Asking(u)') <= Cardinality(Handlers) /\ Cardinality(Asking(u)') \in Nat
          /\ Cardinality(Handlers) \in Nat
      BY <2>1, AccessAssumption, FS_Subset, FS_CardinalityType, Zenon
    <3> QED BY <3>1, <3>2 DEF Within
  <2>3. CASE u # s
    <3>1. Asking(u)' \subseteq Asking(u)
      BY <1>1, <1>2, <2>3, Jobs, Zenon DEF Asking
    <3>2. Within(Pending(u), Asking(u), Cardinality(Handlers)) /\ Cardinality(Handlers) \in Int
      BY <1>1, RequestLimit, Zenon DEF RequestInv
    <3> QED BY <2>1, <3>1, <3>2, WithinLess, Zenon
  <2> QED BY <2>2, <2>3, Zenon
<1> QED BY <1>4, <1>6, <1>7, <1>8, Zenon

\* The insert of a request that was asked for.
LEMMA PgAsked ==
  ASSUME IInv, NEW h \in Handlers, NEW q \in RequestIds, WriteRequest(h, q)
  PROVE  IInv'
<1> USE DEF IInv
<1> DEFINE v == [subject |-> job[h].subject, status |-> "pending"]
<1>1. /\ Named(job[h], {"WriteRequest"}) /\ Change(h, Absent) /\ requests[q] = Absent
      /\ requests' = [requests EXCEPT ![q] = v]
      /\ UNCHANGED <<repository, access, projects, runs, functions, openfaas, disturbed>>
  BY Zenon DEF WriteRequest, At, Idle, Named, Done, Change, IsNew
<1>2. job[h].subject \in Subjects /\ repository = "postgres"
  BY <1>1, Zenon DEF JobsInv, JobInv
<1>3. v \in AccessRequest /\ v.subject = job[h].subject
  BY <1>2, Zenon DEF AccessRequest
<1> HIDE DEF v
<1>4. /\ requests' \in [RequestIds -> AccessRequest \cup {Absent}] /\ requests'[q] = v
      /\ \A i \in RequestIds \ {q} : requests'[i] = requests[i]
  BY <1>1, <1>3, Zenon DEF StoreInv
<1>5. StoreInv' /\ JobsInv' /\ ProjectInv' /\ RunInv' /\ FunctionInv' /\ OverlapInv' /\ LiveInv'
  <2>1. \A i \in RequestIds : requests[i] \in AccessRequest => requests'[i] \in AccessRequest
    BY <1>3, <1>4, Zenon
  <2>2. ~Named(job[h], {"DeleteFunction"})
    BY <1>1, Zenon DEF Named
  <2> QED BY <1>1, <1>4, <2>1, <2>2, RequestStored, Zenon
<1>6. RequestInv'
  <2> SUFFICES ASSUME NEW s \in Subjects PROVE Within(Pending(s)', Asking(s)', Cardinality(Handlers))
    BY <1>1, <1>2, Zenon DEF RequestInv
  <2>1. Within(Pending(s), Asking(s), Cardinality(Handlers)) /\ Cardinality(Handlers) \in Int /\ Asking(s) \subseteq Handlers
    BY <1>2, RequestLimit, Zenon DEF RequestInv, Asking
  <2>2. Asking(s)' \subseteq Asking(s) \ {h}
    BY <1>1, Jobs, Zenon DEF Asking, Named
  <2>3. Pending(s)' \subseteq Pending(s) \cup {q} /\ (job[h].subject # s => Pending(s)' \subseteq Pending(s))
    BY <1>3, <1>4 DEF Pending
  <2>4. CASE s = job[h].subject
    <3>1. PICK S, T, S1, T1, limit : S = Pending(s) /\ T = Asking(s) /\ S1 = Pending(s)' /\ T1 = Asking(s)'
                                     /\ limit = Cardinality(Handlers)
      BY Zenon
    <3>2. S1 \in SUBSET (S \cup {q}) /\ T1 \in SUBSET (T \ {h})
      BY <2>2, <2>3, <3>1, Zenon
    <3>3. T \in SUBSET Handlers /\ limit \in Int /\ Within(S, T, limit) /\ h \in T
      BY <1>1, <2>1, <2>4, <3>1, Zenon DEF Asking
    <3>4. Within(S1, T1, limit)
      BY <3>2, <3>3, WithinMove, Zenon
    <3> QED BY <3>1, <3>4, Zenon
  <2>5. CASE s # job[h].subject
    BY <2>1, <2>2, <2>3, <2>5, WithinLess, Zenon
  <2> QED BY <2>4, <2>5, Zenon
<1> QED BY <1>5, <1>6, Zenon

\* A review decides a request: it is pending no longer.
LEMMA Reviewed ==
  ASSUME IInv, NEW q \in RequestIds, NEW status \in {"approved", "rejected"}, requests[q] \in AccessRequest,
         requests' = [requests EXCEPT ![q].status = status]
  PROVE  /\ requests' \in [RequestIds -> AccessRequest \cup {Absent}]
         /\ \A i \in RequestIds : requests[i] \in AccessRequest => requests'[i] \in AccessRequest
         /\ \A s \in Subjects : Pending(s)' \subseteq Pending(s)
<1>1. PICK v : v = [requests[q] EXCEPT !.status = status]
  BY Zenon
<1>2. v \in AccessRequest /\ v.status = status
  BY <1>1, Zenon DEF AccessRequest
<1>3. /\ requests' \in [RequestIds -> AccessRequest \cup {Absent}] /\ requests'[q] = v
      /\ \A i \in RequestIds \ {q} : requests'[i] = requests[i]
  BY <1>1, <1>2, Zenon DEF IInv, StoreInv
<1>4. ASSUME NEW s \in Subjects, NEW i \in Pending(s)' PROVE i \in Pending(s)
  <2>1. i \in RequestIds /\ requests'[i] # Absent /\ requests'[i] = [subject |-> s, status |-> "pending"]
    BY <1>4, Zenon DEF Pending
  <2>2. requests'[i].status = "pending"
    BY <2>1
  <2>3. i # q
    BY <1>2, <1>3, <2>2, Zenon
  <2> QED BY <1>3, <2>1, <2>3, Zenon DEF Pending
<1> QED BY <1>2, <1>3, <1>4, Zenon

\* The file store looks at the request and decides it in the same step.
LEMMA FileReviews ==
  ASSUME IInv, NEW q \in RequestIds, NEW status \in {"approved", "rejected"}, ReviewAccessRequest(q, status)
  PROVE  IInv'
<1>1. /\ requests[q] # Absent /\ requests' = [requests EXCEPT ![q].status = status]
      /\ UNCHANGED <<repository, access, projects, runs, functions, openfaas, job, disturbed>>
  BY Zenon DEF ReviewAccessRequest
<1>2. requests[q] \in AccessRequest
  BY <1>1, Zenon DEF IInv, StoreInv
<1>3. /\ requests' \in [RequestIds -> AccessRequest \cup {Absent}]
      /\ \A i \in RequestIds : requests[i] \in AccessRequest => requests'[i] \in AccessRequest
      /\ \A s \in Subjects : Pending(s)' \subseteq Pending(s)
  BY <1>1, <1>2, Reviewed, Zenon
<1>4. StoreInv' /\ JobsInv' /\ ProjectInv' /\ RunInv' /\ FunctionInv' /\ OverlapInv' /\ LiveInv'
  BY <1>1, <1>3, RequestStored, Zenon
<1>5. RequestInv'
  <2> SUFFICES ASSUME NEW s \in Subjects
               PROVE  Within(Pending(s)', Asking(s)', IF repository = "file" THEN 1 ELSE Cardinality(Handlers))
    BY <1>1, Zenon DEF RequestInv
  <2>1. PICK limit \in Int : limit = IF repository = "file" THEN 1 ELSE Cardinality(Handlers)
    BY RequestLimit, Zenon
  <2>2. Within(Pending(s), Asking(s), limit) /\ Asking(s) \subseteq Handlers /\ Asking(s)' = Asking(s)
    BY <1>1, <2>1, Zenon DEF IInv, RequestInv, Asking
  <2>3. Within(Pending(s)', Asking(s)', limit)
    BY <1>3, <2>2, WithinLess, Zenon
  <2> QED BY <2>1, <2>3, Zenon
<1> QED BY <1>4, <1>5, Zenon DEF IInv

\* In PostgreSQL it is decided by a later statement.
LEMMA PgReviews ==
  ASSUME IInv, NEW h \in Handlers, NEW q \in RequestIds, NEW status \in {"approved", "rejected"},
         PgReviewAccessRequest(h, q, status)
  PROVE  IInv'
<1> USE DEF IInv
<1> DEFINE j == [at |-> "WriteReview", request |-> q, status |-> status]
<1>1. /\ Change(h, j) /\ job[h] = Absent /\ requests[q] # Absent
      /\ UNCHANGED <<repository, access, projects, runs, functions, requests, openfaas, disturbed>>
  BY Zenon DEF PgReviewAccessRequest, Begin, Idle, Change, stored
<1>2. j.at = "WriteReview" /\ j.request = q /\ j.status = status /\ requests[q] \in AccessRequest
  BY <1>1, Zenon DEF StoreInv
<1> HIDE DEF j
<1>3. JobInv(j, requests', repository')
  BY <1>1, <1>2, Zenon DEF JobInv, Named, DeployAts, DeleteAts
<1>4. StoreInv' /\ JobsInv'
  BY <1>1, <1>3, StoreFrame, JobsFrame, Zenon
<1>5. ~Named(j, {"CreateProject"}) /\ ~Named(j, {"SubmitPipeline"}) /\ ~Named(j, DeployAts \cup DeleteAts)
      /\ ~Named(j, {"WriteRequest"}) /\ ~Named(job[h], {"DeleteFunction"})
  BY <1>1, <1>2, Zenon DEF Named, DeployAts, DeleteAts
<1>6. ProjectInv' /\ RunInv'
  BY <1>1, <1>5, ProjectFrame, RunFrame, Zenon
<1>7. FunctionInv' /\ OverlapInv' /\ LiveInv'
  BY <1>1, <1>5, FunctionFrame, Zenon
<1>8. RequestInv'
  BY <1>1, <1>5, RequestFrame, Zenon DEF Pending
<1> QED BY <1>4, <1>6, <1>7, <1>8, Zenon

\* The update of a request that was found pending.
LEMMA PgReviewed ==
  ASSUME IInv, NEW h \in Handlers, WriteReview(h)
  PROVE  IInv'
<1> USE DEF IInv
<1>1. PICK q, status : q = job[h].request /\ status = job[h].status
  BY Zenon
<1>2. /\ Named(job[h], {"WriteReview"}) /\ Change(h, Absent) /\ requests' = [requests EXCEPT ![q].status = status]
      /\ UNCHANGED <<repository, access, projects, runs, functions, openfaas, disturbed>>
  BY <1>1, Zenon DEF WriteReview, At, Idle, Named, Done, Change
<1>3. q \in RequestIds /\ status \in {"approved", "rejected"} /\ requests[q] \in AccessRequest
  BY <1>1, <1>2, Zenon DEF JobsInv, JobInv
<1>4. /\ requests' \in [RequestIds -> AccessRequest \cup {Absent}]
      /\ \A i \in RequestIds : requests[i] \in AccessRequest => requests'[i] \in AccessRequest
      /\ \A s \in Subjects : Pending(s)' \subseteq Pending(s)
  <2> HIDE DEF IInv
  <2> QED BY <1>2, <1>3, Reviewed, Zenon
<1>5. StoreInv' /\ JobsInv' /\ ProjectInv' /\ RunInv' /\ FunctionInv' /\ OverlapInv' /\ LiveInv'
  <2>1. ~Named(job[h], {"DeleteFunction"})
    BY <1>2, Zenon DEF Named
  <2> QED BY <1>2, <1>4, <2>1, RequestStored, Zenon
<1>6. RequestInv'
  BY <1>2, <1>4, RequestFrame, Zenon DEF Named
<1> QED BY <1>5, <1>6, Zenon

-----------------------------------------------------------------------------
(* Every step *)

\* Every step of a request, a restart, and every change of the grants keeps what
\* IInv says.
LEMMA Step == IInv /\ [Next]_vars => IInv'
<1> SUFFICES ASSUME IInv, [Next]_vars PROVE IInv'
  BY Zenon
<1>1. CASE UNCHANGED vars
  <2>1. UNCHANGED <<repository, access, projects, runs, functions, openfaas, requests, job, disturbed>>
    BY <1>1, Zenon DEF vars, stored
  <2> QED BY <2>1, Stutter, Zenon DEF IInv, StoreInv
<1>2. CASE upsertUserAccess \/ deleteUserAccess
  BY <1>2, Grants, Zenon
<1>3. CASE \E r \in Runs : runEnds(r)
  BY <1>3, RunEnds, Zenon
<1>4. ASSUME NEW h \in Handlers, Checks(h) PROVE IInv'
  <2>1. ASSUME NEW who \in Principals, createProject(h, who) PROVE IInv'
    BY <2>1, CreateProjectBegins, Zenon
  <2>2. ASSUME NEW who \in Principals, NEW p \in Projects, submitPipeline(h, who, p) PROVE IInv'
    BY <2>2, RunBegins, Zenon DEF submitPipeline
  <2>3. ASSUME NEW who \in Principals, NEW p \in Projects, NEW n \in Names, deployFunction(h, who, p, n) PROVE IInv'
    BY <2>3, DeployBegins, Zenon
  <2>4. ASSUME NEW who \in Principals, NEW r \in Runs, retryRun(h, who, r) PROVE IInv'
    <3>1. PICK p : p = runs[r].project
      BY Zenon
    <3>2. p \in Projects
      BY <2>4, <3>1 DEF retryRun, IInv, StoreInv, Run
    <3>3. enforceRunQuota(who) /\ UNCHANGED disturbed
          /\ Begin(h, [at |-> "SubmitPipeline", who |-> who.subject, project |-> p])
      BY <2>4, <3>1, Zenon DEF retryRun
    <3> QED BY <3>2, <3>3, RunBegins, Zenon
  <2>5. ASSUME NEW who \in Principals, NEW n \in Names, deleteFunction(h, who, n) PROVE IInv'
    BY <2>5, DeleteBegins, Zenon
  <2>6. CASE createAccessRequest(h)
    BY <2>6, PgAsks, FileAsks, Zenon DEF createAccessRequest
  <2>7. CASE reviewAccessRequest(h)
    BY <2>7, PgReviews, FileReviews, Zenon DEF reviewAccessRequest
  <2> QED BY <1>4, <2>1, <2>2, <2>3, <2>4, <2>5, <2>6, <2>7, Zenon DEF Checks
<1>5. ASSUME NEW h \in Handlers, Steps(h) PROVE IInv'
  <2>1. CASE \E p \in Projects : CreateProject(h, p)
    BY <2>1, CreateProjectStores, Zenon
  <2>2. CASE \E r \in Runs : StoreRun(h, r)
    BY <2>2, RunStored, Zenon
  <2>3. CASE OpenFaaSDeploy(h)
    BY <2>3, DeployCalls, Zenon
  <2>4. CASE UpsertFunction(h)
    BY <2>4, Upsert, ZenonT(30)
  <2>5. CASE PgUpsertFunction(h)
    BY <2>5, PgUpsert, Zenon
  <2>6. CASE WriteFunction(h)
    BY <2>6, Write, Zenon
  <2>7. CASE OpenFaaSDelete(h)
    BY <2>7, DeleteCalls, Zenon
  <2>8. CASE DeleteFunction(h) \/ PgDeleteFunction(h)
    BY <2>8, Deletes, ZenonT(30)
  <2>9. CASE \E q \in RequestIds : WriteRequest(h, q)
    BY <2>9, PgAsked, Zenon
  <2>10. CASE WriteReview(h)
    BY <2>10, PgReviewed, Zenon
  <2> QED BY <1>5, <2>1, <2>2, <2>3, <2>4, <2>5, <2>6, <2>7, <2>8, <2>9, <2>10, ZenonT(30) DEF Steps
<1>6. ASSUME NEW h \in Handlers, handlerStops(h) PROVE IInv'
  BY <1>6, Stops, Zenon
<1> QED BY <1>1, <1>2, <1>3, <1>4, <1>5, <1>6, Zenon DEF Next

\* The strengthened invariant: resources, and requests in flight for more of them,
\* are within what was granted; a deletion overlaps nothing unnoticed.
THEOREM Invariance == Spec => []IInv
<1>1. Init => IInv
  BY Starts, Zenon
<1>2. IInv /\ [Next]_vars => IInv'
  BY Step, Zenon
<1> QED BY <1>1, <1>2, PTL DEF Spec

\* A set that is within a limit together with requests in flight is within it.
LEMMA NotExceeded ==
  ASSUME NEW S, NEW T \in SUBSET Handlers, NEW kind \in Kinds, Within(S, T, Limit(kind))
  PROVE  ~Exceeds(Cardinality(S), kind)
<1>1. IsFiniteSet(T)
  BY AccessAssumption, FS_Subset, Zenon
<1>2. Cardinality(S) \in Nat /\ Cardinality(T) \in Nat
  BY <1>1, FS_CardinalityType, Zenon DEF Within
<1>3. Limit(kind) \in Int /\ Limit(kind) = Max(Granted(kind)) + Cardinality(Handlers) - 1
  BY MostGranted, Zenon DEF Limit
<1>4. Cardinality(S) + Cardinality(T) <= Limit(kind)
  BY Zenon DEF Within
<1>5. ~(Cardinality(S) > Limit(kind))
  BY <1>2, <1>3, <1>4
<1> QED BY <1>3, <1>5, Zenon DEF Exceeds

\* enforceProjectQuota: a subject owns no more projects than the most generous
\* grant allows, and one for each other request in flight.
THEOREM ProjectQuota == Spec => []ProjectsNearQuota
<1>1. IInv => ProjectsNearQuota
  <2> SUFFICES ASSUME IInv, NEW s \in Subjects PROVE ~Exceeds(Cardinality(Owned(s)), "projects")
    BY Zenon DEF ProjectsNearQuota
  <2>1. Within(Owned(s), Doing(s, "CreateProject"), Limit("projects")) /\ Doing(s, "CreateProject") \subseteq Handlers
    BY Zenon DEF IInv, ProjectInv, Doing
  <2> QED BY <2>1, NotExceeded, Zenon DEF Kinds
<1> QED BY <1>1, Invariance, PTL

\* enforceRunQuota: the same of the active runs that a subject has started in own
\* projects, new ones and retries together.
THEOREM RunQuota == Spec => []RunsNearQuota
<1>1. IInv => RunsNearQuota
  <2> SUFFICES ASSUME IInv, NEW s \in Subjects
               PROVE  ~Exceeds(Cardinality({r \in ActiveRuns(Owned(s)) : runs[r].by = s}), "runs")
    BY Zenon DEF RunsNearQuota
  <2>1. Within(Running(s), Doing(s, "SubmitPipeline"), Limit("runs")) /\ Doing(s, "SubmitPipeline") \subseteq Handlers
    BY Zenon DEF IInv, RunInv, Doing
  <2>2. ~Exceeds(Cardinality(Running(s)), "runs")
    BY <2>1, NotExceeded, Zenon DEF Kinds
  <2> QED BY <2>2, Zenon DEF Running
<1> QED BY <1>1, Invariance, PTL

\* enforceFunctionQuota: the same of the functions whose deployments and deletions
\* did not overlap.
THEOREM FunctionQuota == Spec => []FunctionsNearQuota
<1>1. IInv => FunctionsNearQuota
  <2> SUFFICES ASSUME IInv, NEW s \in Subjects
               PROVE  ~Exceeds(Cardinality(OwnFunctions(s) \ disturbed), "functions")
    BY Zenon DEF FunctionsNearQuota
  <2>1. Within(Claimed(s) \ disturbed, {}, Limit("functions")) /\ Limit("functions") \in Int
    BY MostGranted, Zenon DEF IInv, FunctionInv, Kinds
  <2>2. OwnFunctions(s) \ disturbed \subseteq Claimed(s) \ disturbed
    BY Zenon DEF Claimed
  <2>3. Within(OwnFunctions(s) \ disturbed, {}, Limit("functions"))
    BY <2>1, <2>2, WithinLess, Zenon
  <2> QED BY <2>3, NotExceeded, Zenon DEF Kinds
<1> QED BY <1>1, Invariance, PTL

\* deployFunction and deleteFunction: a stored function is one that OpenFaaS has,
\* unless its deletion is under way, was lost or was overlapped.
THEOREM StoredIsLive == Spec => []RegisteredIsLive
<1>1. IInv => RegisteredIsLive
  BY Zenon DEF IInv, LiveInv, RegisteredIsLive, At, Idle, Named
<1> QED BY <1>1, Invariance, PTL

\* CreateAccessRequest: a subject has one pending request at most, and in
\* PostgreSQL one for each handler.
THEOREM OnePending == Spec => []PendingRequests
<1>1. IInv => PendingRequests
  <2> SUFFICES ASSUME IInv, NEW s \in Subjects
               PROVE  Cardinality(Pending(s)) <= IF repository = "file" THEN 1 ELSE Cardinality(Handlers)
    BY Zenon DEF PendingRequests
  <2>1. PICK limit \in Int : limit = IF repository = "file" THEN 1 ELSE Cardinality(Handlers)
    BY RequestLimit, Zenon
  <2>2. Within(Pending(s), Asking(s), limit) /\ IsFiniteSet(Asking(s))
    BY <2>1, AccessAssumption, FS_Subset, Zenon DEF IInv, RequestInv, Asking
  <2>3. Cardinality(Pending(s)) \in Nat /\ Cardinality(Asking(s)) \in Nat
        /\ Cardinality(Pending(s)) + Cardinality(Asking(s)) <= limit
    BY <2>2, FS_CardinalityType, Zenon DEF Within
  <2>4. Cardinality(Pending(s)) <= limit
    BY <2>3
  <2> QED BY <2>1, <2>4, Zenon
<1> QED BY <1>1, Invariance, PTL

=============================================================================
