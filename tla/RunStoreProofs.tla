--------------------------- MODULE RunStoreProofs ---------------------------
(***************************************************************************)
(* RunStore keeps its types, runs agree with their steps, retries descend  *)
(* from the runs they retry, terminal runs never change and no run moves   *)
(* backwards, for every set of projects, definitions, runs and step names. *)
(* The PostgreSQL repository keeps the invariants of the file store        *)
(* however the reads and writes of its callers interleave, and every       *)
(* commit that no other commit overtook is a step of the file store.       *)
(***************************************************************************)
EXTENDS PgRunStore, FiniteSetTheorems, TLAPS

\* Integer division never rounds an unfinished share up to 100.
LEMMA PercentBound ==
  ASSUME NEW c \in Nat, NEW n \in Nat, n > 0, c <= n
  PROVE  /\ (100 * c) \div n \in 0..100
         /\ c = 0 => (100 * c) \div n = 0
         /\ (100 * c) \div n = 100 <=> c = n
<1> DEFINE q == (100 * c) \div n
<1>1. q \in Int /\ n * q <= 100 * c /\ 100 * c < n * (q + 1)
  BY SMTT(30)
<1> HIDE DEF q
<1>2. q >= 0
  BY <1>1, SMTT(30)
<1>3. q <= 100
  BY <1>1, SMTT(30)
<1>4. q = 100 <=> c = n
  BY <1>1, <1>3, SMTT(30)
<1>5. c = 0 => q = 0
  BY <1>1, <1>2, SMTT(30)
<1> QED
  BY <1>1, <1>2, <1>3, <1>4, <1>5 DEF q

\* What runProgress returns for the steps of a run.
LEMMA RunProgressValue ==
  ASSUME NEW S \in SUBSET StepNames, S # {}, NEW steps \in [S -> Step]
  PROVE  /\ runProgress(steps) \in 0..100
         /\ runProgress(steps) = 100 <=> AllFinished(steps)
         /\ Completed(steps) = {} => runProgress(steps) = 0
<1> DEFINE C == Completed(steps)
<1>1. IsFiniteSet(S)
  BY ConstantsAssumption, FS_Subset, Zenon
<1>2. C \subseteq S /\ DOMAIN steps = S
  BY Zenon DEF Completed
<1>3. IsFiniteSet(C) /\ Cardinality(C) <= Cardinality(S)
  BY <1>1, <1>2, FS_Subset, Zenon
<1>4. Cardinality(C) = Cardinality(S) <=> C = S
  BY <1>1, <1>2, FS_Subset, Zenon
<1>5. C = S <=> AllFinished(steps)
  BY <1>2, Zenon DEF Completed, AllFinished
<1>6. Cardinality(S) \in Nat /\ Cardinality(S) > 0 /\ Cardinality(C) \in Nat
  BY <1>1, <1>3, FS_CardinalityType, FS_EmptySet
<1>7. C = {} => Cardinality(C) = 0
  BY FS_EmptySet, Zenon
<1>8. runProgress(steps) = (100 * Cardinality(C)) \div Cardinality(S)
  BY <1>2, Zenon DEF runProgress
<1>9. /\ runProgress(steps) \in 0..100
      /\ Cardinality(C) = 0 => runProgress(steps) = 0
      /\ runProgress(steps) = 100 <=> Cardinality(C) = Cardinality(S)
  <2> HIDE DEF C
  <2>1. PICK c \in Nat, n \in Nat : c = Cardinality(C) /\ n = Cardinality(S)
    BY <1>6, Zenon
  <2>2. n > 0 /\ c <= n
    BY <1>3, <1>6, <2>1, Zenon
  <2>3. /\ (100 * c) \div n \in 0..100
        /\ c = 0 => (100 * c) \div n = 0
        /\ (100 * c) \div n = 100 <=> c = n
    BY <2>2, PercentBound
  <2> QED
    BY <1>8, <2>1, <2>3, Zenon
<1> QED
  BY <1>4, <1>5, <1>7, <1>9, Zenon

\* The predicate every stored run satisfies.
GoodRun(run) == run \in Run /\ MatchesSteps(run)

\* A run created with pending steps is good.
LEMMA NewRunGood ==
  ASSUME NEW p \in ProjectIds, NEW d \in DefIds \cup {None},
         NEW mode \in Mode, NEW parent \in RunIds \cup {None},
         NEW S \in SUBSET StepNames, S # {}
  PROVE  GoodRun(NewRun(p, d, mode, parent, [n \in S |-> PendingStep]))
<1> DEFINE steps == [n \in S |-> PendingStep]
           run == NewRun(p, d, mode, parent, steps)
<1>1. steps \in [S -> Step] /\ DOMAIN steps = S
  BY Zenon DEF PendingStep, Step, StepStatus
<1>2. \A n \in S : steps[n].status = "pending"
  BY Zenon DEF PendingStep
<1> HIDE DEF steps
<1>3. ~AnyFailed(steps) /\ ~AllFinished(steps) /\ ~AnyStarted(steps)
  BY <1>1, <1>2, Zenon DEF AnyFailed, AllFinished, AnyStarted, Finished
<1>4. Completed(steps) = {}
  BY <1>1, <1>2, Zenon DEF Completed, Finished
<1>5. runProgress(steps) = 0
  BY <1>1, <1>4, RunProgressValue, Zenon
<1>6. run \in Run
  BY <1>1 DEF NewRun, Run, RunStatus
<1>7. MatchesSteps(run)
  BY <1>1, <1>3, <1>5, Zenon DEF MatchesSteps, NewRun
<1> QED
  BY <1>6, <1>7, Zenon DEF GoodRun, steps

\* A step report keeps a run that is not terminal good: the order of the
\* switch in applyStepTransition decides this.
LEMMA ReportGood ==
  ASSUME NEW run, GoodRun(run), NEW name \in StepNames,
         NEW status \in StepStatus
  PROVE  GoodRun(StepReported(run, name, status))
<1> DEFINE steps == upsertStep(run.steps, name, status)
           after == runStatus(run.status, steps)
           new == applyStepTransition(run, name, status)
<1>1. SUFFICES ASSUME run.status \notin Terminal
               PROVE  GoodRun(new)
  BY Zenon DEF StepReported
<1>2. PICK S \in SUBSET StepNames : run.steps \in [S -> Step]
  BY Zenon DEF GoodRun, Run
<1>3. /\ steps \in [S \cup {name} -> Step]
      /\ DOMAIN steps = S \cup {name}
      /\ S \cup {name} \in SUBSET StepNames
  <2>1. S \cup {name} \in SUBSET StepNames
    BY Zenon
  <2>2. PICK old \in [S -> Step] : old = run.steps
    BY <1>2, Zenon
  <2>3. /\ upsertStep(old, name, status) \in [S \cup {name} -> Step]
        /\ DOMAIN upsertStep(old, name, status) = S \cup {name}
    BY DEF upsertStep, Step, StepStatus, Finished
  <2> QED
    BY <2>1, <2>2, <2>3, Zenon
<1> HIDE DEF steps
<1>4. /\ runProgress(steps) \in 0..100
      /\ runProgress(steps) = 100 <=> AllFinished(steps)
  BY <1>3, RunProgressValue, Zenon
<1>5. run.status \in {"queued", "running"}
  BY <1>1, Zenon DEF GoodRun, Run, RunStatus, Terminal
<1>6. /\ after \in RunStatus
      /\ after = "failed" <=> AnyFailed(steps)
      /\ after = "queued" => ~AnyStarted(steps)
  BY <1>5, Zenon DEF runStatus, RunStatus
<1>7. AnyFailed(steps) => ~AllFinished(steps)
  BY Zenon DEF AnyFailed, AllFinished, Finished
<1>8. after = "succeeded" <=> AllFinished(steps)
  BY <1>5, <1>7, Zenon DEF runStatus
<1> HIDE DEF after
<1>9. new = [run EXCEPT !.steps = steps, !.status = after,
                        !.progress = IF after = "succeeded" THEN 100
                                     ELSE runProgress(steps)]
  BY Zenon DEF applyStepTransition, steps, after
<1>10. new \in Run
  <2>1. steps \in UNION {[T -> Step] : T \in SUBSET StepNames}
    BY <1>3, Zenon
  <2>2. (IF after = "succeeded" THEN 100 ELSE runProgress(steps)) \in 0..100
    BY <1>4
  <2> QED
    BY <2>1, <2>2, <1>6, <1>9, ZenonT(30) DEF GoodRun, Run
<1>11. /\ new.steps = steps /\ new.status = after
       /\ new.progress = runProgress(steps)
  BY <1>4, <1>8, <1>9 DEF GoodRun, Run
<1>12. MatchesSteps(new)
  BY <1>3, <1>6, <1>8, <1>11, Zenon DEF MatchesSteps
<1> QED
  BY <1>10, <1>12, Zenon DEF GoodRun

\* Cancelling a run that neither succeeded nor failed keeps it good.
LEMMA CancelGood ==
  ASSUME NEW run, GoodRun(run), run.status \notin {"succeeded", "failed"}
  PROVE  GoodRun(Cancelled(run))
BY DEF GoodRun, Cancelled, MatchesSteps, Run, RunStatus

\* Linking a run to an engine run keeps it good.
LEMMA EngineGood ==
  ASSUME NEW run, GoodRun(run), NEW e \in EngineIds
  PROVE  GoodRun(EngineLinked(run, e))
BY DEF GoodRun, EngineLinked, MatchesSteps, Run

\* The run New() seeds is good.
LEMMA SeedGood == GoodRun(SeedRun)
<1> DEFINE steps == defaultSteps(TemplateSteps, "succeeded")
<1>1. /\ steps \in [TemplateSteps -> Step] /\ DOMAIN steps = TemplateSteps
      /\ \A n \in TemplateSteps : steps[n].status = "succeeded"
  BY Zenon DEF defaultSteps, Step, StepStatus
<1> HIDE DEF steps
<1>2. TemplateSteps \in SUBSET StepNames /\ TemplateSteps # {}
  BY ConstantsAssumption, Zenon
<1>3. AllFinished(steps) /\ ~AnyFailed(steps)
  BY <1>1, Zenon DEF AllFinished, AnyFailed, Finished
<1>4. runProgress(steps) = 100
  BY <1>1, <1>2, <1>3, RunProgressValue, Zenon
<1>5. steps \in UNION {[S -> Step] : S \in SUBSET StepNames}
  BY <1>1, <1>2, Zenon
<1>6. SeedRun \in Run
  BY <1>5, ConstantsAssumption DEF SeedRun, steps, Run, Mode, RunStatus
<1>7. /\ SeedRun.steps = steps
      /\ SeedRun.status = "succeeded" /\ SeedRun.progress = 100
  BY Zenon DEF SeedRun, steps
<1>8. MatchesSteps(SeedRun)
  BY <1>1, <1>2, <1>3, <1>4, <1>7, Zenon DEF MatchesSteps
<1> QED
  BY <1>6, <1>8, Zenon DEF GoodRun

-----------------------------------------------------------------------------

\* What a run was created with and keeps: no method of the store changes it.
Identity(run) == <<run.project, run.definition, run.mode, run.parent>>

\* The definition of a run, if it has one, is stored and is of its project.
Attached(run) ==
  \/ run.definition = None
  \/ /\ run.definition \in DOMAIN definitions
     /\ definitions[run.definition].project = run.project

\* The run a retry came from, if any, is stored under another id than r and
\* was created for the same project, definition and execution mode.
Descends(run, r) ==
  \/ run.parent = None
  \/ /\ run.parent \in DOMAIN runs \ {r}
     /\ runs[run.parent].project = run.project
     /\ runs[run.parent].definition = run.definition
     /\ runs[run.parent].mode = run.mode

\* The inductive invariant: every stored run is good, every stored
\* definition is well typed, runs point to definitions of their project and
\* to the runs they retry.
IInv ==
  /\ projects \subseteq ProjectIds
  /\ DOMAIN definitions \subseteq DefIds
  /\ \A d \in DOMAIN definitions : definitions[d] \in Definition
  /\ DOMAIN runs \subseteq RunIds
  /\ \A r \in DOMAIN runs : GoodRun(runs[r])
  /\ DefinitionInProject
  /\ RetryLineage

\* The stores of New(), seeded or empty, satisfy the invariant.
LEMMA InitIInv == Init => IInv
<1> SUFFICES ASSUME Init PROVE IInv
  BY Zenon
<1>1. projects \subseteq ProjectIds /\ definitions = <<>>
  BY ConstantsAssumption, Zenon DEF Init
<1>2. DOMAIN runs \subseteq RunIds /\ \A r \in DOMAIN runs : runs[r] = SeedRun
  BY ConstantsAssumption DEF Init
<1>3. SeedRun.definition = None /\ SeedRun.parent = None
  BY Zenon DEF SeedRun
<1> QED
  BY <1>1, <1>2, <1>3, SeedGood DEF IInv, DefinitionInProject, RetryLineage

\* Assigning to a key that is there is Put.
LEMMA ExceptIsPut ==
  ASSUME NEW f, NEW k \in DOMAIN f, NEW v
  PROVE  [f EXCEPT ![k] = v] = Put(f, k, v)
BY Zenon DEF Put

\* Cancellation keeps what a run was created with.
LEMMA CancelIdentity ==
  ASSUME NEW run \in Run
  PROVE  Identity(Cancelled(run)) = Identity(run)
BY Zenon DEF Identity, Cancelled, Run

\* So does linking it to an engine run.
LEMMA EngineIdentity ==
  ASSUME NEW run \in Run, NEW e
  PROVE  Identity(EngineLinked(run, e)) = Identity(run)
BY Zenon DEF Identity, EngineLinked, Run

\* And so does a step report.
LEMMA ReportIdentity ==
  ASSUME NEW run \in Run, NEW name, NEW status
  PROVE  Identity(StepReported(run, name, status)) = Identity(run)
BY Zenon DEF Identity, StepReported, applyStepTransition, Run

\* One run is replaced by a good run with the same identity.
LEMMA ReplaceRun ==
  ASSUME IInv, NEW r \in DOMAIN runs, NEW new, GoodRun(new),
         Identity(new) = Identity(runs[r]),
         runs' = Put(runs, r, new), UNCHANGED <<projects, definitions>>
  PROVE  IInv'
<1>1. DOMAIN runs' = DOMAIN runs
  BY Zenon DEF Put
<1>2. \A z \in DOMAIN runs : runs'[z] = IF z = r THEN new ELSE runs[z]
  BY Zenon DEF Put
<1>3. \A z \in DOMAIN runs' : GoodRun(runs'[z])
  BY <1>1, <1>2, Zenon DEF IInv
<1>4. \A z \in DOMAIN runs : /\ runs'[z].project = runs[z].project
                             /\ runs'[z].definition = runs[z].definition
                             /\ runs'[z].mode = runs[z].mode
                             /\ runs'[z].parent = runs[z].parent
  BY <1>2, Zenon DEF Identity
<1>5. DefinitionInProject'
  BY <1>1, <1>4 DEF IInv, DefinitionInProject
<1>6. RetryLineage'
  BY <1>1, <1>4 DEF IInv, RetryLineage
<1> QED
  BY <1>1, <1>3, <1>5, <1>6, Zenon DEF IInv

\* A good run with a definition of its project, and a parent it may retry,
\* is added.
LEMMA AddRun ==
  ASSUME IInv, NEW r \in RunIds, r \notin DOMAIN runs, NEW new, GoodRun(new),
         Attached(new), Descends(new, r),
         runs' = Put(runs, r, new), UNCHANGED <<projects, definitions>>
  PROVE  IInv'
<1>1. /\ DOMAIN runs' = DOMAIN runs \cup {r}
      /\ runs'[r] = new
      /\ \A z \in DOMAIN runs : runs'[z] = runs[z]
  BY Zenon DEF Put
<1>2. \A z \in DOMAIN runs' : GoodRun(runs'[z])
  BY <1>1, Zenon DEF IInv
<1>3. DefinitionInProject'
  BY <1>1 DEF IInv, DefinitionInProject, Attached
<1>4. RetryLineage'
  <2> SUFFICES ASSUME NEW z \in DOMAIN runs', runs'[z].parent # None
               PROVE  LET p == runs'[z].parent IN
                      /\ p \in DOMAIN runs' \ {z}
                      /\ runs'[p].parent # z
                      /\ runs'[p].project = runs'[z].project
                      /\ runs'[p].definition = runs'[z].definition
                      /\ runs'[p].mode = runs'[z].mode
    BY Zenon DEF RetryLineage
  <2>1. CASE z = r
    <3>1. new.parent \in DOMAIN runs /\ new.parent # r
      BY <1>1, <2>1, Zenon DEF Descends
    <3>2. runs[new.parent].parent # r
      BY <3>1, ConstantsAssumption DEF IInv, RetryLineage
    <3> QED
      BY <1>1, <2>1, <3>1, <3>2, Zenon DEF Descends
  <2>2. CASE z # r
    BY <1>1, <2>2 DEF IInv, RetryLineage
  <2> QED
    BY <2>1, <2>2, Zenon
<1> QED
  BY <1>1, <1>2, <1>3, <1>4, Zenon DEF IInv

\* A definition is stored; an existing one keeps its project.
LEMMA PutDefinition ==
  ASSUME IInv, NEW d \in DefIds, NEW new \in Definition,
         d \in DOMAIN definitions => new.project = definitions[d].project,
         definitions' = Put(definitions, d, new), UNCHANGED <<projects, runs>>
  PROVE  IInv'
<1>1. /\ DOMAIN definitions' = DOMAIN definitions \cup {d}
      /\ definitions'[d] = new
      /\ \A z \in DOMAIN definitions \ {d} : definitions'[z] = definitions[z]
  BY Zenon DEF Put
<1>2. DefinitionInProject'
  BY <1>1 DEF IInv, DefinitionInProject
<1>3. RetryLineage'
  BY Zenon DEF IInv, RetryLineage
<1> QED
  BY <1>1, <1>2, <1>3, Zenon DEF IInv

\* A run created by SubmitPipeline fits the store.
LEMMA SubmittedFits ==
  ASSUME IInv, NEW p \in ProjectIds, NEW r
  PROVE  /\ LET new == NewRun(p, None, "prefect", None,
                              defaultSteps(TemplateSteps, "pending"))
            IN  GoodRun(new) /\ Attached(new) /\ Descends(new, r)
         /\ \A d \in DOMAIN definitions :
              LET new == NewRun(p, d, definitions[d].mode, None,
                                stepsFromDefinition(definitions[d].jobs))
              IN  definitions[d].project = p =>
                    GoodRun(new) /\ Attached(new) /\ Descends(new, r)
<1>1. LET new == NewRun(p, None, "prefect", None,
                        defaultSteps(TemplateSteps, "pending"))
      IN  GoodRun(new) /\ Attached(new) /\ Descends(new, r)
  <2>1. defaultSteps(TemplateSteps, "pending")
          = [n \in TemplateSteps |-> PendingStep]
    BY Zenon DEF defaultSteps, PendingStep
  <2> DEFINE new == NewRun(p, None, "prefect", None,
                           [n \in TemplateSteps |-> PendingStep])
  <2>2. GoodRun(new)
    BY NewRunGood, ConstantsAssumption, Zenon DEF Mode
  <2>3. new.definition = None /\ new.parent = None
    BY Zenon DEF NewRun
  <2> QED
    BY <2>1, <2>2, <2>3, Zenon DEF Attached, Descends
<1>2. ASSUME NEW d \in DOMAIN definitions, definitions[d].project = p
      PROVE  LET new == NewRun(p, d, definitions[d].mode, None,
                               stepsFromDefinition(definitions[d].jobs))
             IN  GoodRun(new) /\ Attached(new) /\ Descends(new, r)
  <2> DEFINE new == NewRun(p, d, definitions[d].mode, None,
                           [n \in definitions[d].jobs |-> PendingStep])
  <2>1. /\ definitions[d].mode \in Mode
        /\ definitions[d].jobs \in SUBSET StepNames
        /\ definitions[d].jobs # {}
    BY ConstantsAssumption, Zenon DEF IInv, Definition, Mode
  <2>2. d \in DefIds \cup {None}
    BY Zenon DEF IInv
  <2>3. GoodRun(new)
    BY <2>1, <2>2, NewRunGood, Zenon
  <2>4. new.definition = d /\ new.project = p /\ new.parent = None
    BY Zenon DEF NewRun
  <2>5. new = NewRun(p, d, definitions[d].mode, None,
                     stepsFromDefinition(definitions[d].jobs))
    BY Zenon DEF stepsFromDefinition
  <2> HIDE DEF new
  <2> QED
    BY <1>2, <2>3, <2>4, <2>5, Zenon DEF Attached, Descends
<1> QED
  BY <1>1, <1>2, Zenon

\* A run created by RetryRun fits the store.
LEMMA RetriedFits ==
  ASSUME IInv, NEW r \in DOMAIN runs, NEW new, new \notin DOMAIN runs
  PROVE  LET run == Retried(runs[r], r)
         IN  GoodRun(run) /\ Attached(run) /\ Descends(run, new)
<1> DEFINE run == Retried(runs[r], r)
<1>1. PICK S \in SUBSET StepNames :
         runs[r].steps \in [S -> Step] /\ S # {}
  BY DEF IInv, GoodRun, Run, MatchesSteps
<1>2. run = NewRun(runs[r].project, runs[r].definition, runs[r].mode, r,
                   [n \in S |-> PendingStep])
  BY <1>1, Zenon DEF Retried, resetSteps
<1>3. /\ runs[r].project \in ProjectIds /\ runs[r].mode \in Mode
      /\ runs[r].definition \in DefIds \cup {None}
      /\ r \in RunIds \cup {None}
  BY Zenon DEF IInv, GoodRun, Run
<1>4. GoodRun(run)
  <2>1. GoodRun(NewRun(runs[r].project, runs[r].definition, runs[r].mode, r,
                       [n \in S |-> PendingStep]))
    BY <1>1, <1>3, NewRunGood, Zenon
  <2> QED
    BY <1>2, <2>1, Zenon
<1>5. /\ run.definition = runs[r].definition /\ run.project = runs[r].project
      /\ run.mode = runs[r].mode /\ run.parent = r
  BY <1>2 DEF NewRun
<1> HIDE DEF run
<1>6. Attached(run)
  BY <1>5, Zenon DEF IInv, DefinitionInProject, Attached
<1>7. Descends(run, new)
  BY <1>5, Zenon DEF Descends
<1> QED
  BY <1>4, <1>6, <1>7, Zenon DEF run

\* Every method of the store preserves the invariant.
LEMMA NextIInv == IInv /\ [Next]_vars => IInv'
<1> SUFFICES ASSUME IInv, [Next]_vars PROVE IInv'
  BY Zenon
<1>1. ASSUME NEW p \in ProjectIds, CreateProject(p) PROVE IInv'
  BY <1>1, Zenon DEF IInv, CreateProject, DefinitionInProject, RetryLineage
<1>2. ASSUME NEW d \in DefIds, NEW p \in ProjectIds, NEW jobs \in JobSets,
             NEW mode \in {"prefect", "functions"},
             UpsertPipelineDefinition(d, p, mode, jobs)
      PROVE  IInv'
  <2> DEFINE new == [project |-> IF d \in DOMAIN definitions
                                 THEN definitions[d].project ELSE p,
                     mode |-> mode, jobs |-> jobs]
  <2>1. new \in Definition
    BY Zenon DEF IInv, Definition
  <2>2. d \in DOMAIN definitions => new.project = definitions[d].project
    BY Zenon
  <2>3. definitions' = Put(definitions, d, new) /\ UNCHANGED <<projects, runs>>
    BY <1>2, Zenon DEF UpsertPipelineDefinition
  <2> HIDE DEF new
  <2> QED
    BY <2>1, <2>2, <2>3, PutDefinition, Zenon
<1>3. ASSUME NEW r \in RunIds, NEW p \in ProjectIds, NEW d \in DefIds \cup {None},
             SubmitPipeline(r, p, d)
      PROVE  IInv'
  BY <1>3, SubmittedFits, AddRun, Zenon DEF SubmitPipeline
<1>4. ASSUME NEW r \in DOMAIN runs, NEW new, GoodRun(new),
             Identity(new) = Identity(runs[r]),
             runs' = [runs EXCEPT ![r] = new], UNCHANGED <<projects, definitions>>
      PROVE  IInv'
  BY <1>4, ExceptIsPut, ReplaceRun, Zenon
<1>5. \A r \in DOMAIN runs : runs[r] \in Run /\ GoodRun(runs[r])
  BY Zenon DEF IInv, GoodRun
<1>6. ASSUME NEW r \in RunIds, CancelRun(r) PROVE IInv'
  BY <1>4, <1>5, <1>6, CancelIdentity, CancelGood, Zenon DEF CancelRun
<1>7. ASSUME NEW r \in RunIds, NEW new \in RunIds, RetryRun(r, new)
      PROVE  IInv'
  BY <1>7, RetriedFits, AddRun, Zenon DEF RetryRun
<1>8. ASSUME NEW r \in RunIds, NEW e \in EngineIds, SetRunEngine(r, e)
      PROVE  IInv'
  BY <1>4, <1>5, <1>8, EngineIdentity, EngineGood, Zenon DEF SetRunEngine
<1>9. ASSUME NEW r \in RunIds, NEW name \in StepNames,
             NEW status \in StepStatus, UpdateRunStep(r, name, status)
      PROVE  IInv'
  BY <1>4, <1>5, <1>9, ReportIdentity, ReportGood, Zenon DEF UpdateRunStep
<1>10. CASE UNCHANGED vars
  BY <1>10, Zenon DEF vars, IInv, DefinitionInProject, RetryLineage
<1> QED
  BY <1>1, <1>2, <1>3, <1>6, <1>7, <1>8, <1>9, <1>10, Zenon DEF Next

\* The inductive invariant holds of every behaviour.
THEOREM Invariance == Spec => []IInv
BY InitIInv, NextIInv, PTL DEF Spec

-----------------------------------------------------------------------------

\* The store keeps its types, whatever is submitted, reported or retried.
THEOREM TypeCorrect == Spec => []TypeOK
<1>1. IInv => TypeOK
  BY Zenon DEF IInv, TypeOK, GoodRun
<1> QED
  BY <1>1, Invariance, PTL

\* Status and progress of every run are those of its steps.
THEOREM RunsMatchSteps == Spec => []RunMatchesSteps
<1>1. IInv => RunMatchesSteps
  BY Zenon DEF IInv, RunMatchesSteps, GoodRun
<1> QED
  BY <1>1, Invariance, PTL

\* A run reads 100 per cent exactly when it succeeded, however many steps it
\* has.
THEOREM FullProgress == Spec => []FullProgressMeansSucceeded
<1>1. ASSUME NEW run, GoodRun(run)
      PROVE  run.progress = 100 <=> run.status = "succeeded"
  <2>1. PICK S \in SUBSET StepNames : run.steps \in [S -> Step] /\ S # {}
    BY <1>1 DEF GoodRun, Run, MatchesSteps
  <2>2. runProgress(run.steps) = 100 <=> AllFinished(run.steps)
    BY <2>1, RunProgressValue, ZenonT(30)
  <2> QED
    BY <1>1, <2>2, Zenon DEF GoodRun, MatchesSteps
<1>2. IInv => FullProgressMeansSucceeded
  BY <1>1, Zenon DEF IInv, FullProgressMeansSucceeded
<1> QED
  BY <1>2, Invariance, PTL

\* A run's definition is one of the run's project.
THEOREM DefinitionsInProject == Spec => []DefinitionInProject
<1>1. IInv => DefinitionInProject
  BY Zenon DEF IInv
<1> QED
  BY <1>1, Invariance, PTL

\* No step of the store changes the outcome of a terminal run.
THEOREM TerminalStable == Spec => TerminalRunsKeepState
<1> DEFINE Kept == \A r \in DOMAIN runs :
                     runs[r].status \in Terminal =>
                       /\ r \in DOMAIN runs'
                       /\ Outcome(runs'[r]) = Outcome(runs[r])
<1>1. IInv /\ [Next]_vars => [Kept]_vars
  <2> SUFFICES ASSUME IInv, Next PROVE Kept
    BY Zenon
  <2>1. CASE runs' = runs
    BY <2>1, Zenon DEF Outcome
  <2>2. ASSUME NEW k, NEW new, k \notin DOMAIN runs, runs' = Put(runs, k, new)
        PROVE  Kept
    BY <2>2, Zenon DEF Put, Outcome
  <2>3. ASSUME NEW k \in DOMAIN runs, NEW new, runs' = [runs EXCEPT ![k] = new],
               runs[k].status \in Terminal => Outcome(new) = Outcome(runs[k])
        PROVE  Kept
    BY <2>3, Zenon DEF Outcome
  <2>4. ASSUME NEW r \in RunIds, CancelRun(r) PROVE Kept
    <3>1. runs[r].status = "cancelled" => Cancelled(runs[r]) = runs[r]
      BY <2>4, Zenon DEF CancelRun, Cancelled, IInv, GoodRun, Run
    <3> QED
      BY <2>3, <2>4, <3>1, Zenon DEF CancelRun, Terminal, Outcome
  <2>5. ASSUME NEW r \in RunIds, NEW e \in EngineIds, SetRunEngine(r, e)
        PROVE  Kept
    <3>1. Outcome(EngineLinked(runs[r], e)) = Outcome(runs[r])
      BY <2>5, Zenon DEF SetRunEngine, EngineLinked, Outcome, IInv, GoodRun, Run
    <3> QED
      BY <2>3, <2>5, <3>1, Zenon DEF SetRunEngine
  <2>6. ASSUME NEW r \in RunIds, NEW n \in StepNames, NEW s \in StepStatus,
               UpdateRunStep(r, n, s)
        PROVE  Kept
    <3>1. runs[r].status \in Terminal =>
            StepReported(runs[r], n, s) = runs[r]
      BY Zenon DEF StepReported
    <3> QED
      BY <2>3, <2>6, <3>1, Zenon DEF UpdateRunStep
  <2> QED
    BY <2>1, <2>2, <2>4, <2>5, <2>6, Zenon
    DEF Next, CreateProject, UpsertPipelineDefinition, SubmitPipeline, RetryRun
<1> QED
  BY <1>1, Invariance, PTL DEF Spec, TerminalRunsKeepState

\* A retry descends from a stored run of its project, definition and mode,
\* and no two runs are retries of each other.
THEOREM Lineage == Spec => []RetryLineage
<1>1. IInv => RetryLineage
  BY Zenon DEF IInv
<1> QED
  BY <1>1, Invariance, PTL

\* No method of the store drops a run, unlists a step or queues a run again.
THEOREM MovesForward == Spec => RunsMoveForward
<1> DEFINE Forward(old, new) ==
             /\ DOMAIN old.steps \subseteq DOMAIN new.steps
             /\ new.status = "queued" => old.status = "queued"
           Kept == \A r \in DOMAIN runs :
                     /\ r \in DOMAIN runs'
                     /\ DOMAIN runs[r].steps \subseteq DOMAIN runs'[r].steps
                     /\ runs'[r].status = "queued" => runs[r].status = "queued"
<1>1. IInv /\ [Next]_vars => [Kept]_vars
  <2> SUFFICES ASSUME IInv, Next PROVE Kept
    BY Zenon
  <2>1. CASE runs' = runs
    BY <2>1, Zenon
  <2>2. ASSUME NEW k, NEW new, k \notin DOMAIN runs, runs' = Put(runs, k, new)
        PROVE  Kept
    BY <2>2, Zenon DEF Put
  <2>3. ASSUME NEW k \in DOMAIN runs, NEW new, runs' = [runs EXCEPT ![k] = new],
               Forward(runs[k], new)
        PROVE  Kept
    BY <2>3, Zenon
  <2>4. \A r \in DOMAIN runs : runs[r] \in Run
    BY Zenon DEF IInv, GoodRun
  <2>5. ASSUME NEW r \in RunIds, CancelRun(r) PROVE Kept
    <3>1. Forward(runs[r], Cancelled(runs[r]))
      BY <2>4, <2>5 DEF CancelRun, Cancelled, Run
    <3> QED
      BY <2>3, <2>5, <3>1, Zenon DEF CancelRun
  <2>6. ASSUME NEW r \in RunIds, NEW e \in EngineIds, SetRunEngine(r, e)
        PROVE  Kept
    <3>1. Forward(runs[r], EngineLinked(runs[r], e))
      BY <2>4, <2>6 DEF SetRunEngine, EngineLinked, Run
    <3> QED
      BY <2>3, <2>6, <3>1, Zenon DEF SetRunEngine
  <2>7. ASSUME NEW r \in RunIds, NEW n \in StepNames, NEW s \in StepStatus,
               UpdateRunStep(r, n, s)
        PROVE  Kept
    <3> DEFINE steps == upsertStep(runs[r].steps, n, s)
               after == runStatus(runs[r].status, steps)
    <3>1. DOMAIN runs[r].steps \subseteq DOMAIN steps
      BY Zenon DEF upsertStep
    <3>2. after = "queued" => runs[r].status = "queued"
      BY Zenon DEF runStatus
    <3>3. /\ applyStepTransition(runs[r], n, s).steps = steps
          /\ applyStepTransition(runs[r], n, s).status = after
      BY <2>4, <2>7 DEF UpdateRunStep, applyStepTransition, Run
    <3>4. Forward(runs[r], StepReported(runs[r], n, s))
      BY <3>1, <3>2, <3>3, Zenon DEF StepReported
    <3> QED
      BY <2>3, <2>7, <3>4, Zenon DEF UpdateRunStep
  <2> QED
    BY <2>1, <2>2, <2>5, <2>6, <2>7, Zenon
    DEF Next, CreateProject, UpsertPipelineDefinition, SubmitPipeline, RetryRun
<1> QED
  BY <1>1, Invariance, PTL DEF Spec, RunsMoveForward

-----------------------------------------------------------------------------
(* The PostgreSQL repository *)

\* The write() a method makes when it reads the tables prjs, defs and stored:
\* the value its RunStore action would store.
ComputedFrom(w, prjs, defs, stored) ==
  \/ \E p \in ProjectIds \ prjs : w = Write("project", p, None)
  \/ \E d \in DefIds, p \in prjs, jobs \in JobSets,
        mode \in {"prefect", "functions"} :
       w = Write("pipeline_definition", d,
                 [project |-> IF d \in DOMAIN defs
                              THEN defs[d].project ELSE p,
                  mode |-> mode, jobs |-> jobs])
  \/ \E r \in RunIds \ DOMAIN stored, p \in prjs :
       w = Write("pipeline_run", r,
                 NewRun(p, None, "prefect", None,
                        defaultSteps(TemplateSteps, "pending")))
  \/ \E r \in RunIds \ DOMAIN stored, p \in prjs, d \in DOMAIN defs :
       /\ defs[d].project = p
       /\ w = Write("pipeline_run", r,
                    NewRun(p, d, defs[d].mode, None,
                           stepsFromDefinition(defs[d].jobs)))
  \/ \E r \in DOMAIN stored :
       /\ stored[r].status \notin {"succeeded", "failed"}
       /\ w = Write("pipeline_run", r, Cancelled(stored[r]))
  \/ \E r \in DOMAIN stored, new \in RunIds \ DOMAIN stored :
       w = Write("pipeline_run", new, Retried(stored[r], r))
  \/ \E r \in DOMAIN stored, e \in EngineIds :
       w = Write("pipeline_run", r, EngineLinked(stored[r], e))
  \/ \E r \in DOMAIN stored, n \in StepNames, s \in StepStatus :
       w = Write("pipeline_run", r, StepReported(stored[r], n, s))

\* The write() a method makes when it reads the tables as they are now.
Computed(w) == ComputedFrom(w, projects, definitions, runs)

\* A definition that may be stored under id whatever was committed since it
\* was read: an existing definition keeps its project.
SoundDefinition(id, value) ==
  /\ id \in DefIds
  /\ value \in Definition
  /\ id \in DOMAIN definitions => value.project = definitions[id].project

\* A run that may be stored under id: a stored run keeps its identity, a new
\* one fits the store.
SoundRun(id, value) ==
  /\ id \in RunIds
  /\ GoodRun(value)
  /\ IF id \in DOMAIN runs THEN Identity(value) = Identity(runs[id])
                           ELSE Attached(value) /\ Descends(value, id)

\* A write() that is safe to commit.
Sound(w) ==
  \/ w = Idle
  \/ \E p \in ProjectIds : w = Write("project", p, None)
  \/ \E id, value : /\ w = Write("pipeline_definition", id, value)
                    /\ SoundDefinition(id, value)
  \/ \E id, value : /\ w = Write("pipeline_run", id, value)
                    /\ SoundRun(id, value)

\* The write() creates a definition or a run rather than replaces one.
Creates(w) ==
  \/ w.kind = "pipeline_definition" /\ w.id \notin DOMAIN definitions
  \/ w.kind = "pipeline_run" /\ w.id \notin DOMAIN runs

\* The inductive invariant: what the file store keeps; every write() in
\* flight is safe to commit; no two callers create the same resource; and a
\* caller nobody overtook still holds what it would read now.
PgInv ==
  /\ IInv
  /\ DOMAIN pending = Clients
  /\ \A c \in Clients : Sound(pending[c])
  /\ \A b, c \in Clients :
       /\ b # c /\ Creates(pending[c])
       /\ pending[b].kind = pending[c].kind
       => pending[b].id # pending[c].id
  /\ \A c \in Clients \ overtaken :
       pending[c] = Idle \/ Computed(pending[c])

\* The kinds of a write() tell its alternatives apart.
LEMMA WriteFields ==
  ASSUME NEW kind, NEW id, NEW value
  PROVE  /\ Write(kind, id, value).kind = kind
         /\ Write(kind, id, value).id = id
         /\ Write(kind, id, value).value = value
BY Zenon DEF Write

\* A caller that read reads something its method would store, and creates
\* only what no other caller is creating.
LEMMA CallReads ==
  ASSUME IInv, NEW c \in Clients, Call(c)
  PROVE  \E w : /\ Read(c, w) /\ Computed(w)
                /\ Creates(w) => Unused(w.kind, w.id)
<1> DEFINE Goal == \E w : /\ Read(c, w) /\ Computed(w)
                          /\ Creates(w) => Unused(w.kind, w.id)
<1>1. ASSUME NEW p \in ProjectIds, PgCreateProject(c, p) PROVE Goal
  <2> DEFINE w == Write("project", p, None)
  <2>1. Read(c, w) /\ Computed(w)
    BY <1>1 DEF PgCreateProject, Computed, ComputedFrom
  <2>2. ~Creates(w)
    BY WriteFields DEF Creates
  <2> QED
    BY <2>1, <2>2, Zenon
<1>2. ASSUME NEW d \in DefIds, NEW p \in ProjectIds, NEW jobs \in JobSets,
             NEW mode \in {"prefect", "functions"},
             PgUpsertPipelineDefinition(c, d, p, mode, jobs)
      PROVE  Goal
  <2> DEFINE w == Write("pipeline_definition", d,
                        [project |-> IF d \in DOMAIN definitions
                                     THEN definitions[d].project ELSE p,
                         mode |-> mode, jobs |-> jobs])
  <2>1. Read(c, w) /\ Computed(w)
    BY <1>2 DEF PgUpsertPipelineDefinition, Computed, ComputedFrom
  <2>2. Creates(w) => Unused(w.kind, w.id)
    BY <1>2, WriteFields DEF PgUpsertPipelineDefinition, Creates
  <2> QED
    BY <2>1, <2>2, Zenon
<1>3. ASSUME NEW r \in RunIds, NEW value,
             Computed(Write("pipeline_run", r, value)),
             Read(c, Write("pipeline_run", r, value)),
             r \in DOMAIN runs \/ FreshRun(r)
      PROVE  Goal
  <2>1. Creates(Write("pipeline_run", r, value)) => Unused("pipeline_run", r)
    BY <1>3, WriteFields DEF FreshRun, Creates
  <2> QED
    BY <1>3, <2>1, WriteFields
<1>4. ASSUME NEW r \in RunIds, NEW p \in ProjectIds, NEW d \in DefIds \cup {None},
             PgSubmitPipeline(c, r, p, d)
      PROVE  Goal
  <2>1. CASE Read(c, Write("pipeline_run", r,
                        NewRun(p, None, "prefect", None,
                               defaultSteps(TemplateSteps, "pending"))))
    <3>1. Computed(Write("pipeline_run", r,
                         NewRun(p, None, "prefect", None,
                                defaultSteps(TemplateSteps, "pending"))))
      BY <1>4 DEF PgSubmitPipeline, FreshRun, Computed, ComputedFrom
    <3> QED
      BY <1>3, <1>4, <2>1, <3>1, Zenon DEF PgSubmitPipeline
  <2>2. CASE /\ d \in DOMAIN definitions
             /\ definitions[d].project = p
             /\ Read(c, Write("pipeline_run", r,
                          NewRun(p, d, definitions[d].mode, None,
                                 stepsFromDefinition(definitions[d].jobs))))
    <3>1. Computed(Write("pipeline_run", r,
                         NewRun(p, d, definitions[d].mode, None,
                                stepsFromDefinition(definitions[d].jobs))))
      BY <1>4, <2>2, ZenonT(30) DEF PgSubmitPipeline, FreshRun, Computed, ComputedFrom
    <3> QED
      BY <1>3, <1>4, <2>2, <3>1 DEF PgSubmitPipeline
  <2> QED
    BY <1>4, <2>1, <2>2, Zenon DEF PgSubmitPipeline
<1>5. ASSUME NEW r \in RunIds, PgCancelRun(c, r) PROVE Goal
  <2>1. Computed(Write("pipeline_run", r, Cancelled(runs[r])))
    BY <1>5, Zenon DEF PgCancelRun, Computed, ComputedFrom
  <2> QED
    BY <1>3, <1>5, <2>1, Zenon DEF PgCancelRun
<1>6. ASSUME NEW r \in RunIds, NEW new \in RunIds, PgRetryRun(c, r, new)
      PROVE  Goal
  <2>1. Computed(Write("pipeline_run", new, Retried(runs[r], r)))
    BY <1>6, Zenon DEF PgRetryRun, FreshRun, Computed, ComputedFrom
  <2> QED
    BY <1>3, <1>6, <2>1, Zenon DEF PgRetryRun
<1>7. ASSUME NEW r \in RunIds, NEW e \in EngineIds, PgSetRunEngine(c, r, e)
      PROVE  Goal
  <2>1. Computed(Write("pipeline_run", r, EngineLinked(runs[r], e)))
    BY <1>7, Zenon DEF PgSetRunEngine, Computed, ComputedFrom
  <2> QED
    BY <1>3, <1>7, <2>1, Zenon DEF PgSetRunEngine
<1>8. ASSUME NEW r \in RunIds, NEW n \in StepNames, NEW s \in StepStatus,
             PgUpdateRunStep(c, r, n, s)
      PROVE  Goal
  <2>1. Computed(Write("pipeline_run", r, StepReported(runs[r], n, s)))
    BY <1>8, Zenon DEF PgUpdateRunStep, Computed, ComputedFrom
  <2> QED
    BY <1>3, <1>8, <2>1, Zenon DEF PgUpdateRunStep
<1> QED
  BY <1>1, <1>2, <1>4, <1>5, <1>6, <1>7, <1>8, Zenon DEF Call

\* What a method computes from the tables is safe to commit.
LEMMA ComputedSound ==
  ASSUME IInv, NEW w, Computed(w)
  PROVE  Sound(w)
<1>0. projects \subseteq ProjectIds /\ DOMAIN runs \subseteq RunIds
  BY Zenon DEF IInv
<1>1. CASE \E p \in ProjectIds \ projects : w = Write("project", p, None)
  BY <1>1, Zenon DEF Sound
<1>2. ASSUME NEW d \in DefIds, NEW p \in projects, NEW jobs \in JobSets,
             NEW mode \in {"prefect", "functions"},
             w = Write("pipeline_definition", d,
                       [project |-> IF d \in DOMAIN definitions
                                    THEN definitions[d].project ELSE p,
                        mode |-> mode, jobs |-> jobs])
      PROVE  Sound(w)
  <2> DEFINE new == [project |-> IF d \in DOMAIN definitions
                                 THEN definitions[d].project ELSE p,
                     mode |-> mode, jobs |-> jobs]
  <2>1. SoundDefinition(d, new)
    BY Zenon DEF SoundDefinition, IInv, Definition
  <2> QED
    BY <1>2, <2>1, Zenon DEF Sound
<1>3. ASSUME NEW r, NEW value, w = Write("pipeline_run", r, value),
             SoundRun(r, value)
      PROVE  Sound(w)
  BY <1>3, Zenon DEF Sound
<1>4. ASSUME NEW r \in RunIds \ DOMAIN runs, NEW p \in projects,
             w = Write("pipeline_run", r,
                       NewRun(p, None, "prefect", None,
                              defaultSteps(TemplateSteps, "pending")))
      PROVE  Sound(w)
  BY <1>0, <1>3, <1>4, SubmittedFits, Zenon DEF SoundRun
<1>5. ASSUME NEW r \in RunIds \ DOMAIN runs, NEW p \in projects,
             NEW d \in DOMAIN definitions, definitions[d].project = p,
             w = Write("pipeline_run", r,
                       NewRun(p, d, definitions[d].mode, None,
                              stepsFromDefinition(definitions[d].jobs)))
      PROVE  Sound(w)
  BY <1>0, <1>3, <1>5, SubmittedFits, Zenon DEF SoundRun
<1>6. \A r \in DOMAIN runs : runs[r] \in Run /\ GoodRun(runs[r])
  BY Zenon DEF IInv, GoodRun
<1>7. ASSUME NEW r \in DOMAIN runs, runs[r].status \notin {"succeeded", "failed"},
             w = Write("pipeline_run", r, Cancelled(runs[r]))
      PROVE  Sound(w)
  <2>1. SoundRun(r, Cancelled(runs[r]))
    BY <1>0, <1>6, <1>7, CancelGood, CancelIdentity, Zenon DEF SoundRun
  <2> QED
    BY <1>3, <1>7, <2>1, Zenon
<1>8. ASSUME NEW r \in DOMAIN runs, NEW new \in RunIds \ DOMAIN runs,
             w = Write("pipeline_run", new, Retried(runs[r], r))
      PROVE  Sound(w)
  BY <1>3, <1>8, RetriedFits, Zenon DEF SoundRun
<1>9. ASSUME NEW r \in DOMAIN runs, NEW e \in EngineIds,
             w = Write("pipeline_run", r, EngineLinked(runs[r], e))
      PROVE  Sound(w)
  <2>1. SoundRun(r, EngineLinked(runs[r], e))
    BY <1>0, <1>6, EngineGood, EngineIdentity, Zenon DEF SoundRun
  <2> QED
    BY <1>3, <1>9, <2>1, Zenon
<1>10. ASSUME NEW r \in DOMAIN runs, NEW n \in StepNames, NEW s \in StepStatus,
              w = Write("pipeline_run", r, StepReported(runs[r], n, s))
       PROVE  Sound(w)
  <2>1. SoundRun(r, StepReported(runs[r], n, s))
    BY <1>0, <1>6, ReportGood, ReportIdentity, Zenon DEF SoundRun
  <2> QED
    BY <1>3, <1>10, <2>1, Zenon
<1> QED
  BY <1>1, <1>2, <1>4, <1>5, <1>7, <1>8, <1>9, <1>10, Zenon DEF Computed, ComputedFrom

\* The tables after a commit of a sound write() satisfy what the file store
\* keeps, also when others committed since the caller's read.
LEMMA CommitKeepsStore ==
  ASSUME PgInv, NEW c \in Clients, Commit(c)
  PROVE  IInv'
<1> DEFINE w == pending[c]
<1>1. ASSUME NEW p \in ProjectIds, w = Write("project", p, None) PROVE IInv'
  <2>1. projects' = projects \cup {p} /\ UNCHANGED <<definitions, runs>>
    BY <1>1, WriteFields DEF Commit
  <2> QED
    BY <2>1, Zenon DEF PgInv, IInv, DefinitionInProject, RetryLineage
<1>2. ASSUME NEW id, NEW value, w = Write("pipeline_definition", id, value),
             SoundDefinition(id, value)
      PROVE  IInv'
  <2>1. /\ definitions' = Put(definitions, id, value)
        /\ UNCHANGED <<projects, runs>>
    BY <1>2, WriteFields DEF Commit
  <2> QED
    BY <1>2, <2>1, PutDefinition, Zenon DEF PgInv, SoundDefinition
<1>3. ASSUME NEW id, NEW value, w = Write("pipeline_run", id, value),
             SoundRun(id, value)
      PROVE  IInv'
  <2>1. runs' = Put(runs, id, value) /\ UNCHANGED <<projects, definitions>>
    BY <1>3, WriteFields DEF Commit
  <2> QED
    BY <1>3, <2>1, AddRun, ReplaceRun, Zenon DEF PgInv, SoundRun
<1>4. w # Idle /\ Sound(w)
  BY Zenon DEF Commit, PgInv
<1> QED
  BY <1>1, <1>2, <1>3, <1>4, Zenon DEF Sound

\* What is sound of a definition in flight stays sound when another caller
\* commits.
LEMMA DefinitionStaysSound ==
  ASSUME PgInv, NEW b \in Clients, NEW c \in Clients, b # c, Commit(c),
         NEW id, NEW value, pending[b] = Write("pipeline_definition", id, value),
         SoundDefinition(id, value)
  PROVE  SoundDefinition(id, value)'
<1>1. CASE definitions' = definitions
  BY <1>1, Zenon DEF SoundDefinition
<1>2. ASSUME pending[c].kind = "pipeline_definition",
             definitions' = Put(definitions, pending[c].id, pending[c].value)
      PROVE  SoundDefinition(id, value)'
  <2>1. PICK i, v : /\ pending[c] = Write("pipeline_definition", i, v)
                    /\ SoundDefinition(i, v)
    BY <1>2, WriteFields DEF PgInv, Sound, Idle
  <2>2. definitions' = Put(definitions, i, v)
    BY <1>2, <2>1, WriteFields
  <2>3. id = i => i \in DOMAIN definitions
    BY <2>1, WriteFields DEF PgInv, Creates
  <2>4. /\ DOMAIN definitions' = DOMAIN definitions \cup {i}
        /\ definitions'[i] = v
        /\ \A x \in DOMAIN definitions \ {i} : definitions'[x] = definitions[x]
    BY <2>2, Zenon DEF Put
  <2> QED
    BY <2>1, <2>3, <2>4, Zenon DEF SoundDefinition
<1> QED
  BY <1>1, <1>2, Zenon DEF Commit

\* A definition keeps its project when it is replaced, so a run stays
\* attached to it; a run keeps its identity, so its retries still descend
\* from it.
LEMMA CommitKeepsLinks ==
  ASSUME PgInv, NEW c \in Clients, Commit(c), NEW run, NEW r
  PROVE  /\ Attached(run) => Attached(run)'
         /\ Descends(run, r) => Descends(run, r)'
<1>1. CASE definitions' = definitions /\ runs' = runs
  BY <1>1, Zenon DEF Attached, Descends
<1>2. CASE pending[c].kind = "pipeline_definition"
  <2>1. PICK i, v : /\ pending[c] = Write("pipeline_definition", i, v)
                    /\ SoundDefinition(i, v)
    BY <1>2, WriteFields DEF PgInv, Sound, Idle
  <2>2. definitions' = Put(definitions, i, v) /\ runs' = runs
    BY <2>1, WriteFields DEF Commit
  <2>3. /\ DOMAIN definitions' = DOMAIN definitions \cup {i}
        /\ definitions'[i] = v
        /\ \A x \in DOMAIN definitions \ {i} : definitions'[x] = definitions[x]
    BY <2>2, Zenon DEF Put
  <2> QED
    BY <2>1, <2>2, <2>3, Zenon DEF Attached, Descends, SoundDefinition
<1>3. CASE pending[c].kind = "pipeline_run"
  <2>1. PICK i, v : pending[c] = Write("pipeline_run", i, v) /\ SoundRun(i, v)
    BY <1>3, WriteFields DEF PgInv, Sound, Idle
  <2>2. runs' = Put(runs, i, v) /\ definitions' = definitions
    BY <2>1, WriteFields DEF Commit
  <2>3. /\ DOMAIN runs' = DOMAIN runs \cup {i}
        /\ runs'[i] = v
        /\ \A x \in DOMAIN runs \ {i} : runs'[x] = runs[x]
    BY <2>2, Zenon DEF Put
  <2> QED
    BY <2>1, <2>2, <2>3, Zenon DEF Attached, Descends, SoundRun, Identity
<1> QED
  BY <1>1, <1>2, <1>3, Zenon DEF Commit

\* What is sound of a run in flight stays sound when another caller commits.
LEMMA RunStaysSound ==
  ASSUME PgInv, NEW b \in Clients, NEW c \in Clients, b # c, Commit(c),
         NEW id, NEW value, pending[b] = Write("pipeline_run", id, value),
         SoundRun(id, value)
  PROVE  SoundRun(id, value)'
<1>1. CASE runs' = runs
  BY <1>1, CommitKeepsLinks, Zenon DEF SoundRun
<1>2. ASSUME pending[c].kind = "pipeline_run",
             runs' = Put(runs, pending[c].id, pending[c].value)
      PROVE  SoundRun(id, value)'
  <2>1. PICK i, v : pending[c] = Write("pipeline_run", i, v) /\ SoundRun(i, v)
    BY <1>2, WriteFields DEF PgInv, Sound, Idle
  <2>2. runs' = Put(runs, i, v)
    BY <1>2, <2>1, WriteFields
  <2>3. id = i => i \in DOMAIN runs
    BY <2>1, WriteFields DEF PgInv, Creates
  <2>4. /\ DOMAIN runs' = DOMAIN runs \cup {i}
        /\ runs'[i] = v
        /\ \A x \in DOMAIN runs \ {i} : runs'[x] = runs[x]
    BY <2>2, Zenon DEF Put
  <2>5. CASE id = i
    BY <2>1, <2>3, <2>4, <2>5, Zenon DEF SoundRun
  <2>6. CASE id # i
    BY <2>1, <2>4, <2>6, CommitKeepsLinks, Zenon DEF SoundRun
  <2> QED
    BY <2>5, <2>6, Zenon
<1> QED
  BY <1>1, <1>2, Zenon DEF Commit

\* The tables only grow.
LEMMA CommitGrows ==
  ASSUME NEW c \in Clients, Commit(c)
  PROVE  /\ DOMAIN definitions \subseteq DOMAIN definitions'
         /\ DOMAIN runs \subseteq DOMAIN runs'
BY Zenon DEF Commit, Put

\* A commit preserves the invariant.
LEMMA CommitKeeps ==
  ASSUME PgInv, NEW c \in Clients, Commit(c)
  PROVE  PgInv'
<1>1. IInv'
  BY CommitKeepsStore, Zenon
<1>2. /\ DOMAIN pending' = Clients
      /\ pending'[c] = Idle
      /\ \A b \in Clients \ {c} : pending'[b] = pending[b]
  BY Zenon DEF PgInv, Commit
<1>3. ASSUME NEW b \in Clients PROVE Sound(pending[b])' 
  <2>1. CASE b = c
    BY <1>2, <2>1, Zenon DEF Sound
  <2>2. CASE b # c
    <3>1. pending'[b] = pending[b] /\ Sound(pending[b])
      BY <1>2, <2>2, Zenon DEF PgInv
    <3>2. ASSUME NEW id, NEW value,
                 pending[b] = Write("pipeline_definition", id, value),
                 SoundDefinition(id, value)
          PROVE  Sound(pending[b])'
      BY <2>2, <3>1, <3>2, DefinitionStaysSound, Zenon DEF Sound, Write
    <3>3. ASSUME NEW id, NEW value,
                 pending[b] = Write("pipeline_run", id, value),
                 SoundRun(id, value)
          PROVE  Sound(pending[b])'
      BY <2>2, <3>1, <3>3, RunStaysSound, Zenon DEF Sound, Write
    <3>4. pending[b] = Idle => Sound(pending[b])'
      BY <3>1, Zenon DEF Sound, Idle
    <3>5. (\E p \in ProjectIds : pending[b] = Write("project", p, None))
            => Sound(pending[b])'
      BY <3>1, Zenon DEF Sound, Write
    <3> QED
      BY <3>1, <3>2, <3>3, <3>4, <3>5, Zenon DEF Sound
  <2> QED
    BY <2>1, <2>2, Zenon
<1>4. ASSUME NEW a \in Clients, NEW b \in Clients, a # b,
             Creates(pending[b])', pending'[a].kind = pending'[b].kind
      PROVE  pending'[a].id # pending'[b].id
  <2>1. b # c /\ a # c
    BY <1>2, <1>4 DEF Creates, Idle
  <2>2. Creates(pending[b])
    BY <1>2, <1>4, <2>1, CommitGrows, Zenon DEF Creates
  <2> QED
    BY <1>2, <1>4, <2>1, <2>2 DEF PgInv
<1>5. \A b \in Clients \ overtaken' : pending'[b] = Idle
  BY <1>2, Zenon DEF Commit
<1> QED
  BY <1>1, <1>2, <1>3, <1>4, <1>5, Zenon DEF PgInv

\* A rollback preserves the invariant.
LEMMA RollbackKeeps ==
  ASSUME PgInv, NEW c \in Clients, Rollback(c)
  PROVE  PgInv'
<1>1. /\ DOMAIN pending' = Clients
      /\ pending'[c] = Idle
      /\ \A b \in Clients \ {c} : pending'[b] = pending[b]
      /\ UNCHANGED <<projects, definitions, runs>>
      /\ Clients \ overtaken' \subseteq (Clients \ overtaken) \cup {c}
  BY Zenon DEF PgInv, Rollback
<1>2. IInv'
  BY <1>1, Zenon DEF PgInv, IInv, DefinitionInProject, RetryLineage
<1>3. \A b \in Clients : Sound(pending[b])'
  BY <1>1 DEF PgInv, Sound, SoundDefinition, SoundRun, Attached, Descends
<1>4. \A a, b \in Clients :
        /\ a # b /\ Creates(pending[b])'
        /\ pending'[a].kind = pending'[b].kind
        => pending'[a].id # pending'[b].id
  <2> SUFFICES ASSUME NEW a \in Clients, NEW b \in Clients, a # b,
                      Creates(pending[b])', pending'[a].kind = pending'[b].kind
               PROVE  pending'[a].id # pending'[b].id
    BY Zenon
  <2>1. b # c /\ a # c
    BY <1>1 DEF Creates, Idle
  <2>2. Creates(pending[b])
    BY <1>1, <2>1, Zenon DEF Creates
  <2> QED
    BY <1>1, <2>1, <2>2, Zenon DEF PgInv
<1>5. \A b \in Clients \ overtaken' :
        pending'[b] = Idle \/ Computed(pending[b])'
  BY <1>1, Zenon DEF PgInv, Computed
<1> QED
  BY <1>1, <1>2, <1>3, <1>4, <1>5, Zenon DEF PgInv

\* The read half of a method preserves the invariant.
LEMMA ReadKeeps ==
  ASSUME PgInv, NEW c \in Clients, NEW w, Read(c, w), Computed(w),
         Creates(w) => Unused(w.kind, w.id)
  PROVE  PgInv'
<1>1. /\ DOMAIN pending' = Clients
      /\ pending'[c] = w
      /\ \A b \in Clients \ {c} : pending'[b] = pending[b]
      /\ UNCHANGED <<projects, definitions, runs, overtaken>>
  BY Zenon DEF PgInv, Read
<1>2. IInv'
  BY <1>1, ZenonT(30) DEF PgInv, IInv, DefinitionInProject, RetryLineage
<1>3. Sound(w)
  BY ComputedSound, Zenon DEF PgInv
<1>4. \A b \in Clients : Sound(pending[b])'
  BY <1>1, <1>3 DEF PgInv, Sound, SoundDefinition, SoundRun, Attached, Descends
<1>5. \A a, b \in Clients :
        /\ a # b /\ Creates(pending[b])'
        /\ pending'[a].kind = pending'[b].kind
        => pending'[a].id # pending'[b].id
  <2> SUFFICES ASSUME NEW a \in Clients, NEW b \in Clients, a # b,
                      Creates(pending[b])', pending'[a].kind = pending'[b].kind
               PROVE  pending'[a].id # pending'[b].id
    BY Zenon
  <2>1. CASE a # c /\ b # c
    <3>1. Creates(pending[b])
      BY <1>1, <2>1, Zenon DEF Creates
    <3> QED
      BY <1>1, <2>1, <3>1, Zenon DEF PgInv
  <2>2. CASE b = c
    <3>1. Creates(w)
      BY <1>1, <2>2, Zenon DEF Creates
    <3> QED
      BY <1>1, <2>2, <3>1, Zenon DEF Unused
  <2>3. CASE a = c
    <3>1. Creates(pending[b])
      BY <1>1, <2>3, Zenon DEF Creates
    <3>2. Creates(w) \/ w.id # pending[b].id
      BY <1>1, <2>3, <3>1, Zenon DEF Creates
    <3> QED
      BY <1>1, <2>3, <3>1, <3>2, Zenon DEF Unused
  <2> QED
    BY <2>1, <2>2, <2>3, Zenon
<1>6. \A b \in Clients \ overtaken' :
        pending'[b] = Idle \/ Computed(pending[b])'
  BY <1>1, Zenon DEF PgInv, Computed
<1> QED
  BY <1>1, <1>2, <1>4, <1>5, <1>6, Zenon DEF PgInv

\* The empty database satisfies the invariant.
LEMMA PgInitInv == PgInit => PgInv
<1> SUFFICES ASSUME PgInit PROVE PgInv
  BY Zenon
<1>1. IInv
  BY EmptyAtFirst, InitIInv, Zenon DEF PgInit, Init
<1> QED
  BY <1>1, Zenon DEF PgInit, PgInv, Sound, Creates, Idle

\* Every step of every caller preserves the invariant.
LEMMA PgNextInv == PgInv /\ [PgNext]_pgVars => PgInv'
<1> SUFFICES ASSUME PgInv, [PgNext]_pgVars PROVE PgInv'
  BY Zenon
<1>1. ASSUME NEW c \in Clients, Call(c) PROVE PgInv'
  BY <1>1, CallReads, ReadKeeps, Zenon DEF PgInv
<1>2. CASE UNCHANGED pgVars
  <2>1. IInv'
    BY <1>2, Zenon DEF pgVars, PgInv, IInv, DefinitionInProject, RetryLineage
  <2>2. \A b \in Clients : Sound(pending[b])'
    BY <1>2
    DEF pgVars, PgInv, Sound, SoundDefinition, SoundRun, Attached, Descends
  <2>3. \A b \in Clients \ overtaken' :
          pending'[b] = Idle \/ Computed(pending[b])'
    BY <1>2, Zenon DEF pgVars, PgInv, Computed
  <2> QED
    BY <1>2, <2>1, <2>2, <2>3 DEF pgVars, PgInv, Creates
<1> QED
  BY <1>1, <1>2, CommitKeeps, RollbackKeeps, Zenon DEF PgNext

\* The invariant holds of every behaviour of the repository.
THEOREM PgInvariance == PgSpec => []PgInv
BY PgInitInv, PgNextInv, PTL DEF PgSpec

-----------------------------------------------------------------------------

\* Whichever write() of two callers comes last, a stored run's status and
\* progress are those of its stored steps.
THEOREM PgRunsMatchSteps == PgSpec => []RunMatchesSteps
<1>1. PgInv => RunMatchesSteps
  BY Zenon DEF PgInv, IInv, RunMatchesSteps, GoodRun
<1> QED
  BY <1>1, PgInvariance, PTL

\* A write() computed from a stale read never changes which run a retry
\* descends from, nor the project, definition and mode the two share.
THEOREM PgLineage == PgSpec => []RetryLineage
<1>1. PgInv => RetryLineage
  BY Zenon DEF PgInv, IInv
<1> QED
  BY <1>1, PgInvariance, PTL

\* A definition that two callers update stays in the project of the runs
\* compiled from it.
THEOREM PgDefinitionsInProject == PgSpec => []DefinitionInProject
<1>1. PgInv => DefinitionInProject
  BY Zenon DEF PgInv, IInv
<1> QED
  BY <1>1, PgInvariance, PTL

\* A commit of what was computed from the tables as they are is the method
\* of the file store.
LEMMA CommitIsMethod ==
  ASSUME IInv, NEW c \in Clients, Commit(c), Computed(pending[c])
  PROVE  Next
<1> DEFINE w == pending[c]
<1>1. ASSUME NEW p \in ProjectIds \ projects, w = Write("project", p, None)
      PROVE  Next
  <2>1. CreateProject(p)
    BY <1>1, WriteFields DEF Commit, CreateProject
  <2> QED
    BY <2>1, Zenon DEF Next
<1>2. ASSUME NEW d \in DefIds, NEW p \in projects, NEW jobs \in JobSets,
             NEW mode \in {"prefect", "functions"},
             w = Write("pipeline_definition", d,
                       [project |-> IF d \in DOMAIN definitions
                                    THEN definitions[d].project ELSE p,
                        mode |-> mode, jobs |-> jobs])
      PROVE  Next
  <2>1. UpsertPipelineDefinition(d, p, mode, jobs)
    BY <1>2, WriteFields DEF Commit, UpsertPipelineDefinition
  <2>2. p \in ProjectIds
    BY Zenon DEF IInv
  <2> QED
    BY <2>1, <2>2, Zenon DEF Next
<1>3. ASSUME NEW r, NEW value, w = Write("pipeline_run", r, value)
      PROVE  /\ runs' = Put(runs, r, value) /\ UNCHANGED <<projects, definitions>>
             /\ r \in DOMAIN runs => runs' = [runs EXCEPT ![r] = value]
  <2>1. runs' = Put(runs, r, value) /\ UNCHANGED <<projects, definitions>>
    BY <1>3, WriteFields DEF Commit
  <2> QED
    BY <2>1, ExceptIsPut, Zenon
<1>0. /\ projects \subseteq ProjectIds /\ DOMAIN runs \subseteq RunIds
      /\ DOMAIN definitions \subseteq DefIds
  BY Zenon DEF IInv
<1>4. ASSUME NEW r \in RunIds \ DOMAIN runs, NEW p \in projects,
             w = Write("pipeline_run", r,
                       NewRun(p, None, "prefect", None,
                              defaultSteps(TemplateSteps, "pending")))
      PROVE  Next
  <2>1. SubmitPipeline(r, p, None)
    BY <1>3, <1>4, Zenon DEF SubmitPipeline
  <2> QED
    BY <1>0, <2>1, Zenon DEF Next
<1>5. ASSUME NEW r \in RunIds \ DOMAIN runs, NEW p \in projects,
             NEW d \in DOMAIN definitions, definitions[d].project = p,
             w = Write("pipeline_run", r,
                       NewRun(p, d, definitions[d].mode, None,
                              stepsFromDefinition(definitions[d].jobs)))
      PROVE  Next
  <2>1. SubmitPipeline(r, p, d)
    BY <1>3, <1>5, Zenon DEF SubmitPipeline
  <2> QED
    BY <1>0, <2>1, Zenon DEF Next
<1>6. ASSUME NEW r \in DOMAIN runs, runs[r].status \notin {"succeeded", "failed"},
             w = Write("pipeline_run", r, Cancelled(runs[r]))
      PROVE  Next
  <2>1. CancelRun(r)
    BY <1>3, <1>6, Zenon DEF CancelRun
  <2> QED
    BY <1>0, <2>1, Zenon DEF Next
<1>7. ASSUME NEW r \in DOMAIN runs, NEW new \in RunIds \ DOMAIN runs,
             w = Write("pipeline_run", new, Retried(runs[r], r))
      PROVE  Next
  <2>1. RetryRun(r, new)
    BY <1>3, <1>7, Zenon DEF RetryRun
  <2> QED
    BY <1>0, <2>1, Zenon DEF Next
<1>8. ASSUME NEW r \in DOMAIN runs, NEW e \in EngineIds,
             w = Write("pipeline_run", r, EngineLinked(runs[r], e))
      PROVE  Next
  <2>1. SetRunEngine(r, e)
    BY <1>3, <1>8, Zenon DEF SetRunEngine
  <2> QED
    BY <1>0, <2>1, Zenon DEF Next
<1>9. ASSUME NEW r \in DOMAIN runs, NEW n \in StepNames, NEW s \in StepStatus,
             w = Write("pipeline_run", r, StepReported(runs[r], n, s))
      PROVE  Next
  <2>1. UpdateRunStep(r, n, s)
    BY <1>3, <1>9, Zenon DEF UpdateRunStep
  <2> QED
    BY <1>0, <2>1, Zenon DEF Next
<1> QED
  BY <1>1, <1>2, <1>4, <1>5, <1>6, <1>7, <1>8, <1>9, Zenon DEF Computed, ComputedFrom

\* The repository implements the file store: it starts as an empty one, and
\* each of its steps leaves the tables alone, is one method of the file
\* store, or is a commit that follows another caller's.
THEOREM PgRefinesFileStore == PgSpec => ImplementsFileStore
<1>1. PgInit => Init
  BY EmptyAtFirst, Zenon DEF PgInit, Init
<1>2. PgInv /\ [PgNext]_pgVars
        => [Next \/ \E c \in overtaken : Commit(c)]_vars
  <2> SUFFICES ASSUME PgInv, [PgNext]_pgVars
               PROVE  \/ Next \/ \E c \in overtaken : Commit(c)
                      \/ UNCHANGED vars
    BY Zenon
  <2>1. ASSUME NEW c \in Clients, Call(c) PROVE UNCHANGED vars
    BY <2>1, CallReads, Zenon DEF PgInv, Read, vars
  <2>2. ASSUME NEW c \in Clients, Rollback(c) PROVE UNCHANGED vars
    BY <2>2, Zenon DEF Rollback, vars
  <2>3. ASSUME NEW c \in Clients, Commit(c), c \notin overtaken PROVE Next
    BY <2>3, CommitIsMethod, Zenon DEF PgInv, Commit
  <2>4. UNCHANGED pgVars => UNCHANGED vars
    BY Zenon DEF pgVars, vars
  <2> QED
    BY <2>1, <2>2, <2>3, <2>4, Zenon DEF PgNext
<1> QED
  BY <1>1, <1>2, PgInvariance, PTL DEF PgSpec, ImplementsFileStore

=============================================================================
