----------------------- MODULE FunctionPipelineProofs -----------------------
(***************************************************************************)
(* Dependency order and progress of the function executor, and what the    *)
(* stored runs say of it, for every set of jobs and of validated           *)
(* definitions and any number of runs, retries, lost reports, updates and  *)
(* restarts.  executeFunctionPipeline never reads the stored run, so IInv  *)
(* is about the executors alone and RInv about the runs, given IInv.  The  *)
(* last section is about the validation that admits the definitions.       *)
(***************************************************************************)
EXTENDS FunctionPipeline, PipelineValidation, TLAPS

Phase == {"none", "dispatch", "executing", "returned", "lost"}

\* The goroutine has stored its output.
Stored == {"report-succeeded", "done"}

ExecType ==
  [phase : Phase, def : Definitions \cup {<<>>},
   remaining : SUBSET Jobs, completed : SUBSET Jobs,
   pc : UNION {[S -> JobPc] : S \in SUBSET Jobs},
   attempts : UNION {[S -> Nat] : S \in SUBSET Jobs}]

\* The executor's maps are what its goroutines say, and a goroutine exists
\* only for a job whose dependencies have returned after their last report.
GoodExec(e) ==
  /\ e \in ExecType
  /\ DOMAIN e.pc = DOMAIN e.def /\ DOMAIN e.attempts = DOMAIN e.def
  /\ e.remaining = {j \in DOMAIN e.def : e.pc[j] = "waiting"}
  /\ e.completed = {j \in DOMAIN e.def : e.pc[j] \in Stored}
  /\ \A j \in DOMAIN e.def :
       e.pc[j] # "waiting" => e.def[j] \subseteq {d \in DOMAIN e.def : e.pc[d] = "done"}
  /\ e.phase \in {"none", "dispatch"} => e.def = <<>>

IInv ==
  /\ definition \in Definitions
  /\ exec \in [RunIds -> ExecType]
  /\ \A r \in RunIds : GoodExec(exec[r])

-----------------------------------------------------------------------------
\* The executor of executeFunctionPipeline starts with every job waiting.
LEMMA NewExecGood ==
  ASSUME NEW phase \in Phase, NEW def \in Definitions \cup {<<>>},
         phase \in {"none", "dispatch"} => def = <<>>
  PROVE  GoodExec(Exec(phase, def))
<1>1. DOMAIN def \in SUBSET Jobs
  BY FunctionAssumption
<1>2. [j \in DOMAIN def |-> "waiting"] \in [DOMAIN def -> JobPc]
  BY Zenon DEF JobPc
<1>3. [j \in DOMAIN def |-> "waiting"] \in UNION {[S -> JobPc] : S \in SUBSET Jobs}
  BY <1>1, <1>2, Zenon
<1>4. [j \in DOMAIN def |-> 0] \in UNION {[S -> Nat] : S \in SUBSET Jobs}
  <2>1. [j \in DOMAIN def |-> 0] \in [DOMAIN def -> Nat]
    BY Zenon
  <2> QED
    BY <1>1, <2>1, Zenon
<1>5. Exec(phase, def) \in ExecType
  BY <1>1, <1>3, <1>4, Zenon DEF Exec, ExecType
<1> QED
  BY <1>5, Zenon DEF GoodExec, Exec, Stored

\* Returning, and being lost in a restart, change the phase alone.
LEMMA PhaseGood ==
  ASSUME NEW e, GoodExec(e), NEW phase \in {"returned", "lost"}
  PROVE  GoodExec([e EXCEPT !.phase = phase])
BY Zenon DEF GoodExec, ExecType, Phase

\* Replacing the executor of one run keeps the invariant.
LEMMA ReplaceExec ==
  ASSUME IInv, NEW r \in RunIds, NEW E, GoodExec(E),
         exec' = [exec EXCEPT ![r] = E], definition' = definition
  PROVE  IInv'
BY DEF IInv, GoodExec

\* A started goroutine moves on to another step, which stores no output.
LEMMA GotoGood ==
  ASSUME NEW e, GoodExec(e), NEW j \in DOMAIN e.def, NEW to \in JobPc,
         e.pc[j] \notin {"waiting", "done"}, to # "waiting",
         e.pc[j] \in Stored <=> to \in Stored
  PROVE  GoodExec([e EXCEPT !.pc[j] = to])
<1> DEFINE pc == [e.pc EXCEPT ![j] = to]
           E == [e EXCEPT !.pc[j] = to]
<1>1. PICK S \in SUBSET Jobs : e.pc \in [S -> JobPc]
  BY DEF GoodExec, ExecType
<1>2. pc \in [S -> JobPc]
  BY <1>1, Zenon
<1>3. pc \in UNION {[T -> JobPc] : T \in SUBSET Jobs}
  BY <1>2, Zenon
<1>4. /\ E = [e EXCEPT !.pc = pc] /\ E \in ExecType
      /\ E.pc = pc /\ E.def = e.def /\ E.remaining = e.remaining
      /\ E.completed = e.completed /\ E.attempts = e.attempts
      /\ E.phase = e.phase
  BY <1>3, Zenon DEF GoodExec, ExecType
<1>5. DOMAIN pc = DOMAIN e.def /\ \A k \in DOMAIN e.def : pc[k] = IF k = j THEN to ELSE e.pc[k]
  BY <1>1, Zenon DEF GoodExec
<1> HIDE DEF E, pc
<1>6. GoodExec(E)
  BY <1>4, <1>5 DEF GoodExec
<1> QED
  BY <1>6, Zenon DEF E

\* The next attempt: a step of the goroutine that counts.
LEMMA InvokeGood ==
  ASSUME NEW e, GoodExec(e), NEW j \in DOMAIN e.def, e.pc[j] = "invoke"
  PROVE  GoodExec([e EXCEPT !.pc[j] = "invoking", !.attempts[j] = @ + 1])
<1> DEFINE F == [e EXCEPT !.pc[j] = "invoking"]
           n == [e.attempts EXCEPT ![j] = @ + 1]
           E == [e EXCEPT !.pc[j] = "invoking", !.attempts[j] = @ + 1]
<1>1. GoodExec(F)
  <2>1. PICK to \in JobPc : to = "invoking"
    BY Zenon DEF JobPc
  <2>2. /\ e.pc[j] \notin {"waiting", "done"} /\ to # "waiting"
        /\ e.pc[j] \in Stored <=> to \in Stored
    BY <2>1, Zenon DEF Stored
  <2>3. GoodExec([e EXCEPT !.pc[j] = to])
    BY <2>2, GotoGood, Zenon
  <2> QED
    BY <2>1, <2>3, Zenon
<1>2. PICK S \in SUBSET Jobs : e.attempts \in [S -> Nat] /\ S = DOMAIN e.def
  BY DEF GoodExec, ExecType
<1>3. n \in [S -> Nat]
  <2>1. e.attempts[j] + 1 \in Nat
    BY <1>2
  <2> QED
    BY <1>2, <2>1, Zenon
<1>4. n \in UNION {[T -> Nat] : T \in SUBSET Jobs} /\ DOMAIN n = DOMAIN e.def
  BY <1>2, <1>3 DEF GoodExec
<1>5. E = [F EXCEPT !.attempts = n] /\ F.def = e.def
  BY Zenon DEF GoodExec, ExecType
<1> HIDE DEF E, F, n
<1>6. GoodExec([F EXCEPT !.attempts = n])
  BY <1>1, <1>4, <1>5, ZenonT(30) DEF GoodExec, ExecType
<1> QED
  BY <1>5, <1>6, Zenon DEF E

\* Storing the output completes the job and takes nothing away from others.
LEMMA StoreGood ==
  ASSUME NEW e, GoodExec(e), NEW j \in DOMAIN e.def, e.pc[j] = "store-output"
  PROVE  GoodExec([e EXCEPT !.pc[j] = "report-succeeded",
                            !.completed = @ \cup {j}])
<1> DEFINE pc == [e.pc EXCEPT ![j] = "report-succeeded"]
           done == e.completed \cup {j}
           E == [e EXCEPT !.pc[j] = "report-succeeded", !.completed = @ \cup {j}]
<1>1. PICK S \in SUBSET Jobs : e.pc \in [S -> JobPc]
  BY DEF GoodExec, ExecType
<1>2. pc \in [S -> JobPc] /\ j \in S
  BY <1>1, Zenon DEF JobPc, GoodExec
<1>3. pc \in UNION {[T -> JobPc] : T \in SUBSET Jobs} /\ done \in SUBSET Jobs
  BY <1>1, <1>2 DEF GoodExec, ExecType
<1>4. /\ E \in ExecType /\ E.pc = pc /\ E.completed = done
      /\ E.def = e.def /\ E.remaining = e.remaining /\ E.attempts = e.attempts
      /\ E.phase = e.phase
  BY <1>3, Zenon DEF GoodExec, ExecType
<1>5. /\ DOMAIN pc = DOMAIN e.def
      /\ \A k \in DOMAIN e.def :
           pc[k] = IF k = j THEN "report-succeeded" ELSE e.pc[k]
  BY <1>1, Zenon DEF GoodExec
<1> HIDE DEF E, pc
<1>6. GoodExec(E)
  BY <1>4, <1>5 DEF GoodExec, Stored
<1> QED
  BY <1>6, Zenon DEF E

\* A wave starts exactly the jobs whose dependencies are completed.
LEMMA WaveGood ==
  ASSUME NEW e, GoodExec(e), waited(e)
  PROVE  GoodExec([e EXCEPT
           !.remaining = @ \ Ready(e),
           !.pc = [j \in DOMAIN e.def |->
                     IF j \in Ready(e) THEN "report-running" ELSE @[j]]])
<1> DEFINE pc == [j \in DOMAIN e.def |->
                    IF j \in Ready(e) THEN "report-running" ELSE e.pc[j]]
           left == e.remaining \ Ready(e)
           E == [e EXCEPT
                  !.remaining = @ \ Ready(e),
                  !.pc = [j \in DOMAIN e.def |->
                            IF j \in Ready(e) THEN "report-running" ELSE @[j]]]
<1>1. PICK S \in SUBSET Jobs : e.pc \in [S -> JobPc] /\ S = DOMAIN e.def
  BY DEF GoodExec, ExecType
<1>2. pc \in [S -> JobPc]
  BY <1>1, Zenon DEF JobPc
<1>3. pc \in UNION {[T -> JobPc] : T \in SUBSET Jobs} /\ left \in SUBSET Jobs
  BY <1>2 DEF GoodExec, ExecType
<1>4. /\ E \in ExecType /\ E.pc = pc /\ E.remaining = left
      /\ E.def = e.def /\ E.completed = e.completed /\ E.attempts = e.attempts
      /\ E.phase = e.phase
  BY <1>3, Zenon DEF GoodExec, ExecType
<1>5. \A j \in Ready(e) : /\ j \in DOMAIN e.def /\ e.pc[j] = "waiting"
                          /\ e.def[j] \subseteq {d \in DOMAIN e.def : e.pc[d] = "done"}
  BY Zenon DEF Ready, GoodExec, waited, Returned, Stored
<1>6. DOMAIN pc = DOMAIN e.def
  BY Zenon
<1>7. \A k \in DOMAIN e.def :
        pc[k] = IF k \in Ready(e) THEN "report-running" ELSE e.pc[k]
  BY Zenon
<1> HIDE DEF E, pc
<1>8. GoodExec(E)
  BY <1>4, <1>5, <1>6, <1>7 DEF GoodExec, Stored
<1> QED
  BY <1>8, Zenon DEF E

-----------------------------------------------------------------------------
\* Before any run is submitted no executor has a job.
LEMMA InitIInv == Init => IInv
<1> SUFFICES ASSUME Init PROVE IInv
  BY Zenon
<1>1. PICK none \in Phase : none = "none"
  BY Zenon DEF Phase
<1>2. PICK empty \in Definitions \cup {<<>>} : empty = <<>>
  BY Zenon
<1>3. GoodExec(Exec(none, empty))
  BY <1>2, NewExecGood, Zenon
<1>4. exec = [r \in RunIds |-> Exec(none, empty)] /\ definition \in Definitions
  BY <1>1, <1>2, Zenon DEF Init
<1> QED
  BY <1>3, <1>4, Zenon DEF IInv, GoodExec

\* An action that moves one goroutine between two steps keeps the invariant.
LEMMA GotoStep ==
  ASSUME IInv, NEW r \in RunIds, NEW j, NEW from, NEW to \in JobPc,
         at(r, j, from), goto(r, j, to), definition' = definition,
         from \notin {"waiting", "done"}, to # "waiting",
         from \in Stored <=> to \in Stored
  PROVE  IInv'
<1>1. PICK e : e = exec[r]
  BY Zenon
<1>2. GoodExec(e) /\ j \in DOMAIN e.def /\ e.pc[j] = from
  BY <1>1, Zenon DEF IInv, at
<1>3. GoodExec([e EXCEPT !.pc[j] = to])
  BY <1>2, GotoGood, Zenon
<1>4. exec' = [exec EXCEPT ![r] = [e EXCEPT !.pc[j] = to]]
  BY <1>1, Zenon DEF goto, IInv
<1>5. PICK E : E = [e EXCEPT !.pc[j] = to]
  BY Zenon
<1> QED
  BY <1>3, <1>4, <1>5, ReplaceExec, Zenon

\* Every action of the gateway, its users and its restarts keeps it.
LEMMA NextIInv == IInv /\ [Next]_vars => IInv'
<1> SUFFICES ASSUME IInv, [Next]_vars PROVE IInv'
  BY Zenon
<1>1. ASSUME NEW r \in RunIds, NEW phase \in {"returned", "lost"},
             exec' = [exec EXCEPT ![r].phase = phase], definition' = definition
      PROVE  IInv'
  <2>1. PICK E : E = [exec[r] EXCEPT !.phase = phase]
    BY Zenon
  <2>2. GoodExec(exec[r])
    BY Zenon DEF IInv
  <2>3. GoodExec(E)
    BY <2>1, <2>2, PhaseGood, Zenon
  <2>4. exec' = [exec EXCEPT ![r] = E]
    BY <1>1, <2>1, Zenon
  <2> QED
    BY <1>1, <2>3, <2>4, ReplaceExec, Zenon
<1>2. ASSUME NEW r \in RunIds, NEW phase \in Phase,
             NEW def \in Definitions \cup {<<>>},
             phase \in {"none", "dispatch"} => def = <<>>,
             exec' = [exec EXCEPT ![r] = Exec(phase, def)], definition' = definition
      PROVE  IInv'
  <2>1. PICK E : E = Exec(phase, def)
    BY Zenon
  <2>2. GoodExec(E)
    BY <1>2, <2>1, NewExecGood, Zenon
  <2> QED
    BY <1>2, <2>1, <2>2, ReplaceExec, Zenon
<1>3. CASE userStep
  <2>1. ASSUME NEW r \in RunIds, submitPipeline(r) PROVE IInv'
    BY <1>2, <2>1, Zenon DEF submitPipeline, Phase
  <2>2. ASSUME NEW r \in RunIds, NEW new \in RunIds, retryRun(r, new) PROVE IInv'
    BY <1>2, <2>2, Zenon DEF retryRun, Phase
  <2>3. ASSUME NEW r \in RunIds, cancelRun(r) PROVE IInv'
    BY <2>3, Zenon DEF cancelRun, IInv
  <2>4. ASSUME NEW def \in Definitions, upsertPipelineDefinition(def) PROVE IInv'
    BY <2>4, Zenon DEF upsertPipelineDefinition, IInv
  <2> QED
    BY <1>3, <2>1, <2>2, <2>3, <2>4, Zenon DEF userStep
<1>4. CASE crash
  <2>1. \A r \in RunIds : GoodExec(exec'[r])
    <3> TAKE r \in RunIds
    <3>1. GoodExec(exec[r])
      BY Zenon DEF IInv
    <3>2. PICK lost \in {"returned", "lost"} : lost = "lost"
      BY Zenon
    <3>3. GoodExec([exec[r] EXCEPT !.phase = lost])
      BY <3>1, PhaseGood, Zenon
    <3>4. exec'[r] = exec[r] \/ exec'[r] = [exec[r] EXCEPT !.phase = lost]
      BY <1>4, <3>2, Zenon DEF crash
    <3> QED
      BY <3>1, <3>3, <3>4, Zenon
  <2>2. exec' \in [RunIds -> ExecType]
    BY <1>4, <2>1, Zenon DEF crash, GoodExec
  <2> QED
    BY <1>4, <2>1, <2>2, Zenon DEF crash, IInv
<1>5. ASSUME NEW r \in RunIds, dispatch(r) PROVE IInv'
  <2>1. CASE loadFailed(r)
    BY <1>1, <2>1, Zenon DEF loadFailed, Phase
  <2>2. CASE startExecutor(r)
    BY <1>2, <2>2, Zenon DEF startExecutor, Phase, IInv
  <2>3. CASE \E j \in Jobs : notConfigured(r, j)
    BY <1>1, <2>3, Zenon DEF notConfigured, Phase
  <2> QED
    BY <1>5, <2>1, <2>2, <2>3, Zenon DEF dispatch
<1>6. ASSUME NEW r \in RunIds, wave(r) PROVE IInv'
  <2>1. CASE exec' = [exec EXCEPT ![r].phase = "returned"]
    BY <1>1, <1>6, <2>1, Zenon DEF wave, Phase
  <2>2. CASE exec' # [exec EXCEPT ![r].phase = "returned"]
    <3>1. PICK e : e = exec[r]
      BY Zenon
    <3>2. PICK E : E = [e EXCEPT
                !.remaining = @ \ Ready(e),
                !.pc = [j \in DOMAIN e.def |->
                          IF j \in Ready(e) THEN "report-running" ELSE @[j]]]
      BY Zenon
    <3>3. exec' = [exec EXCEPT ![r] = E] /\ definition' = definition
      BY <1>6, <2>2, <3>1, <3>2, Zenon DEF wave, IInv
    <3>4. GoodExec(E)
      BY <1>6, <3>1, <3>2, WaveGood, Zenon DEF IInv, wave
    <3> QED
      BY <3>3, <3>4, ReplaceExec, Zenon
  <2> QED
    BY <2>1, <2>2, Zenon
<1>7. ASSUME NEW r \in RunIds, NEW j \in Jobs, jobStep(r, j) PROVE IInv'
  <2>1. CASE reportRunning(r, j)
    BY <2>1, GotoStep, Zenon DEF reportRunning, JobPc, Stored
  <2>2. CASE readOutputs(r, j)
    BY <2>2, GotoStep, Zenon DEF readOutputs, JobPc, Stored
  <2>3. CASE invoke(r, j)
    <3>1. PICK e : e = exec[r]
      BY Zenon
    <3>2. GoodExec(e) /\ j \in DOMAIN e.def /\ e.pc[j] = "invoke"
      BY <2>3, <3>1, Zenon DEF invoke, at, IInv
    <3>3. PICK E : E = [e EXCEPT !.pc[j] = "invoking", !.attempts[j] = @ + 1]
      BY Zenon
    <3>4. exec' = [exec EXCEPT ![r] = E] /\ definition' = definition
      BY <2>3, <3>1, <3>3, Zenon DEF invoke, IInv
    <3>5. GoodExec(E)
      BY <3>2, <3>3, InvokeGood, Zenon
    <3> QED
      BY <3>4, <3>5, ReplaceExec, Zenon
  <2>4. CASE answer(r, j)
    BY <2>4, GotoStep, Zenon DEF answer, JobPc, Stored
  <2>5. CASE invocationFailed(r, j)
    <3>1. PICK to \in JobPc : /\ to \in {"invoke", "report-failed"} /\ goto(r, j, to)
      BY <2>5, Zenon DEF invocationFailed, JobPc
    <3> QED
      BY <2>5, <3>1, GotoStep, Zenon DEF invocationFailed, Stored
  <2>6. CASE reportFailed(r, j)
    BY <2>6, GotoStep, Zenon DEF reportFailed, JobPc, Stored
  <2>7. CASE storeOutput(r, j)
    <3>1. PICK e : e = exec[r]
      BY Zenon
    <3>2. GoodExec(e) /\ j \in DOMAIN e.def /\ e.pc[j] = "store-output"
      BY <2>7, <3>1, Zenon DEF storeOutput, at, IInv
    <3>3. PICK E : E = [e EXCEPT !.pc[j] = "report-succeeded",
                                 !.completed = @ \cup {j}]
      BY Zenon
    <3>4. exec' = [exec EXCEPT ![r] = E] /\ definition' = definition
      BY <2>7, <3>1, <3>3, Zenon DEF storeOutput, IInv
    <3>5. GoodExec(E)
      BY <3>2, <3>3, StoreGood, Zenon
    <3> QED
      BY <3>4, <3>5, ReplaceExec, Zenon
  <2>8. CASE reportSucceeded(r, j)
    BY <2>8, GotoStep, Zenon DEF reportSucceeded, JobPc, Stored
  <2> QED
    BY <1>7, <2>1, <2>2, <2>3, <2>4, <2>5, <2>6, <2>7, <2>8, Zenon DEF jobStep
<1>8. CASE UNCHANGED vars
  BY <1>8, Zenon DEF vars, IInv
<1> QED
  BY <1>3, <1>4, <1>5, <1>6, <1>7, <1>8, Zenon DEF Next, engineStep

-----------------------------------------------------------------------------
\* The invariant holds of every behaviour of the function engine.
THEOREM Invariance == Spec => []IInv
BY InitIInv, NextIInv, PTL DEF Spec

\* executeFunctionPipeline preserves dependency ordering: no job starts before
\* all the jobs it depends on have completed.
THEOREM DependencyOrdered == Spec => []DependencyOrder
<1>1. IInv => DependencyOrder
  BY DEF IInv, GoodExec, DependencyOrder, Started, Stored
<1> QED
  BY <1>1, Invariance, PTL

\* What validation establishes is what the executor needs: if no remaining job
\* were ready, each would wait for another remaining one, a set of jobs that
\* an accepted definition does not have.
THEOREM Progress == Spec => []AlwaysProgress
<1>1. ASSUME NEW e, GoodExec(e), waited(e), ~stopped(e) PROVE Ready(e) # {}
  <2>1. /\ e.remaining # {} /\ e.remaining \subseteq DOMAIN e.def
        /\ \A j \in DOMAIN e.def : j \in e.remaining \/ j \in e.completed
    BY <1>1, Zenon DEF GoodExec, waited, stopped, Returned, Stored
  <2>2. e.def \in Definitions
    <3>1. DOMAIN e.def # {}
      BY <2>1, Zenon
    <3> QED
      BY <1>1, <3>1 DEF GoodExec, ExecType
  <2>3. WellFormed(e.def) /\ Acyclic(e.def)
    BY <2>2, FunctionAssumption, Zenon DEF Valid
  <2>4. SUFFICES ASSUME Ready(e) = {} PROVE FALSE
    BY Zenon
  <2>5. ASSUME NEW j \in e.remaining PROVE e.def[j] \cap e.remaining # {}
    <3>1. PICK d \in e.def[j] : d \notin e.completed
      BY <2>4, <2>5, Zenon DEF Ready
    <3>2. d \in DOMAIN e.def
      BY <2>1, <2>3, <2>5, <3>1, Zenon DEF WellFormed
    <3> QED
      BY <2>1, <3>1, <3>2, Zenon
  <2>6. Deadlocked(e.def, e.remaining)
    BY <2>1, <2>5, Zenon DEF Deadlocked
  <2> QED
    BY <2>1, <2>3, <2>6, Zenon DEF Acyclic
<1>2. IInv => AlwaysProgress
  BY <1>1, Zenon DEF IInv, AlwaysProgress
<1> QED
  BY <1>2, Invariance, PTL

-----------------------------------------------------------------------------
\* A run record with the fields a report touches, that reads "succeeded" only
\* when every step finished.
GoodRun(run) ==
  /\ {"status", "progress", "steps"} \subseteq DOMAIN run
  /\ run.status = "succeeded" => AllFinished(run.steps)

\* What the steps of a run say of its executor e while the definition is the
\* one the run was submitted with: a finished step was completed, and, if no
\* report was lost and the run is not terminal, a job whose goroutine has
\* returned from its last report reads "succeeded".
Truthful(run, e, def, lost, updated) ==
  updated = 0 =>
    /\ DOMAIN def \subseteq DOMAIN run.steps
    /\ e.def = <<>> \/ e.def = def
    /\ \A n \in DOMAIN def : run.steps[n].status \in Finished => n \in e.completed
    /\ lost = 0 /\ run.status \notin Terminal =>
         \A n \in DOMAIN e.def :
           e.pc[n] = "done" => run.steps[n].status = "succeeded"

\* The invariant of the runs, inductive together with IInv.
RInv ==
  /\ faults \in Nat /\ updates \in Nat
  /\ DOMAIN runs \subseteq RunIds
  /\ \A r \in RunIds : r \notin DOMAIN runs <=> exec[r].phase = "none"
  /\ \A r \in DOMAIN runs :
       GoodRun(runs[r]) /\ Truthful(runs[r], exec[r], definition, faults, updates)

\* A step of the executor that reports nothing, or whose report is lost.
LEMMA QuietStep ==
  ASSUME NEW run, NEW e, NEW E, NEW def, NEW f, NEW g, NEW u,
         Truthful(run, e, def, f, u),
         E.def = e.def \/ E.def = def, e.completed \subseteq E.completed,
         g = 0 => /\ f = 0
                  /\ \A n \in DOMAIN E.def :
                       E.pc[n] = "done" => n \in DOMAIN e.def /\ e.pc[n] = "done"
  PROVE  Truthful(run, E, def, g, u)
BY Zenon DEF Truthful

\* What a report changes in a run.
LEMMA Reported ==
  ASSUME NEW run, GoodRun(run), NEW name, NEW status
  PROVE  LET new == StepReported(run, name, status) IN
         /\ GoodRun(new)
         /\ DOMAIN run.steps \subseteq DOMAIN new.steps
         /\ run.status \in Terminal => new = run
         /\ status = "failed" => new.status \in Terminal
         /\ run.status \notin Terminal =>
              /\ new.steps[name].status = status
              /\ \A n \in DOMAIN run.steps \ {name} : new.steps[n] = run.steps[n]
<1> DEFINE new == StepReported(run, name, status)
           steps == upsertStep(run.steps, name, status)
           after == runStatus(run.status, steps)
           applied == applyStepTransition(run, name, status)
<1>1. CASE run.status \in Terminal
  BY <1>1, Zenon DEF StepReported
<1>2. CASE run.status \notin Terminal
  <2>1. new = applied
    BY <1>2, Zenon DEF StepReported
  <2>2. /\ DOMAIN steps = DOMAIN run.steps \cup {name}
        /\ steps[name].status = status
        /\ \A n \in DOMAIN run.steps \ {name} : steps[n] = run.steps[n]
    BY Zenon DEF upsertStep
  <2>3. /\ DOMAIN applied = DOMAIN run
        /\ applied.steps = steps
        /\ applied.status = after
    BY Zenon DEF applyStepTransition, GoodRun
  <2> HIDE DEF steps, applied
  <2>4. after = "succeeded" => AllFinished(steps)
    BY <1>2, Zenon DEF runStatus, Terminal
  <2>5. status = "failed" => after = "failed"
    BY <2>2, Zenon DEF runStatus, AnyFailed
  <2> QED
    BY <1>2, <2>1, <2>2, <2>3, <2>4, <2>5, Zenon DEF GoodRun, Terminal
<1> QED
  BY <1>1, <1>2, Zenon

\* A step of the executor whose report is applied: success is reported only
\* of a completed job, and a goroutine that returned has reported success or
\* failure.
LEMMA ReportStep ==
  ASSUME NEW run, GoodRun(run), NEW e, NEW E, NEW def, NEW f, NEW u,
         NEW name, NEW status, Truthful(run, e, def, f, u),
         E.def = e.def, e.completed \subseteq E.completed,
         status \in Finished => name \in E.completed,
         \/ status = "failed"
         \/ \A n \in DOMAIN E.def :
              E.pc[n] = "done" =>
                IF n = name THEN status = "succeeded" ELSE e.pc[n] = "done"
  PROVE  Truthful(StepReported(run, name, status), E, def, f, u)
<1> DEFINE new == StepReported(run, name, status)
<1>1. /\ DOMAIN run.steps \subseteq DOMAIN new.steps
      /\ run.status \in Terminal => new = run
      /\ status = "failed" => new.status \in Terminal
      /\ run.status \notin Terminal =>
           /\ new.steps[name].status = status
           /\ \A n \in DOMAIN run.steps \ {name} : new.steps[n] = run.steps[n]
  BY Reported
<1> HIDE DEF new
<1>2. SUFFICES ASSUME u = 0 PROVE Truthful(new, E, def, f, u)
  BY Zenon DEF Truthful, new
<1>3. /\ DOMAIN def \subseteq DOMAIN run.steps
      /\ e.def = <<>> \/ e.def = def
      /\ \A n \in DOMAIN def : run.steps[n].status \in Finished => n \in e.completed
      /\ f = 0 /\ run.status \notin Terminal =>
           \A n \in DOMAIN e.def :
             e.pc[n] = "done" => run.steps[n].status = "succeeded"
  BY <1>2, Zenon DEF Truthful
<1>4. CASE run.status \in Terminal
  BY <1>1, <1>3, <1>4, Zenon DEF Truthful
<1>5. CASE run.status \notin Terminal
  <2>1. \A n \in DOMAIN def : new.steps[n].status \in Finished => n \in E.completed
    BY <1>1, <1>3, <1>5, Zenon
  <2>2. f = 0 /\ new.status \notin Terminal =>
          \A n \in DOMAIN E.def :
            E.pc[n] = "done" => new.steps[n].status = "succeeded"
    BY <1>1, <1>3, <1>5
  <2> QED
    BY <1>1, <1>3, <2>1, <2>2, Zenon DEF Truthful
<1> QED
  BY <1>4, <1>5, Zenon

\* One run and its executor move on.
LEMMA RunMoves ==
  ASSUME IInv, RInv, NEW r \in DOMAIN runs, NEW run, NEW E,
         DOMAIN runs' = DOMAIN runs, runs'[r] = run,
         \A q \in DOMAIN runs \ {r} : runs'[q] = runs[q],
         exec'[r] = E, \A q \in RunIds \ {r} : exec'[q] = exec[q],
         E.phase # "none", UNCHANGED <<definition, updates>>,
         faults' = faults \/ faults' = faults + 1,
         GoodRun(run), Truthful(run, E, definition, faults', updates)
  PROVE  RInv'
<1>1. faults' \in Nat /\ (faults' = 0 => faults = 0)
  BY DEF RInv
<1>2. \A q \in DOMAIN runs \ {r} :
        Truthful(runs[q], exec[q], definition, faults', updates)
  BY <1>1, Zenon DEF RInv, Truthful
<1>3. \A q \in DOMAIN runs' :
        GoodRun(runs'[q]) /\ Truthful(runs'[q], exec'[q], definition', faults', updates')
  BY <1>2, Zenon DEF RInv
<1> QED
  BY <1>1, <1>3, Zenon DEF RInv

\* report(r, name, status) with the executor's next state E.
LEMMA ReportMoves ==
  ASSUME IInv, RInv, NEW r \in DOMAIN runs, NEW E, NEW name, NEW status,
         report(r, name, status),
         exec'[r] = E, \A q \in RunIds \ {r} : exec'[q] = exec[q],
         E.phase # "none", UNCHANGED <<definition, updates>>,
         E.def = exec[r].def, exec[r].completed \subseteq E.completed,
         status \in Finished => name \in E.completed,
         \/ status = "failed"
         \/ \A n \in DOMAIN E.def :
              E.pc[n] = "done" =>
                IF n = name THEN status = "succeeded" ELSE exec[r].pc[n] = "done"
  PROVE  RInv'
<1>1. GoodRun(runs[r]) /\ Truthful(runs[r], exec[r], definition, faults, updates)
  BY Zenon DEF RInv
<1>2. CASE /\ runs' = [runs EXCEPT ![r] = StepReported(@, name, status)]
           /\ UNCHANGED faults
  <2>1. PICK run : run = StepReported(runs[r], name, status)
    BY Zenon
  <2>2. GoodRun(run)
    BY <1>1, <2>1, Reported, Zenon
  <2>3. Truthful(run, E, definition, faults, updates)
    BY <1>1, <2>1, ReportStep, Zenon
  <2>4. /\ DOMAIN runs' = DOMAIN runs /\ runs'[r] = run
        /\ \A q \in DOMAIN runs \ {r} : runs'[q] = runs[q]
    BY <1>2, <2>1, Zenon
  <2> QED
    BY <1>2, <2>2, <2>3, <2>4, RunMoves
<1>3. CASE faults' = faults + 1 /\ runs' = runs
  <2>1. faults' # 0
    BY <1>3 DEF RInv
  <2>2. Truthful(runs[r], E, definition, faults', updates)
    BY <1>1, <2>1, QuietStep, Zenon
  <2>3. PICK run : run = runs[r]
    BY Zenon
  <2> QED
    BY <1>1, <1>3, <2>2, <2>3, RunMoves, Zenon
<1> QED
  BY <1>2, <1>3, Zenon DEF report

\* A step of r's executor that touches no run.
LEMMA QuietMoves ==
  ASSUME IInv, RInv, NEW r \in DOMAIN runs, NEW E,
         exec'[r] = E, \A q \in RunIds \ {r} : exec'[q] = exec[q],
         E.phase # "none", UNCHANGED <<definition, updates, runs, faults>>,
         E.def = exec[r].def \/ E.def = definition,
         exec[r].completed \subseteq E.completed,
         \A n \in DOMAIN E.def :
           E.pc[n] = "done" => n \in DOMAIN exec[r].def /\ exec[r].pc[n] = "done"
  PROVE  RInv'
<1>1. GoodRun(runs[r]) /\ Truthful(runs[r], exec[r], definition, faults, updates)
  BY Zenon DEF RInv
<1>2. Truthful(runs[r], E, definition, faults, updates)
  BY <1>1, QuietStep, Zenon
<1>3. PICK run : run = runs[r]
  BY Zenon
<1> QED
  BY <1>1, <1>2, <1>3, RunMoves, Zenon

\* A run is added with pending steps and a dispatch of its own.
LEMMA AddMoves ==
  ASSUME IInv, RInv, NEW r \in RunIds, r \notin DOMAIN runs,
         NEW S, updates = 0 => DOMAIN definition \subseteq S,
         NEW steps, steps = [n \in S |-> PendingStep],
         addRun(r, queuedRun(steps)),
         exec' = [exec EXCEPT ![r] = Exec("dispatch", <<>>)],
         UNCHANGED <<definition, configured, counters>>
  PROVE  RInv'
<1> DEFINE run == queuedRun(steps)
           E == Exec("dispatch", <<>>)
<1>1. /\ DOMAIN runs' = DOMAIN runs \cup {r} /\ runs'[r] = run
      /\ \A q \in DOMAIN runs : runs'[q] = runs[q]
  BY Zenon DEF addRun
<1>2. run.status = "queued" /\ run.steps = steps /\ GoodRun(run)
  BY Zenon DEF queuedRun, GoodRun
<1>3. E.phase = "dispatch" /\ E.def = <<>>
  BY Zenon DEF Exec
<1>4. exec'[r] = E /\ \A q \in RunIds \ {r} : exec'[q] = exec[q]
  BY Zenon DEF IInv
<1> HIDE DEF run, E
<1>5. \A n \in S : steps[n].status = "pending"
  BY Zenon DEF PendingStep
<1>6. Truthful(run, E, definition, faults, updates)
  BY <1>2, <1>3, <1>5 DEF Truthful, Finished
<1>7. \A q \in DOMAIN runs' :
        GoodRun(runs'[q]) /\ Truthful(runs'[q], exec'[q], definition', faults', updates')
  BY <1>1, <1>2, <1>4, <1>6, Zenon DEF RInv, counters
<1> QED
  BY <1>1, <1>3, <1>4, <1>7, Zenon DEF RInv, counters

\* Nothing is stored at first.
LEMMA InitRInv == Init => RInv
<1> SUFFICES ASSUME Init PROVE RInv
  BY Zenon
<1>1. \A r \in RunIds : exec[r].phase = "none"
  BY Zenon DEF Init, Exec
<1> QED
  BY <1>1 DEF Init, RInv

\* Requests of users keep what the runs say true.
LEMMA UserRInv ==
  ASSUME IInv, RInv, userStep
  PROVE  RInv'
<1>1. ASSUME NEW r \in RunIds, submitPipeline(r) PROVE RInv'
  <2>1. PICK S, steps : S = DOMAIN definition /\ steps = [n \in S |-> PendingStep]
    BY Zenon
  <2>2. steps = stepsFromDefinition(DOMAIN definition)
    BY <2>1, Zenon DEF stepsFromDefinition
  <2> QED
    BY <1>1, <2>1, <2>2, AddMoves, Zenon DEF submitPipeline
<1>2. ASSUME NEW r \in RunIds, NEW new \in RunIds, retryRun(r, new) PROVE RInv'
  <2>1. PICK S, steps : S = DOMAIN runs[r].steps /\ steps = [n \in S |-> PendingStep]
    BY Zenon
  <2>2. steps = resetSteps(runs[r].steps)
    BY <2>1, Zenon DEF resetSteps
  <2>3. updates = 0 => DOMAIN definition \subseteq S
    BY <1>2, <2>1, Zenon DEF retryRun, RInv, Truthful
  <2> QED
    BY <1>2, <2>1, <2>2, <2>3, AddMoves, Zenon DEF retryRun
<1>3. ASSUME NEW r \in RunIds, cancelRun(r) PROVE RInv'
  <2>1. r \in DOMAIN runs /\ GoodRun(runs[r])
        /\ Truthful(runs[r], exec[r], definition, faults, updates)
        /\ exec[r].phase # "none"
    BY <1>3, Zenon DEF cancelRun, RInv
  <2>2. PICK run : run = Cancelled(runs[r])
    BY Zenon
  <2>3. DOMAIN run = DOMAIN runs[r] /\ run.status = "cancelled"
        /\ run.steps = runs[r].steps
    BY <2>1, <2>2, Zenon DEF Cancelled, GoodRun
  <2>4. GoodRun(run) /\ Truthful(run, exec[r], definition, faults, updates)
    BY <2>1, <2>3, Zenon DEF GoodRun, Truthful, Terminal
  <2>5. /\ DOMAIN runs' = DOMAIN runs /\ runs'[r] = run
        /\ \A q \in DOMAIN runs \ {r} : runs'[q] = runs[q]
    BY <1>3, <2>1, <2>2, Zenon DEF cancelRun
  <2>6. PICK E : E = exec[r]
    BY Zenon
  <2> QED
    BY <1>3, <2>1, <2>4, <2>5, <2>6, RunMoves, Zenon DEF cancelRun, counters
<1>4. ASSUME NEW def \in Definitions, upsertPipelineDefinition(def) PROVE RInv'
  <2>1. updates' \in Nat /\ updates' # 0
    BY <1>4 DEF upsertPipelineDefinition, RInv
  <2> QED
    BY <1>4, <2>1, Zenon DEF upsertPipelineDefinition, RInv, Truthful
<1> QED
  BY <1>1, <1>2, <1>3, <1>4, Zenon DEF userStep

\* A dispatch or an executor at work belongs to a stored run.
LEMMA ActiveRun ==
  ASSUME IInv, RInv, NEW r \in RunIds, exec[r].phase \in {"dispatch", "executing"}
  PROVE  r \in DOMAIN runs /\ exec[r] \in ExecType /\ DOMAIN exec = RunIds
BY Zenon DEF IInv, RInv

\* dispatchPipeline keeps what the runs say true.
LEMMA DispatchRInv ==
  ASSUME IInv, RInv, NEW r \in RunIds, dispatch(r)
  PROVE  RInv'
<1>1. exec[r].phase = "dispatch"
  BY Zenon DEF dispatch, loadFailed, startExecutor, notConfigured
<1>2. r \in DOMAIN runs /\ exec[r] \in ExecType /\ DOMAIN exec = RunIds
  BY <1>1, ActiveRun, Zenon
<1>3. exec[r].def = <<>> /\ exec[r].completed = {}
  BY <1>1 DEF IInv, GoodExec
<1>4. ASSUME NEW name, report(r, name, "failed"),
             exec' = [exec EXCEPT ![r].phase = "returned"],
             UNCHANGED <<definition, updates>>
      PROVE  RInv'
  <2>1. PICK E : E = [exec[r] EXCEPT !.phase = "returned"]
    BY Zenon
  <2>2. /\ E.phase # "none" /\ E.def = exec[r].def
        /\ exec[r].completed \subseteq E.completed
    BY <1>2, <2>1, Zenon DEF ExecType
  <2>3. exec'[r] = E /\ \A q \in RunIds \ {r} : exec'[q] = exec[q]
    BY <1>2, <1>4, <2>1, Zenon
  <2>4. "failed" \notin Finished
    BY Zenon DEF Finished
  <2> QED
    BY <1>2, <1>4, <2>2, <2>3, <2>4, ReportMoves, Zenon
<1>5. CASE loadFailed(r)
  <2>1. PICK E : E = [exec[r] EXCEPT !.phase = "returned"]
    BY Zenon
  <2>2. /\ E.phase # "none" /\ E.def = exec[r].def
        /\ E.completed = exec[r].completed
    BY <1>2, <2>1, Zenon DEF ExecType
  <2>3. exec'[r] = E /\ \A q \in RunIds \ {r} : exec'[q] = exec[q]
    BY <1>2, <1>5, <2>1, Zenon DEF loadFailed
  <2>4. PICK run : run = StepReported(runs[r], "load-definition", "failed")
    BY Zenon
  <2>5. GoodRun(runs[r]) /\ Truthful(runs[r], exec[r], definition, faults, updates)
    BY <1>2, Zenon DEF RInv
  <2>6. GoodRun(run)
    BY <2>4, <2>5, Reported, Zenon
  <2>7. "failed" \notin Finished
    BY Zenon DEF Finished
  <2>8. Truthful(run, E, definition, faults, updates)
    BY <2>2, <2>4, <2>5, <2>7, ReportStep, Zenon
  <2>9. Truthful(run, E, definition, faults', updates)
    BY <1>3, <2>2, <2>8 DEF Truthful
  <2>10. /\ DOMAIN runs' = DOMAIN runs /\ runs'[r] = run
         /\ \A q \in DOMAIN runs \ {r} : runs'[q] = runs[q]
    BY <1>2, <1>5, <2>4, Zenon DEF loadFailed
  <2> QED
    BY <1>2, <1>5, <2>2, <2>3, <2>6, <2>9, <2>10, RunMoves DEF loadFailed
<1>6. CASE startExecutor(r)
  <2>1. PICK E : E = Exec("executing", definition)
    BY Zenon
  <2>2. /\ E.phase # "none" /\ E.def = definition
        /\ exec[r].completed \subseteq E.completed
        /\ \A n \in DOMAIN E.def : E.pc[n] = "waiting"
    BY <1>3, <2>1, Zenon DEF Exec
  <2>3. exec'[r] = E /\ \A q \in RunIds \ {r} : exec'[q] = exec[q]
    BY <1>2, <1>6, <2>1, Zenon DEF startExecutor
  <2> QED
    BY <1>2, <1>6, <2>2, <2>3, QuietMoves, Zenon DEF startExecutor, counters
<1>7. CASE \E j \in Jobs : notConfigured(r, j)
  BY <1>4, <1>7, Zenon DEF notConfigured
<1> QED
  BY <1>5, <1>6, <1>7, Zenon DEF dispatch

\* A turn of the loop keeps what the runs say true.
LEMMA WaveRInv ==
  ASSUME IInv, RInv, NEW r \in RunIds, wave(r)
  PROVE  RInv'
<1>1. exec[r].phase = "executing"
  BY Zenon DEF wave
<1>2. r \in DOMAIN runs /\ exec[r] \in ExecType /\ DOMAIN exec = RunIds
  BY <1>1, ActiveRun, Zenon
<1>3. GoodExec(exec[r])
  BY Zenon DEF IInv
<1>4. CASE exec' = [exec EXCEPT ![r].phase = "returned"]
  <2>1. PICK E : E = [exec[r] EXCEPT !.phase = "returned"]
    BY Zenon
  <2>2. /\ E.phase # "none" /\ E.def = exec[r].def
        /\ E.completed = exec[r].completed /\ E.pc = exec[r].pc
    BY <1>2, <2>1, Zenon DEF ExecType
  <2>3. exec'[r] = E /\ \A q \in RunIds \ {r} : exec'[q] = exec[q]
    BY <1>2, <1>4, <2>1, Zenon
  <2>4. CASE UNCHANGED <<runs, faults>>
    BY <1>2, <2>2, <2>3, <2>4, QuietMoves DEF wave
  <2>5. CASE report(r, "orchestrator", "failed")
    <3>1. "failed" \notin Finished
      BY Zenon DEF Finished
    <3> QED
      BY <1>2, <2>2, <2>3, <2>5, <3>1, ReportMoves, Zenon DEF wave
  <2> QED
    BY <2>4, <2>5, Zenon DEF wave
<1>5. CASE exec' # [exec EXCEPT ![r].phase = "returned"]
  <2>1. PICK e : e = exec[r]
    BY Zenon
  <2>2. PICK E : E = [e EXCEPT
              !.remaining = @ \ Ready(e),
              !.pc = [j \in DOMAIN e.def |->
                        IF j \in Ready(e) THEN "report-running" ELSE @[j]]]
    BY Zenon
  <2>3. exec' = [exec EXCEPT ![r] = E] /\ UNCHANGED <<runs, faults>>
    BY <1>5, <2>1, <2>2, Zenon DEF wave, IInv
  <2>4. E.phase = e.phase /\ E.def = e.def /\ E.completed = e.completed
    BY <1>2, <2>1, <2>2, Zenon DEF ExecType
  <2>5. E.pc = [j \in DOMAIN e.def |->
                  IF j \in Ready(e) THEN "report-running" ELSE e.pc[j]]
    BY <1>2, <2>1, <2>2, Zenon DEF ExecType
  <2>6. \A n \in DOMAIN E.def : E.pc[n] = "done" => e.pc[n] = "done"
    BY <2>4, <2>5, Zenon
  <2>7. exec'[r] = E /\ \A q \in RunIds \ {r} : exec'[q] = exec[q]
    BY <1>2, <2>3, Zenon
  <2>8. E.phase # "none"
    BY <1>1, <2>1, <2>4, Zenon
  <2> QED
    BY <1>2, <2>1, <2>3, <2>4, <2>6, <2>7, <2>8, QuietMoves DEF wave
<1> QED
  BY <1>4, <1>5, Zenon

\* A goroutine at step from that goes to step to.
LEMMA GotoFacts ==
  ASSUME IInv, RInv, NEW r \in RunIds, NEW j, NEW from, NEW to,
         at(r, j, from), goto(r, j, to)
  PROVE  /\ \A q \in RunIds \ {r} : exec'[q] = exec[q]
         /\ exec'[r].phase # "none" /\ exec'[r].def = exec[r].def
         /\ exec'[r].completed = exec[r].completed
         /\ r \in DOMAIN runs /\ j \in DOMAIN exec[r].def
         /\ from \in Stored => j \in exec[r].completed
         /\ \A n \in DOMAIN exec[r].def :
              exec'[r].pc[n] = IF n = j THEN to ELSE exec[r].pc[n]
<1>1. exec[r].phase = "executing" /\ j \in DOMAIN exec[r].def /\ exec[r].pc[j] = from
  BY Zenon DEF at
<1>2. r \in DOMAIN runs /\ exec[r] \in ExecType /\ DOMAIN exec = RunIds
  BY <1>1, ActiveRun, Zenon
<1>3. GoodExec(exec[r])
  BY Zenon DEF IInv
<1>4. PICK e : e = exec[r]
  BY Zenon
<1>5. PICK E : E = [e EXCEPT !.pc[j] = to]
  BY Zenon
<1>6. exec' = [exec EXCEPT ![r] = E]
  BY <1>4, <1>5, Zenon DEF goto
<1>7. /\ E.phase = e.phase /\ E.def = e.def /\ E.completed = e.completed
      /\ E.pc = [e.pc EXCEPT ![j] = to]
  BY <1>2, <1>4, <1>5, Zenon DEF ExecType
<1>8. \A n \in DOMAIN E.def : E.pc[n] = IF n = j THEN to ELSE e.pc[n]
  BY <1>3, <1>4, <1>7, Zenon DEF GoodExec
<1>9. from \in Stored => j \in e.completed
  BY <1>1, <1>3, <1>4, Zenon DEF GoodExec
<1>10. exec'[r] = E /\ \A q \in RunIds \ {r} : exec'[q] = exec[q]
  BY <1>2, <1>6, Zenon
<1>11. E.phase # "none"
  BY <1>1, <1>4, <1>7, Zenon
<1> QED
  BY <1>1, <1>2, <1>4, <1>7, <1>8, <1>9, <1>10, <1>11, Zenon

\* A goroutine that moves on without a report and does not return.
LEMMA QuietGoto ==
  ASSUME IInv, RInv, NEW r \in RunIds, NEW j, NEW from, NEW to, to # "done",
         at(r, j, from), goto(r, j, to),
         UNCHANGED <<definition, updates, runs, faults>>
  PROVE  RInv'
<1>1. PICK E : /\ exec'[r] = E /\ \A q \in RunIds \ {r} : exec'[q] = exec[q]
               /\ E.phase # "none" /\ E.def = exec[r].def
               /\ E.completed = exec[r].completed
               /\ r \in DOMAIN runs /\ j \in DOMAIN E.def
               /\ \A n \in DOMAIN E.def :
                    E.pc[n] = IF n = j THEN to ELSE exec[r].pc[n]
  BY GotoFacts
<1>2. \A n \in DOMAIN E.def :
        E.pc[n] = "done" => n \in DOMAIN exec[r].def /\ exec[r].pc[n] = "done"
  BY <1>1, Zenon
<1> QED
  BY <1>1, <1>2, QuietMoves

\* A goroutine that reports and moves on.
LEMMA ReportGoto ==
  ASSUME IInv, RInv, NEW r \in RunIds, NEW j, NEW from, NEW to, NEW status,
         at(r, j, from), goto(r, j, to), report(r, j, status),
         UNCHANGED <<definition, updates>>,
         status \in Finished => from \in Stored,
         to = "done" => status = "succeeded",
         from # "done"
  PROVE  RInv'
<1>1. PICK E : /\ exec'[r] = E /\ \A q \in RunIds \ {r} : exec'[q] = exec[q]
               /\ E.phase # "none" /\ E.def = exec[r].def
               /\ E.completed = exec[r].completed
               /\ r \in DOMAIN runs /\ j \in DOMAIN E.def
               /\ from \in Stored => j \in E.completed
               /\ \A n \in DOMAIN E.def :
                    E.pc[n] = IF n = j THEN to ELSE exec[r].pc[n]
  BY GotoFacts
<1>2. \A n \in DOMAIN E.def :
        E.pc[n] = "done" =>
          IF n = j THEN status = "succeeded" ELSE exec[r].pc[n] = "done"
  BY <1>1, Zenon
<1> QED
  BY <1>1, <1>2, ReportMoves, Zenon

\* A step of a job's goroutine keeps what the runs say true.
LEMMA JobRInv ==
  ASSUME IInv, RInv, NEW r \in RunIds, NEW j \in Jobs, jobStep(r, j)
  PROVE  RInv'
<1>1. CASE reportRunning(r, j)
  BY <1>1, ReportGoto, Zenon DEF reportRunning, Finished
<1>2. CASE readOutputs(r, j)
  BY <1>2, QuietGoto, Zenon DEF readOutputs, counters
<1>3. CASE answer(r, j)
  BY <1>3, QuietGoto, Zenon DEF answer, counters
<1>4. CASE invocationFailed(r, j)
  <2>1. PICK to : to \in {"invoke", "report-failed"} /\ goto(r, j, to)
    BY <1>4, Zenon DEF invocationFailed
  <2> QED
    BY <1>4, <2>1, QuietGoto, Zenon DEF invocationFailed, counters
<1>5. CASE reportFailed(r, j)
  BY <1>5, ReportGoto, Zenon DEF reportFailed, Finished
<1>6. CASE reportSucceeded(r, j)
  BY <1>6, ReportGoto, Zenon DEF reportSucceeded, Stored
<1>7. ASSUME NEW pc, NEW E, at(r, j, pc),
             E.phase = exec[r].phase, E.def = exec[r].def,
             exec[r].completed \subseteq E.completed,
             \A n \in DOMAIN E.def : E.pc[n] = "done" => exec[r].pc[n] = "done",
             exec' = [exec EXCEPT ![r] = E],
             UNCHANGED <<definition, updates, runs, faults>>
      PROVE  RInv'
  <2>1. r \in DOMAIN runs /\ DOMAIN exec = RunIds /\ E.phase # "none"
    BY <1>7, ActiveRun, Zenon DEF at
  <2>2. exec'[r] = E /\ \A q \in RunIds \ {r} : exec'[q] = exec[q]
    BY <1>7, <2>1, Zenon
  <2> QED
    BY <1>7, <2>1, <2>2, QuietMoves
<1>8. exec[r] \in ExecType /\ GoodExec(exec[r])
  BY Zenon DEF IInv
<1>9. CASE invoke(r, j)
  <2>1. PICK e : e = exec[r]
    BY Zenon
  <2>2. PICK E : E = [e EXCEPT !.pc[j] = "invoking", !.attempts[j] = @ + 1]
    BY Zenon
  <2>3. /\ E.phase = e.phase /\ E.def = e.def /\ E.completed = e.completed
        /\ E.pc = [e.pc EXCEPT ![j] = "invoking"]
    BY <1>8, <2>1, <2>2, Zenon DEF ExecType
  <2>4. \A n \in DOMAIN E.def : E.pc[n] = "done" => e.pc[n] = "done"
    BY <1>8, <2>1, <2>3, Zenon DEF GoodExec
  <2>5. exec' = [exec EXCEPT ![r] = E]
    BY <1>9, <2>1, <2>2, Zenon DEF invoke
  <2> QED
    BY <1>7, <1>9, <2>1, <2>3, <2>4, <2>5, Zenon DEF invoke, counters
<1>10. CASE storeOutput(r, j)
  <2>1. PICK e : e = exec[r]
    BY Zenon
  <2>2. PICK E : E = [e EXCEPT !.pc[j] = "report-succeeded",
                               !.completed = @ \cup {j}]
    BY Zenon
  <2>3. /\ E.phase = e.phase /\ E.def = e.def
        /\ E.completed = e.completed \cup {j}
        /\ E.pc = [e.pc EXCEPT ![j] = "report-succeeded"]
    BY <1>8, <2>1, <2>2, Zenon DEF ExecType
  <2>4. \A n \in DOMAIN E.def : E.pc[n] = "done" => e.pc[n] = "done"
    BY <1>8, <2>1, <2>3, Zenon DEF GoodExec
  <2>5. exec' = [exec EXCEPT ![r] = E]
    BY <1>10, <2>1, <2>2, Zenon DEF storeOutput
  <2> QED
    BY <1>7, <1>10, <2>1, <2>3, <2>4, <2>5, Zenon DEF storeOutput, counters
<1> QED
  BY <1>1, <1>2, <1>3, <1>4, <1>5, <1>6, <1>9, <1>10, Zenon DEF jobStep

\* Every step keeps what the runs say true.
LEMMA NextRInv == IInv /\ RInv /\ [Next]_vars => RInv'
<1> SUFFICES ASSUME IInv, RInv, [Next]_vars PROVE RInv'
  BY Zenon
<1>1. CASE crash
  <2>1. \A r \in RunIds : /\ exec'[r].phase = "none" <=> exec[r].phase = "none"
                          /\ exec'[r].def = exec[r].def
                          /\ exec'[r].completed = exec[r].completed
                          /\ exec'[r].pc = exec[r].pc
    BY <1>1, Zenon DEF crash, IInv, ExecType
  <2>2. UNCHANGED <<definition, runs, faults, updates>>
    BY <1>1, Zenon DEF crash
  <2>3. ASSUME NEW r \in DOMAIN runs
        PROVE  GoodRun(runs[r]) /\ Truthful(runs[r], exec'[r], definition, faults, updates)
    <3>1. r \in RunIds /\ GoodRun(runs[r])
          /\ Truthful(runs[r], exec[r], definition, faults, updates)
      BY Zenon DEF RInv
    <3> QED
      BY <2>1, <3>1, Zenon DEF Truthful
  <2> QED
    BY <2>1, <2>2, <2>3, Zenon DEF RInv
<1>2. CASE UNCHANGED vars
  BY <1>2, Zenon DEF vars, counters, RInv
<1> QED
  BY <1>1, <1>2, UserRInv, DispatchRInv, WaveRInv, JobRInv, Zenon DEF Next, engineStep

\* What the stored runs say of their executors is true in every behaviour.
THEOREM RunInvariance == Spec => []RInv
BY Invariance, InitRInv, NextRInv, PTL DEF Spec

\* A job starts only after the steps of its dependencies read "succeeded",
\* unless the run is already terminal, a report was lost or the definition
\* was replaced.
THEOREM ReportsInOrder == Spec => []ReportedOrder
<1>1. IInv /\ RInv => ReportedOrder
  <2> SUFFICES ASSUME IInv, RInv, NEW r \in DOMAIN runs, NEW j \in DOMAIN exec[r].def,
                      faults = 0, updates = 0, runs[r].status \notin Terminal,
                      Started(r, j), NEW d \in exec[r].def[j]
               PROVE  runs[r].steps[d].status = "succeeded"
    BY Zenon DEF ReportedOrder
  <2>1. GoodExec(exec[r])
    BY Zenon DEF IInv, RInv
  <2>2. d \in DOMAIN exec[r].def /\ exec[r].pc[d] = "done"
    BY <2>1, Zenon DEF GoodExec, Started
  <2> QED
    BY <2>2, Zenon DEF RInv, Truthful
<1> QED
  BY <1>1, Invariance, RunInvariance, PTL

\* A run that reads "succeeded" has executed every job, whatever was lost,
\* retried, cancelled or restarted, unless its definition was replaced.
THEOREM SuccessIsReal == Spec => []SucceededUnlessReplaced
<1>1. IInv /\ RInv => SucceededUnlessReplaced
  <2> SUFFICES ASSUME IInv, RInv, updates = 0, NEW r \in DOMAIN runs,
                      runs[r].status = "succeeded"
               PROVE  /\ DOMAIN exec[r].def # {}
                      /\ exec[r].completed = DOMAIN exec[r].def
    BY Zenon DEF SucceededUnlessReplaced, SucceededMeansExecuted
  <2>1. GoodExec(exec[r])
    BY Zenon DEF IInv, RInv
  <2>2. /\ DOMAIN definition \subseteq DOMAIN runs[r].steps
        /\ exec[r].def = <<>> \/ exec[r].def = definition
        /\ \A n \in DOMAIN definition :
             runs[r].steps[n].status \in Finished => n \in exec[r].completed
    BY Zenon DEF RInv, Truthful
  <2>3. AllFinished(runs[r].steps)
    BY Zenon DEF RInv, GoodRun
  <2>4. DOMAIN definition \subseteq exec[r].completed
    BY <2>2, <2>3, Zenon DEF AllFinished
  <2>5. DOMAIN definition # {}
    BY FunctionAssumption, Zenon DEF IInv, Valid, WellFormed
  <2>6. exec[r].completed \subseteq DOMAIN exec[r].def
    BY <2>1, Zenon DEF GoodExec
  <2>7. exec[r].def = <<>> => DOMAIN exec[r].def = {}
    OBVIOUS
  <2>8. exec[r].def = definition
    BY <2>2, <2>4, <2>5, <2>6, <2>7, Zenon
  <2> QED
    BY <2>4, <2>5, <2>6, <2>8, Zenon
<1> QED
  BY <1>1, Invariance, RunInvariance, PTL

\* No wave starts after a failure: the loop looks at the failed flag before
\* it looks for ready jobs.
THEOREM FailureStops == Spec => FailureStopsWaves
<1> DEFINE Stops == \A r \in RunIds :
                      exec[r].phase = "executing"
                      /\ (\E j \in DOMAIN exec[r].def : exec[r].pc[j] = "failed") =>
                        exec'[r].remaining = exec[r].remaining
<1>1. IInv /\ RInv /\ [Next]_vars => [Stops]_vars
  <2> SUFFICES ASSUME IInv, RInv, Next, NEW r \in RunIds,
                      exec[r].phase = "executing",
                      \E j \in DOMAIN exec[r].def : exec[r].pc[j] = "failed"
               PROVE  exec'[r].remaining = exec[r].remaining
    BY Zenon
  <2>1. exec[r] \in ExecType /\ DOMAIN exec = RunIds
    BY Zenon DEF IInv
  <2>2. CASE userStep
    <3>1. r \in DOMAIN runs
      BY Zenon DEF RInv
    <3> QED
      BY <2>1, <2>2, <3>1, Zenon
      DEF userStep, submitPipeline, retryRun, cancelRun, upsertPipelineDefinition
  <2>3. CASE crash
    BY <2>1, <2>3, Zenon DEF crash, ExecType
  <2>4. ASSUME NEW q \in RunIds, dispatch(q)
        PROVE  exec'[r].remaining = exec[r].remaining
    <3>1. exec[q].phase = "dispatch"
      BY <2>4, Zenon DEF dispatch, loadFailed, startExecutor, notConfigured
    <3> QED
      BY <2>1, <2>4, <3>1, Zenon DEF dispatch, loadFailed, startExecutor, notConfigured
  <2>5. ASSUME NEW q \in RunIds, wave(q)
        PROVE  exec'[r].remaining = exec[r].remaining
    <3>1. CASE q = r
      <4>1. exec' = [exec EXCEPT ![r].phase = "returned"]
        BY <2>5, <3>1, Zenon DEF wave, stopped
      <4> QED
        BY <2>1, <4>1, Zenon DEF ExecType
    <3>2. CASE q # r
      BY <2>1, <2>5, <3>2, Zenon DEF wave
    <3> QED
      BY <3>1, <3>2, Zenon
  <2>6. ASSUME NEW q \in RunIds, NEW j \in Jobs, jobStep(q, j)
        PROVE  exec'[r].remaining = exec[r].remaining
    <3>1. CASE \E to : goto(q, j, to)
      BY <2>1, <3>1 DEF goto, ExecType
    <3>2. CASE invoke(q, j)
      BY <2>1, <3>2, Zenon DEF invoke, ExecType
    <3>3. CASE storeOutput(q, j)
      BY <2>1, <3>3, Zenon DEF storeOutput, ExecType
    <3> QED
      BY <2>6, <3>1, <3>2, <3>3, Zenon
      DEF jobStep, reportRunning, readOutputs, answer, invocationFailed,
          reportFailed, reportSucceeded
  <2> QED
    BY <2>2, <2>3, <2>4, <2>5, <2>6, Zenon DEF Next, engineStep
<1> QED
  BY <1>1, Invariance, RunInvariance, PTL DEF Spec, FailureStopsWaves

-----------------------------------------------------------------------------
(* The definitions the executor runs have passed validatePipelineDefinition: *)
(* its cycle check accepts exactly the acyclic graphs, for every finite set  *)
(* of jobs and every order in which roots and dependencies are taken.        *)

Frame == [name : Jobs, todo : SUBSET Jobs]

\* The visited jobs can all be run: they depend on each other only, without
\* a cycle.
VisitedSound ==
  /\ visited \subseteq DOMAIN graph
  /\ visited \cap visiting = {}
  /\ \A n \in visited : graph[n] \subseteq visited
  /\ \A S \in SUBSET visited : ~Deadlocked(graph, S)

\* The stack is a path of distinct jobs, the ones marked visiting.
StackIsPath ==
  /\ calls \in Seq(Frame)
  /\ \A i \in 1..Len(calls) :
       calls[i].name \in visiting /\ calls[i].todo \subseteq graph[calls[i].name]
  /\ \A n \in visiting : \E i \in 1..Len(calls) : calls[i].name = n
  /\ \A i, k \in 1..Len(calls) : calls[i].name = calls[k].name => i = k
  /\ \A i \in 1..Len(calls) - 1 : calls[i + 1].name \in graph[calls[i].name]

\* A call has only passed over dependencies that are visited, except the one
\* it is waiting for.
PassedOver ==
  \A i \in 1..Len(calls) :
    \A n \in graph[calls[i].name] \ calls[i].todo :
      n \in visited \/ (i < Len(calls) /\ n = calls[i + 1].name)

\* The inductive invariant of the search.
SearchInv ==
  /\ DOMAIN graph \subseteq Jobs /\ WellFormed(graph)
  /\ visiting \subseteq DOMAIN graph
  /\ VisitedSound
  /\ StackIsPath
  /\ PassedOver
  /\ verdict \in {"searching", "accepted", "rejected"}
  /\ AcceptedIsAcyclic
  /\ RejectedIsCyclic

\* A job whose dependencies are all in a sound set can be added to it.
LEMMA SoundStep ==
  ASSUME NEW g, NEW V \in SUBSET DOMAIN g, NEW n \in DOMAIN g \ V,
         \A m \in V : g[m] \subseteq V,
         \A S \in SUBSET V : ~Deadlocked(g, S),
         g[n] \subseteq V
  PROVE  \A S \in SUBSET (V \cup {n}) : ~Deadlocked(g, S)
<1> SUFFICES ASSUME NEW S \in SUBSET (V \cup {n}), Deadlocked(g, S)
             PROVE  FALSE
  BY Zenon
<1> DEFINE T == S \ {n}
<1>1. \A m \in S : g[m] \cap S # {} /\ g[m] \subseteq V
  BY Zenon DEF Deadlocked
<1>2. \A m \in S : g[m] \cap T # {}
  BY <1>1
<1>3. T # {}
  BY <1>2 DEF Deadlocked
<1>4. Deadlocked(g, T) /\ T \in SUBSET V
  BY <1>2, <1>3, Zenon DEF Deadlocked
<1> QED
  BY <1>4, Zenon

\* The search starts with nothing visited.
LEMMA SearchStarts == SearchInit => SearchInv
<1> SUFFICES ASSUME SearchInit PROVE SearchInv
  BY Zenon
<1>1. DOMAIN graph \subseteq Jobs /\ WellFormed(graph)
  BY Zenon DEF SearchInit, Graphs
<1>2. calls = <<>> /\ Len(calls) = 0 /\ calls \in Seq(Frame)
  BY DEF SearchInit
<1>3. VisitedSound
  BY Zenon DEF SearchInit, VisitedSound, Deadlocked
<1>4. StackIsPath /\ PassedOver
  BY <1>2 DEF SearchInit, StackIsPath, PassedOver
<1> QED
  BY <1>1, <1>3, <1>4, Zenon DEF SearchInit, SearchInv, AcceptedIsAcyclic, RejectedIsCyclic

\* Opening a call on top of a stack that is a path keeps the invariant: the
\* new job was neither visiting nor visited.
LEMMA OpenCall ==
  ASSUME SearchInv, verdict = "searching", NEW name \in DOMAIN graph,
         name \notin visiting, name \notin visited,
         NEW rest \in Seq(Frame), Len(rest) = Len(calls),
         \A i \in 1..Len(calls) : rest[i].name = calls[i].name
                                 /\ rest[i].todo \subseteq graph[calls[i].name],
         \A i \in 1..Len(calls) : \A n \in graph[rest[i].name] \ rest[i].todo :
           n \in visited \/ (i < Len(calls) /\ n = calls[i + 1].name)
                         \/ (i = Len(calls) /\ n = name),
         Len(calls) > 0 => name \in graph[calls[Len(calls)].name],
         calls' = Append(rest, [name |-> name, todo |-> graph[name]]),
         visiting' = visiting \cup {name},
         UNCHANGED <<graph, visited, verdict>>
  PROVE  SearchInv'
<1> DEFINE f == [name |-> name, todo |-> graph[name]]
           L == Len(calls)
<1>1. L \in Nat /\ f \in Frame
  BY DEF SearchInv, StackIsPath, Frame, WellFormed
<1>2. /\ calls' \in Seq(Frame) /\ Len(calls') = L + 1
      /\ calls'[L + 1] = f
      /\ \A i \in 1..L : calls'[i] = rest[i]
  BY <1>1
<1>3. \A i \in 1..L : calls'[i].name = calls[i].name
  BY <1>2, Zenon
<1>4. calls'[L + 1].name = name /\ calls'[L + 1].todo = graph[name]
  BY <1>2
<1> HIDE DEF f
<1>5. StackIsPath'
  <2>1. \A i \in 1..L + 1 : /\ calls'[i].name \in visiting'
                            /\ calls'[i].todo \subseteq graph'[calls'[i].name]
    BY <1>1, <1>2, <1>3, <1>4 DEF SearchInv, StackIsPath
  <2>2. \A n \in visiting' : \E i \in 1..L + 1 : calls'[i].name = n
    <3> TAKE n \in visiting'
    <3>1. CASE n = name
      BY <1>1, <1>4, <3>1
    <3>2. CASE n \in visiting
      <4>1. PICK i \in 1..L : calls[i].name = n
        BY <3>2, Zenon DEF SearchInv, StackIsPath
      <4> QED
        BY <1>1, <1>3, <4>1
    <3> QED
      BY <3>1, <3>2, Zenon
  <2>3. \A i, k \in 1..L + 1 : calls'[i].name = calls'[k].name => i = k
    BY <1>1, <1>3, <1>4 DEF SearchInv, StackIsPath
  <2>4. \A i \in 1..L : calls'[i + 1].name \in graph'[calls'[i].name]
    BY <1>1, <1>3, <1>4 DEF SearchInv, StackIsPath
  <2>5. 1..Len(calls') = 1..L + 1 /\ 1..Len(calls') - 1 = 1..L
    BY <1>1, <1>2
  <2> QED
    BY <1>2, <2>1, <2>2, <2>3, <2>4, <2>5, Zenon DEF StackIsPath
<1>6. PassedOver'
  <2>1. ASSUME NEW i \in 1..L, NEW n \in graph'[calls'[i].name] \ calls'[i].todo
        PROVE  n \in visited' \/ (i < L + 1 /\ n = calls'[i + 1].name)
    <3>1. n \in graph[rest[i].name] \ rest[i].todo /\ calls'[i] = rest[i]
      BY <1>2, <2>1, Zenon
    <3>2. n \in visited \/ (i < L /\ n = calls[i + 1].name) \/ (i = L /\ n = name)
      BY <1>2, <1>3, <3>1, Zenon
    <3>3. i < L => i + 1 \in 1..L
      BY <1>1
    <3>4. i < L + 1
      BY <1>1
    <3> QED BY <1>3, <1>4, <3>2, <3>3, <3>4, Zenon
  <2>2. \A i \in 1..L + 1 : i \in 1..L \/ i = L + 1
    BY <1>1
  <2>3. graph'[calls'[L + 1].name] \ calls'[L + 1].todo = {}
    BY <1>4
  <2>4. ASSUME NEW i \in 1..L + 1, NEW n \in graph'[calls'[i].name] \ calls'[i].todo
        PROVE  n \in visited' \/ (i < L + 1 /\ n = calls'[i + 1].name)
    BY <2>1, <2>2, <2>3, <2>4
  <2> QED BY <1>2, <2>4 DEF PassedOver
<1>7. VisitedSound'
  BY DEF SearchInv, VisitedSound
<1> QED
  BY <1>5, <1>6, <1>7, Zenon DEF SearchInv, AcceptedIsAcyclic, RejectedIsCyclic

\* Returning from a call leaves the frames below it.
LEMMA AllButLast ==
  ASSUME NEW s \in Seq(Frame), s # <<>>
  PROVE  LET p == SubSeq(s, 1, Len(s) - 1)
         IN  /\ p \in Seq(Frame) /\ Len(p) = Len(s) - 1
             /\ \A i \in 1..Len(s) - 1 : p[i] = s[i]
<1>1. PICK m \in Nat : m = Len(s) - 1
  OBVIOUS
<1>2. /\ SubSeq(s, 1, m) \in Seq(Frame) /\ Len(SubSeq(s, 1, m)) = m
      /\ \A i \in 1..m : SubSeq(s, 1, m)[i] = s[i]
  BY <1>1
<1> QED
  BY <1>1, <1>2, Zenon

\* Removing a dependency from the top call keeps the other frames.
LEMMA TopChanged ==
  ASSUME NEW s \in Seq(Frame), s # <<>>, NEW f \in Frame
  PROVE  LET rest == Append(SubSeq(s, 1, Len(s) - 1), f)
         IN  /\ rest \in Seq(Frame) /\ Len(rest) = Len(s)
             /\ rest[Len(s)] = f
             /\ \A i \in 1..Len(s) - 1 : rest[i] = s[i]
<1> DEFINE p == SubSeq(s, 1, Len(s) - 1)
<1>1. Len(s) \in Nat /\ Len(s) > 0
  OBVIOUS
<1>2. p \in Seq(Frame) /\ Len(p) = Len(s) - 1
      /\ \A i \in 1..Len(s) - 1 : p[i] = s[i]
  BY AllButLast, Zenon
<1> HIDE DEF p
<1>3. /\ Append(p, f) \in Seq(Frame) /\ Len(Append(p, f)) = Len(s)
      /\ Append(p, f)[Len(s)] = f
      /\ \A i \in 1..Len(s) - 1 : Append(p, f)[i] = s[i]
  BY <1>1, <1>2
<1> QED
  BY <1>3, Zenon DEF p

\* A dependency that is still on the stack closes a cycle.
LEMMA BackEdge ==
  ASSUME SearchInv, calls # <<>>, NEW parent \in graph[top.name], parent \in visiting
  PROVE  ~Acyclic(graph)
<1> DEFINE L == Len(calls)
<1>1. L \in Nat /\ L > 0
  BY DEF SearchInv, StackIsPath
<1>2. PICK k \in 1..L : calls[k].name = parent
  BY Zenon DEF SearchInv, StackIsPath
<1> DEFINE S == {calls[i].name : i \in k..L}
<1>3. S \subseteq DOMAIN graph /\ parent \in S
  BY <1>1, <1>2 DEF SearchInv, StackIsPath
<1>4. \A i \in k..L : graph[calls[i].name] \cap S # {}
  <2> SUFFICES ASSUME NEW i \in k..L PROVE graph[calls[i].name] \cap S # {}
    BY Zenon
  <2>1. CASE i = L
    BY <1>3, <2>1, Zenon DEF top
  <2>2. CASE i # L
    <3>1. i \in 1..L - 1 /\ i + 1 \in k..L
      BY <1>1, <1>2, <2>2
    <3>2. calls[i + 1].name \in graph[calls[i].name]
      BY <3>1, Zenon DEF SearchInv, StackIsPath
    <3> QED
      BY <3>1, <3>2, Zenon
  <2> QED
    BY <2>1, <2>2, Zenon
<1>5. Deadlocked(graph, S)
  BY <1>3, <1>4, Zenon DEF Deadlocked
<1> QED
  BY <1>3, <1>5, Zenon DEF Acyclic

\* Every step of the search preserves the invariant.
LEMMA SearchStep == SearchInv /\ [SearchNext]_(searchVars) => SearchInv'
<1> SUFFICES ASSUME SearchInv, [SearchNext]_(searchVars) PROVE SearchInv'
  BY Zenon
<1>0. calls \in Seq(Frame) /\ Len(calls) \in Nat
  BY DEF SearchInv, StackIsPath
<1>1. ASSUME NEW name \in Jobs, Root(name) PROVE SearchInv'
  <2>1. /\ name \in DOMAIN graph /\ name \notin visited /\ calls = <<>>
        /\ verdict = "searching" /\ visit(name, <<>>) /\ UNCHANGED <<graph, visited>>
    BY <1>1, Zenon DEF Root
  <2>2. Len(calls) = 0 /\ <<>> \in Seq(Frame) /\ Len(<<>>) = 0
    BY <2>1
  <2>3. visiting = {}
    BY <2>2 DEF SearchInv, StackIsPath
  <2>4. /\ calls' = Append(<<>>, [name |-> name, todo |-> graph[name]])
        /\ visiting' = visiting \cup {name} /\ verdict' = verdict
    BY <2>1, <2>3, Zenon DEF visit
  <2>5. PICK rest \in Seq(Frame) : rest = <<>>
    BY <2>2, Zenon
  <2>6. Len(rest) = Len(calls) /\ 1..Len(calls) = {} /\ ~(Len(calls) > 0)
    BY <2>2, <2>5
  <2>7. calls' = Append(rest, [name |-> name, todo |-> graph[name]])
    BY <2>4, <2>5, Zenon
  <2> QED
    BY <2>1, <2>3, <2>4, <2>6, <2>7, OpenCall, Zenon
<1>2. ASSUME NEW parent \in Jobs, Descend(parent) PROVE SearchInv'
  <2> DEFINE L == Len(calls)
             rest == Append(pop, [top EXCEPT !.todo = @ \ {parent}])
  <2>1. /\ verdict = "searching" /\ calls # <<>> /\ parent \in top.todo
        /\ visit(parent, rest) /\ UNCHANGED <<graph, visited>>
    BY <1>2, Zenon DEF Descend
  <2>2. L > 0 /\ top = calls[L] /\ top \in Frame /\ top.todo \subseteq graph[top.name]
        /\ top.name \in DOMAIN graph
    BY <1>0, <2>1 DEF top, SearchInv, StackIsPath
  <2>3. PICK f \in Frame : /\ f = [top EXCEPT !.todo = @ \ {parent}]
                           /\ f.name = top.name /\ f.todo = top.todo \ {parent}
    <3>1. PICK t \in Frame : t = top
      BY <2>2, Zenon
    <3> DEFINE f == [t EXCEPT !.todo = @ \ {parent}]
    <3>2. f \in Frame /\ f.name = t.name /\ f.todo = t.todo \ {parent}
      BY Zenon DEF Frame
    <3>3. f = [top EXCEPT !.todo = @ \ {parent}]
      BY <3>1, Zenon
    <3> HIDE DEF f
    <3> QED
      BY <3>1, <3>2, <3>3, Zenon
  <2>4. /\ rest \in Seq(Frame) /\ Len(rest) = L /\ rest[L] = f
        /\ \A i \in 1..L - 1 : rest[i] = calls[i]
    <3>1. rest = Append(SubSeq(calls, 1, Len(calls) - 1), f)
      BY <2>3, Zenon DEF pop
    <3> HIDE DEF rest
    <3> QED
      BY <1>0, <2>1, <3>1, TopChanged, Zenon
  <2> HIDE DEF rest
  <2>5. \A i \in 1..L : /\ rest[i].name = calls[i].name
                        /\ rest[i].todo \subseteq graph[calls[i].name]
    <3>1. \A i \in 1..L - 1 : /\ rest[i].name = calls[i].name
                              /\ rest[i].todo \subseteq graph[calls[i].name]
      BY <1>0, <2>4 DEF SearchInv, StackIsPath
    <3>2. /\ rest[L].name = calls[L].name
          /\ rest[L].todo \subseteq graph[calls[L].name]
      BY <2>2, <2>3, <2>4, Zenon
    <3> QED
      BY <1>0, <2>2, <3>1, <3>2
  <2>6. \A i \in 1..L : \A n \in graph[rest[i].name] \ rest[i].todo :
           n \in visited \/ (i < L /\ n = calls[i + 1].name)
                         \/ (i = L /\ n = parent)
    <3>1. \A i \in 1..L - 1 : \A n \in graph[rest[i].name] \ rest[i].todo :
            n \in visited \/ n = calls[i + 1].name
      BY <1>0, <2>4 DEF SearchInv, PassedOver
    <3>2. \A n \in graph[rest[L].name] \ rest[L].todo : n \in visited \/ n = parent
      BY <1>0, <2>2, <2>3, <2>4 DEF SearchInv, PassedOver
    <3> QED
      BY <1>0, <2>2, <3>1, <3>2
  <2>7. parent \in DOMAIN graph
    BY <2>1, <2>2, Zenon DEF SearchInv, WellFormed
  <2>8. CASE parent \in visiting
    <3>1. verdict' = "rejected" /\ UNCHANGED <<graph, calls, visiting, visited>>
      BY <2>1, <2>8, Zenon DEF visit
    <3>2. ~Acyclic(graph)
      BY <2>1, <2>2, <2>8, BackEdge, Zenon
    <3> QED
      BY <3>1, <3>2 DEF SearchInv, VisitedSound, StackIsPath, PassedOver,
         AcceptedIsAcyclic, RejectedIsCyclic
  <2>9. CASE parent \notin visiting /\ parent \in visited
    <3>1. calls' = rest /\ UNCHANGED <<graph, visiting, visited, verdict>>
      BY <2>1, <2>9, Zenon DEF visit
    <3>2. StackIsPath'
      <4>1. \A n \in visiting : \E i \in 1..L : rest[i].name = n
        BY <2>5, Zenon DEF SearchInv, StackIsPath
      <4>2. \A i, k \in 1..L : rest[i].name = rest[k].name => i = k
        BY <2>5, Zenon DEF SearchInv, StackIsPath
      <4>3. \A i \in 1..L - 1 : rest[i + 1].name \in graph[rest[i].name]
        BY <1>0, <2>5 DEF SearchInv, StackIsPath
      <4>4. \A i \in 1..L : rest[i].name \in visiting
        BY <2>5, Zenon DEF SearchInv, StackIsPath
      <4> QED
        BY <2>4, <2>5, <3>1, <4>1, <4>2, <4>3, <4>4, Zenon DEF StackIsPath
    <3>3. PassedOver'
      BY <1>0, <2>4, <2>5, <2>6, <2>9, <3>1 DEF PassedOver
    <3> QED
      BY <3>1, <3>2, <3>3, Zenon DEF SearchInv, VisitedSound, AcceptedIsAcyclic, RejectedIsCyclic
  <2>10. CASE parent \notin visiting /\ parent \notin visited
    <3>1. /\ calls' = Append(rest, [name |-> parent, todo |-> graph[parent]])
          /\ visiting' = visiting \cup {parent}
          /\ UNCHANGED <<graph, visited, verdict>>
      BY <2>1, <2>10, Zenon DEF visit
    <3>2. Len(calls) > 0 => parent \in graph[calls[Len(calls)].name]
      BY <2>1, <2>2, Zenon
    <3> QED
      BY <2>1, <2>4, <2>5, <2>6, <2>7, <2>10, <3>1, <3>2, OpenCall, Zenon
  <2> QED
    BY <2>8, <2>9, <2>10, Zenon
<1>3. CASE Finish
  <2> DEFINE L == Len(calls)
             N == top.name
  <2>1. /\ verdict = "searching" /\ calls # <<>> /\ top.todo = {}
        /\ visiting' = visiting \ {N} /\ visited' = visited \cup {N}
        /\ calls' = pop /\ UNCHANGED <<graph, verdict>>
    BY <1>3, Zenon DEF Finish
  <2>2. L > 0 /\ top = calls[L] /\ N \in visiting
    BY <1>0, <2>1 DEF top, SearchInv, StackIsPath
  <2>3. graph[N] \subseteq visited /\ N \in DOMAIN graph \ visited
    BY <1>0, <2>1, <2>2 DEF SearchInv, PassedOver, VisitedSound
  <2>4. /\ calls' \in Seq(Frame) /\ Len(calls') = L - 1
        /\ \A i \in 1..L - 1 : calls'[i] = calls[i]
    <3>1. calls' = SubSeq(calls, 1, Len(calls) - 1)
      BY <2>1, Zenon DEF pop
    <3> QED
      BY <1>0, <2>1, <3>1, AllButLast, Zenon
  <2>5. VisitedSound'
    <3>1. \A S \in SUBSET (visited \cup {N}) : ~Deadlocked(graph, S)
      BY <2>3, SoundStep, Zenon DEF SearchInv, VisitedSound
    <3> QED
      BY <2>1, <2>3, <3>1, Zenon DEF SearchInv, VisitedSound
  <2>6. StackIsPath'
    <3>1. \A i \in 1..L - 1 : calls[i].name # N
      BY <1>0, <2>2 DEF SearchInv, StackIsPath
    <3>2. \A n \in visiting \ {N} : \E i \in 1..L - 1 : calls[i].name = n
      <4> TAKE n \in visiting \ {N}
      <4>1. PICK i \in 1..L : calls[i].name = n
        BY Zenon DEF SearchInv, StackIsPath
      <4>2. i # L
        BY <2>2, <4>1, Zenon
      <4> QED
        BY <1>0, <4>1, <4>2
    <3>3. \A i \in 1..L - 1 : /\ calls[i].name \in visiting
                              /\ calls[i].todo \subseteq graph[calls[i].name]
      BY <1>0 DEF SearchInv, StackIsPath
    <3>4. \A i, k \in 1..L - 1 : calls[i].name = calls[k].name => i = k
      BY <1>0 DEF SearchInv, StackIsPath
    <3>5. \A i \in 1..(L - 1) - 1 : calls[i + 1].name \in graph[calls[i].name]
      BY <1>0 DEF SearchInv, StackIsPath
    <3>6. 1..Len(calls') = 1..L - 1
      BY <2>4, Zenon
    <3>7. /\ \A i \in 1..L - 1 : /\ calls'[i].name \in visiting'
                                 /\ calls'[i].todo \subseteq graph'[calls'[i].name]
          /\ \A n \in visiting' : \E i \in 1..L - 1 : calls'[i].name = n
      BY <2>1, <2>4, <3>1, <3>2, <3>3, Zenon
    <3>8. \A i, k \in 1..L - 1 : calls'[i].name = calls'[k].name => i = k
      BY <2>4, <3>4, Zenon
    <3>9. \A i \in 1..Len(calls') - 1 : calls'[i + 1].name \in graph'[calls'[i].name]
      BY <1>0, <2>1, <2>4, <3>5
    <3> QED
      BY <2>4, <3>6, <3>7, <3>8, <3>9, Zenon DEF StackIsPath
  <2>7. PassedOver'
    <3>1. SUFFICES ASSUME NEW i \in 1..L - 1,
                          NEW n \in graph[calls[i].name] \ calls[i].todo
                   PROVE  n \in visited' \/ (i < L - 1 /\ n = calls'[i + 1].name)
      BY <2>1, <2>4 DEF PassedOver
    <3>2. i \in 1..L /\ i + 1 \in 1..L /\ (i < L - 1 => i + 1 \in 1..L - 1)
      BY <1>0
    <3>3. CASE n \in visited
      BY <2>1, <3>3, Zenon
    <3>4. CASE n = calls[i + 1].name
      <4>1. CASE i = L - 1
        <5>1. n = N
          BY <1>0, <2>2, <3>4, <4>1
        <5> QED
          BY <2>1, <5>1, Zenon
      <4>2. CASE i < L - 1
        BY <2>4, <3>2, <3>4, <4>2, Zenon
      <4> QED
        BY <1>0, <4>1, <4>2
    <3> QED
      BY <3>2, <3>3, <3>4, Zenon DEF SearchInv, PassedOver
  <2> QED
    BY <2>1, <2>5, <2>6, <2>7, Zenon DEF SearchInv, AcceptedIsAcyclic, RejectedIsCyclic
<1>4. CASE Accept
  <2>1. Acyclic(graph)
    BY <1>4, Zenon DEF Accept, SearchInv, VisitedSound, Acyclic
  <2> QED
    BY <1>4, <2>1 DEF Accept, SearchInv, VisitedSound, StackIsPath, PassedOver,
       AcceptedIsAcyclic, RejectedIsCyclic
<1>5. CASE UNCHANGED searchVars
  BY <1>5, Zenon DEF searchVars, SearchInv, VisitedSound, StackIsPath, PassedOver,
     AcceptedIsAcyclic, RejectedIsCyclic
<1> QED
  BY <1>1, <1>2, <1>3, <1>4, <1>5, Zenon DEF SearchNext

\* The inductive invariant holds of every search.
THEOREM SearchInvariance == SearchSpec => []SearchInv
BY SearchStarts, SearchStep, PTL DEF SearchSpec

\* No graph with a cycle is accepted, whatever its size.
THEOREM AcceptSound == SearchSpec => []AcceptedIsAcyclic
<1>1. SearchInv => AcceptedIsAcyclic
  BY Zenon DEF SearchInv
<1> QED
  BY <1>1, SearchInvariance, PTL

\* No graph without a cycle is refused.
THEOREM RejectSound == SearchSpec => []RejectedIsCyclic
<1>1. SearchInv => RejectedIsCyclic
  BY Zenon DEF SearchInv
<1> QED
  BY <1>1, SearchInvariance, PTL
=============================================================================
