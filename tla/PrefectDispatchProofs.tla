----------------------- MODULE PrefectDispatchProofs ------------------------
(***************************************************************************)
(* What the gateway says of a run that Prefect executes is true, for every *)
(* flow of distinct steps, any number of runs, and any number of failed    *)
(* calls, lost or late reports and restarts of the gateway.                *)
(***************************************************************************)
EXTENDS PrefectDispatch, TLAPS

\* A run record with the fields a report touches, on at least the steps of
\* the flow, that reads "succeeded" only when every step finished.
GoodRun(run) ==
  /\ {"status", "progress", "steps", "linked"} \subseteq DOMAIN run
  /\ TemplateSteps \subseteq DOMAIN run.steps
  /\ run.status = "succeeded" => AllFinished(run.steps)

\* A flow run that is past its last step has completed; one that does not
\* exist is at its first step.
GoodFlow(f) ==
  /\ f \in Flow
  /\ f.at > Len(FlowSteps) => f.state = "completed"
  /\ f.state = "absent" => f.at = 1

\* The flow f of a run is past every step that steps calls finished.
Behind(steps, f) ==
  \A i \in 1..Len(FlowSteps) :
    steps[FlowSteps[i]].status \in Finished => f.at > i

\* A late report is one the flow made: of success only for a step it is past.
Sent(t) ==
  \E r \in DOMAIN runs, i \in 1..Len(FlowSteps),
     s \in {"running", "succeeded", "failed"} :
    t = <<r, FlowSteps[i], s>> /\ (s = "succeeded" => flow[r].at > i)

\* The places of a handler.
Place == {"none", "dispatch", "link", "returned", "lost"}

\* What the place of its handler says of a run: nothing was created before
\* the call of CreateFlowRun, something was before SetRunEngine, and after
\* the handler returned the run is terminal or knows its flow run.
Dispatched(r) ==
  /\ handler[r] \in Place
  /\ handler[r] \in {"none", "dispatch"} => flow[r].state = "absent"
  /\ handler[r] = "link" => flow[r].state # "absent"
  /\ handler[r] # "none" <=> r \in DOMAIN runs
  /\ r \in DOMAIN runs /\ configured /\ handler[r] = "returned" =>
       \/ runs[r].status \in Terminal
       \/ runs[r].linked /\ flow[r].state # "absent"

\* The inductive invariant.
IInv ==
  /\ DOMAIN runs \subseteq RunIds
  /\ cancelling \subseteq DOMAIN runs
  /\ DOMAIN handler = RunIds /\ DOMAIN flow = RunIds
  /\ \A r \in RunIds : GoodFlow(flow[r]) /\ Dispatched(r)
  /\ \A r \in DOMAIN runs :
       GoodRun(runs[r]) /\ Behind(runs[r].steps, flow[r])
  /\ \A t \in late : Sent(t)

\* The steps of the template are the flow's, by position.
LEMMA StepAt ==
  /\ Len(FlowSteps) \in Nat \ {0}
  /\ \A i \in 1..Len(FlowSteps) : FlowSteps[i] \in TemplateSteps
  /\ \A i, j \in 1..Len(FlowSteps) : FlowSteps[i] = FlowSteps[j] => i = j
<1>1. Len(FlowSteps) \in Nat
  BY PrefectAssumption
<1> QED
  BY <1>1, PrefectAssumption DEF TemplateSteps

\* What a report changes: terminal runs keep everything; otherwise one step
\* takes the reported status, and a reported failure ends the run.
LEMMA Reported ==
  ASSUME NEW run, GoodRun(run), NEW name, NEW status
  PROVE  LET new == StepReported(run, name, status) IN
         /\ GoodRun(new)
         /\ new.linked = run.linked
         /\ run.status \in Terminal => new.status \in Terminal
         /\ status = "failed" => new.status \in Terminal
         /\ \A n \in DOMAIN run.steps :
              new.steps[n].status \in Finished =>
                \/ run.steps[n].status \in Finished
                \/ n = name /\ status \in Finished
<1> DEFINE new == StepReported(run, name, status)
           steps == upsertStep(run.steps, name, status)
           after == runStatus(run.status, steps)
           applied == applyStepTransition(run, name, status)
<1>1. CASE run.status \in Terminal
  BY <1>1, Zenon DEF StepReported
<1>2. CASE run.status \notin Terminal
  <2>1. new = applied
    BY <1>2, Zenon DEF StepReported
  <2>2. /\ DOMAIN steps = DOMAIN run.steps \cup {name}
        /\ steps[name].status = status
        /\ \A n \in DOMAIN run.steps \ {name} : steps[n] = run.steps[n]
    BY Zenon DEF upsertStep
  <2>3. /\ DOMAIN applied = DOMAIN run
        /\ applied.steps = steps
        /\ applied.status = after
        /\ applied.linked = run.linked
    BY Zenon DEF applyStepTransition, GoodRun
  <2> HIDE DEF steps, applied
  <2>4. after = "succeeded" => AllFinished(steps)
    BY <1>2, Zenon DEF runStatus, Terminal
  <2>5. status = "failed" => after = "failed"
    BY <2>2, Zenon DEF runStatus, AnyFailed
  <2> QED
    BY <1>2, <2>1, <2>2, <2>3, <2>4, <2>5, Zenon DEF GoodRun, Terminal
<1> QED
  BY <1>1, <1>2, Zenon

\* A new run has no finished step.
LEMMA PendingIsGood ==
  ASSUME NEW S, TemplateSteps \subseteq S, NEW steps,
         steps = [n \in S |-> PendingStep], NEW f
  PROVE  /\ GoodRun([status |-> "queued", progress |-> 0,
                     steps |-> steps, linked |-> FALSE])
         /\ Behind(steps, f)
<1>1. \A n \in S : steps[n].status = "pending"
  BY Zenon DEF PendingStep
<1> QED
  BY <1>1, StepAt, Zenon DEF GoodRun, Behind, Finished

\* accept, on pending steps, preserves the invariant.
LEMMA AcceptKeeps ==
  ASSUME IInv, NEW r \in RunIds, NEW S, TemplateSteps \subseteq S,
         NEW steps, steps = [n \in S |-> PendingStep], accept(r, steps)
  PROVE  IInv'
<1> DEFINE new == [status |-> "queued", progress |-> 0,
                   steps |-> steps, linked |-> FALSE]
<1>1. /\ DOMAIN runs' = DOMAIN runs \cup {r} /\ r \notin DOMAIN runs
      /\ runs'[r] = new
      /\ \A q \in DOMAIN runs : runs'[q] = runs[q]
      /\ handler' = [handler EXCEPT ![r] = "dispatch"]
      /\ UNCHANGED <<configured, flow, cancelling, late, faults>>
  BY Zenon DEF accept
<1>2. GoodRun(new) /\ new.steps = steps /\ Behind(steps, flow[r])
  BY PendingIsGood, Zenon
<1> HIDE DEF new
<1>3. \A q \in DOMAIN runs' : GoodRun(runs'[q]) /\ Behind(runs'[q].steps, flow'[q])
  BY <1>1, <1>2, Zenon DEF IInv
<1>4. \A q \in RunIds : GoodFlow(flow'[q])
  BY <1>1, Zenon DEF IInv
<1>5. \A q \in RunIds : Dispatched(q)'
  <2> SUFFICES ASSUME NEW q \in RunIds PROVE Dispatched(q)'
    BY Zenon
  <2>1. CASE q = r
    BY <1>1, <2>1, Zenon DEF IInv, Dispatched, Place
  <2>2. CASE q # r
    BY <1>1, <2>2, Zenon DEF IInv, Dispatched
  <2> QED
    BY <2>1, <2>2, Zenon
<1>6. \A t \in late' : Sent(t)'
  BY <1>1 DEF IInv, Sent
<1> QED
  BY <1>1, <1>3, <1>4, <1>5, <1>6, Zenon DEF IInv, GoodFlow

\* The run r becomes run, its flow run f and its handler h; the rest stays.
Moved(r, run, f, h) ==
  /\ DOMAIN runs' = DOMAIN runs /\ runs'[r] = run
  /\ \A q \in DOMAIN runs \ {r} : runs'[q] = runs[q]
  /\ DOMAIN flow' = DOMAIN flow /\ flow'[r] = f
  /\ \A q \in RunIds \ {r} : flow'[q] = flow[q]
  /\ DOMAIN handler' = DOMAIN handler /\ handler'[r] = h
  /\ \A q \in RunIds \ {r} : handler'[q] = handler[q]
  /\ configured' = configured

\* A step that moves one run on preserves the invariant if what it leaves is
\* good and its flow run did not go back.
LEMMA MovedKeeps ==
  ASSUME IInv, NEW r \in DOMAIN runs, NEW run, NEW f, NEW h,
         Moved(r, run, f, h),
         GoodRun(run), GoodFlow(f), Behind(run.steps, f),
         f.at >= flow[r].at,
         h \in Place \ {"none"},
         h = "dispatch" => f.state = "absent",
         h = "link" => f.state # "absent",
         configured /\ h = "returned" =>
           \/ run.status \in Terminal
           \/ run.linked /\ f.state # "absent",
         \A t \in late' : Sent(t) \/ Sent(t)',
         cancelling' \subseteq DOMAIN runs
  PROVE  IInv'
<1>1. DOMAIN runs' = DOMAIN runs /\ r \in RunIds
  BY Zenon DEF IInv, Moved
<1>2. \A q \in DOMAIN runs : runs'[q] = IF q = r THEN run ELSE runs[q]
  BY Zenon DEF Moved
<1>3. \A q \in RunIds : /\ flow'[q] = IF q = r THEN f ELSE flow[q]
                        /\ handler'[q] = IF q = r THEN h ELSE handler[q]
  BY Zenon DEF Moved
<1>4. DOMAIN flow' = RunIds /\ DOMAIN handler' = RunIds /\ configured' = configured
  BY Zenon DEF IInv, Moved
<1>5. \A q \in DOMAIN runs' : GoodRun(runs'[q]) /\ Behind(runs'[q].steps, flow'[q])
  BY <1>1, <1>2, <1>3, Zenon DEF IInv
<1>6. \A q \in RunIds : GoodFlow(flow'[q])
  BY <1>3, Zenon DEF IInv
<1>7. \A q \in RunIds : Dispatched(q)'
  <2> SUFFICES ASSUME NEW q \in RunIds PROVE Dispatched(q)'
    BY Zenon
  <2>1. CASE q = r
    BY <1>1, <1>2, <1>3, <1>4, <2>1, Zenon DEF Dispatched, Place
  <2>2. CASE q # r
    BY <1>1, <1>2, <1>3, <1>4, <2>2 DEF IInv, Dispatched
  <2> QED
    BY <2>1, <2>2, Zenon
<1>8. \A q \in DOMAIN runs : q \in RunIds /\ flow[q].at \in Int
  BY DEF IInv, GoodFlow, Flow
<1>9. \A q \in DOMAIN runs : flow'[q].at >= flow[q].at
  BY <1>1, <1>3, <1>8
<1>10. f.at \in Int
  BY DEF GoodFlow, Flow
<1>11. \A t : Sent(t) => Sent(t)'
  <2> SUFFICES ASSUME NEW q \in DOMAIN runs, NEW i \in 1..Len(FlowSteps),
                      NEW s \in {"running", "succeeded", "failed"},
                      s = "succeeded" => flow[q].at > i
               PROVE  s = "succeeded" => flow'[q].at > i
    BY <1>1, Zenon DEF Sent
  <2>1. flow'[q].at \in Int /\ i \in Int
    BY <1>3, <1>8, <1>10, StepAt
  <2> QED
    BY <1>8, <1>9, <2>1
<1> QED
  BY <1>1, <1>4, <1>5, <1>6, <1>7, <1>11, Zenon DEF IInv

\* What the invariant says of one run that exists.
LEMMA RunFacts ==
  ASSUME IInv, NEW r \in DOMAIN runs
  PROVE  /\ r \in RunIds
         /\ GoodRun(runs[r]) /\ GoodFlow(flow[r]) /\ Behind(runs[r].steps, flow[r])
         /\ flow[r].at \in Int /\ flow[r].at >= flow[r].at
         /\ handler[r] \in Place \ {"none"}
         /\ handler[r] = "dispatch" => flow[r].state = "absent"
         /\ handler[r] = "link" => flow[r].state # "absent"
         /\ configured /\ handler[r] = "returned" =>
              \/ runs[r].status \in Terminal
              \/ runs[r].linked /\ flow[r].state # "absent"
<1>1. r \in RunIds
  BY Zenon DEF IInv
<1>2. GoodFlow(flow[r]) /\ Dispatched(r)
  BY <1>1, Zenon DEF IInv
<1>3. flow[r].at \in Int
  BY <1>2 DEF GoodFlow, Flow
<1> QED
  BY <1>1, <1>2, <1>3 DEF IInv, Dispatched

\* A run whose handler or flow run is somewhere exists.
LEMMA Exists ==
  ASSUME IInv, NEW r \in RunIds, handler[r] # "none" \/ flow[r].state # "absent"
  PROVE  r \in DOMAIN runs
<1>1. Dispatched(r)
  BY Zenon DEF IInv
<1> QED
  BY <1>1, Zenon DEF Dispatched

\* Reports are behind: steps that were finished by the flow, and the one it
\* reports, are before its next step.
LEMMA ReportBehind ==
  ASSUME NEW run, GoodRun(run), NEW f, NEW g, NEW i \in 1..Len(FlowSteps),
         NEW status, Behind(run.steps, f), f.at \in Int, g.at \in Int,
         g.at >= f.at, status \in Finished => g.at > i
  PROVE  Behind(StepReported(run, FlowSteps[i], status).steps, g)
<1> DEFINE new == StepReported(run, FlowSteps[i], status)
<1> SUFFICES ASSUME NEW j \in 1..Len(FlowSteps),
                    new.steps[FlowSteps[j]].status \in Finished
             PROVE  g.at > j
  BY Zenon DEF Behind
<1>1. i \in Int /\ j \in Int
  BY StepAt
<1>2. FlowSteps[j] \in DOMAIN run.steps
  BY StepAt, Zenon DEF GoodRun
<1>3. \/ run.steps[FlowSteps[j]].status \in Finished
      \/ FlowSteps[j] = FlowSteps[i] /\ status \in Finished
  BY <1>2, Reported, Zenon
<1>4. CASE run.steps[FlowSteps[j]].status \in Finished
  BY <1>1, <1>4 DEF Behind
<1>5. CASE FlowSteps[j] = FlowSteps[i] /\ status \in Finished
  BY <1>5, StepAt, Zenon
<1> QED
  BY <1>3, <1>4, <1>5, Zenon

\* A report from the flow: applied, lost, or late.
LEMMA ReportKeeps ==
  ASSUME IInv, NEW r \in DOMAIN runs, NEW status \in {"running", "succeeded", "failed"},
         flow[r].at \in 1..Len(FlowSteps), report(r, status),
         NEW f, GoodFlow(f), f.at >= flow[r].at, f.state # "absent",
         status = "succeeded" => f.at > flow[r].at,
         flow' = [flow EXCEPT ![r] = f],
         flow[r].state # "absent",
         UNCHANGED <<configured, handler, cancelling>>
  PROVE  IInv'
<1> DEFINE name == FlowSteps[flow[r].at]
<1>1. /\ r \in RunIds
      /\ GoodRun(runs[r]) /\ GoodFlow(flow[r]) /\ Behind(runs[r].steps, flow[r])
      /\ handler[r] \in Place \ {"none", "dispatch"}
      /\ configured /\ handler[r] = "returned" =>
              \/ runs[r].status \in Terminal
              \/ runs[r].linked /\ flow[r].state # "absent"
      /\ flow[r].at \in Int /\ f.at \in Int
  BY RunFacts DEF GoodFlow, Flow
<1>2. cancelling' \subseteq DOMAIN runs
  BY Zenon DEF IInv
<1>3. DOMAIN flow' = DOMAIN flow /\ flow'[r] = f
      /\ \A q \in RunIds \ {r} : flow'[q] = flow[q]
  BY <1>1, Zenon DEF IInv
<1>4. CASE /\ runs' = [runs EXCEPT ![r] = StepReported(@, name, status)]
           /\ UNCHANGED <<late, faults>>
  <2> DEFINE run == StepReported(runs[r], name, status)
  <2>1. GoodRun(run) /\ run.linked = runs[r].linked
        /\ (runs[r].status \in Terminal => run.status \in Terminal)
    BY <1>1, Reported, Zenon
  <2>2. Behind(run.steps, f)
    <3>1. status \in Finished => f.at > flow[r].at
      BY Zenon DEF Finished
    <3> QED
      BY <1>1, <3>1, ReportBehind, Zenon
  <2>3. Moved(r, run, f, handler[r])
    <3>1. /\ DOMAIN runs' = DOMAIN runs /\ runs'[r] = run
          /\ \A q \in DOMAIN runs \ {r} : runs'[q] = runs[q]
      BY <1>4, Zenon
    <3> HIDE DEF run
    <3> QED
      BY <1>3, <3>1, Zenon DEF Moved
  <2>4. \A t \in late' : Sent(t)
    BY <1>4, Zenon DEF IInv
  <2> HIDE DEF run
  <2> QED
    BY <1>1, <1>2, <2>1, <2>2, <2>3, <2>4, MovedKeeps, Zenon
<1>5. ASSUME runs' = runs, late' \subseteq late \cup {<<r, name, status>>}
      PROVE  IInv'
  <2>1. Moved(r, runs[r], f, handler[r])
    BY <1>3, <1>5, Zenon DEF Moved, IInv
  <2>2. Behind(runs[r].steps, f)
    <3>1. \A i \in 1..Len(FlowSteps) : i \in Int
      BY StepAt
    <3> QED
      BY <1>1, <3>1 DEF Behind
  <2>3. PICK i \in 1..Len(FlowSteps) : i = flow[r].at
    BY Zenon
  <2>4. Sent(<<r, FlowSteps[i], status>>)'
    BY <1>3, <1>5, <2>3, Zenon DEF Sent
  <2>5. \A t \in late' : Sent(t) \/ Sent(t)'
    BY <1>5, <2>3, <2>4, Zenon DEF IInv
  <2> QED
    BY <1>1, <1>2, <2>1, <2>2, <2>5, MovedKeeps, Zenon
<1> QED
  BY <1>4, <1>5, Zenon DEF report

\* A late report is applied.
LEMMA LateKeeps ==
  ASSUME IInv, NEW r, NEW name, NEW status, lateReport(r, name, status)
  PROVE  IInv'
<1>1. PICK i \in 1..Len(FlowSteps) :
        /\ r \in DOMAIN runs /\ name = FlowSteps[i]
        /\ status \in {"running", "succeeded", "failed"}
        /\ status = "succeeded" => flow[r].at > i
  BY Zenon DEF lateReport, IInv, Sent
<1> DEFINE run == StepReported(runs[r], name, status)
<1>2. GoodRun(run) /\ run.linked = runs[r].linked
      /\ (runs[r].status \in Terminal => run.status \in Terminal)
  BY <1>1, RunFacts, Reported
<1>3. Behind(run.steps, flow[r])
  <2>1. status \in Finished => flow[r].at > i
    BY <1>1, Zenon DEF Finished
  <2> QED
    BY <1>1, <2>1, RunFacts, ReportBehind, Zenon
<1>4. Moved(r, run, flow[r], handler[r])
  <2>1. /\ DOMAIN runs' = DOMAIN runs /\ runs'[r] = run
        /\ \A q \in DOMAIN runs \ {r} : runs'[q] = runs[q]
    BY <1>1, Zenon DEF lateReport
  <2> HIDE DEF run
  <2> QED
    BY <2>1, Zenon DEF Moved, lateReport
<1>5. cancelling' \subseteq DOMAIN runs /\ \A t \in late' : Sent(t)
  BY Zenon DEF lateReport, IInv
<1> HIDE DEF run
<1> QED
  BY <1>1, <1>2, <1>3, <1>4, <1>5, RunFacts, MovedKeeps, Zenon

\* A cancellation of a stored run.
LEMMA CancelKeeps ==
  ASSUME IInv, NEW r \in RunIds, cancelRun(r) \/ cancelFlowRun(r)
  PROVE  IInv'
<1>1. CASE cancelRun(r)
  <2> DEFINE run == Cancelled(runs[r])
  <2>0. r \in DOMAIN runs
    BY <1>1, Zenon DEF cancelRun
  <2>1. /\ DOMAIN run = DOMAIN runs[r] /\ run.status = "cancelled"
        /\ run.steps = runs[r].steps
    BY <2>0, RunFacts, Zenon DEF Cancelled, GoodRun
  <2>2. Moved(r, run, flow[r], handler[r])
    <3>1. /\ DOMAIN runs' = DOMAIN runs /\ runs'[r] = run
          /\ \A q \in DOMAIN runs \ {r} : runs'[q] = runs[q]
      BY <1>1, <2>0, Zenon DEF cancelRun
    <3> HIDE DEF run
    <3> QED
      BY <1>1, <3>1, Zenon DEF Moved, cancelRun
  <2>3. cancelling' \subseteq DOMAIN runs /\ \A t \in late' : Sent(t)
    BY <1>1, Zenon DEF cancelRun, IInv
  <2> HIDE DEF run
  <2>4. GoodRun(run) /\ run.status \in Terminal /\ Behind(run.steps, flow[r])
    BY <2>0, <2>1, RunFacts, Zenon DEF GoodRun, Terminal
  <2> QED
    BY <2>0, <2>2, <2>3, <2>4, RunFacts, MovedKeeps, Zenon
<1>2. CASE cancelFlowRun(r)
  <2>0. r \in DOMAIN runs /\ flow[r] \in Flow
    BY <1>2, Zenon DEF cancelFlowRun, IInv, GoodFlow
  <2>1. PICK f \in Flow : /\ f = flow'[r]
                          /\ f.state = flow[r].state /\ f.at = flow[r].at
    <3>1. flow'[r] = flow[r] \/ flow'[r] = [flow[r] EXCEPT !.stop = TRUE]
      BY <1>2, Zenon DEF cancelFlowRun, IInv
    <3> QED
      BY <2>0, <3>1, Zenon DEF Flow
  <2>2. Moved(r, runs[r], f, handler[r])
    BY <1>2, <2>0, <2>1, Zenon DEF Moved, cancelFlowRun, IInv
  <2>3. cancelling' \subseteq DOMAIN runs /\ \A t \in late' : Sent(t)
    BY <1>2, Zenon DEF cancelFlowRun, IInv
  <2>4. GoodFlow(f) /\ Behind(runs[r].steps, f)
    BY <2>0, <2>1, RunFacts, Zenon DEF GoodFlow, Behind
  <2> QED
    BY <2>0, <2>1, <2>2, <2>3, <2>4, RunFacts, MovedKeeps, Zenon
<1> QED
  BY <1>1, <1>2, Zenon

\* CreateFlowRun on a run that has none.
LEMMA CreatedFlow ==
  ASSUME IInv, NEW r \in DOMAIN runs, handler[r] = "dispatch", flowCreated(r)
  PROVE  \E f : /\ f = flow'[r] /\ DOMAIN flow' = DOMAIN flow
                /\ \A q \in RunIds \ {r} : flow'[q] = flow[q]
                /\ GoodFlow(f) /\ f.at >= flow[r].at /\ f.state # "absent"
                /\ Behind(runs[r].steps, f)
<1>1. r \in RunIds /\ flow[r] \in Flow /\ flow[r].state = "absent" /\ flow[r].at = 1
  BY RunFacts, Zenon DEF GoodFlow
<1>2. PICK f \in Flow : /\ f = flow'[r]
                        /\ f.state = "scheduled" /\ f.at = flow[r].at
  BY <1>1 DEF flowCreated, IInv, Flow
<1>3. DOMAIN flow' = DOMAIN flow /\ \A q \in RunIds \ {r} : flow'[q] = flow[q]
  BY Zenon DEF flowCreated, IInv
<1>4. GoodFlow(f)
  BY <1>1, <1>2, StepAt DEF GoodFlow
<1>5. Behind(runs[r].steps, f)
  BY <1>2, RunFacts, Zenon DEF Behind
<1> QED
  BY <1>1, <1>2, <1>3, <1>4, <1>5

\* dispatchPipeline preserves the invariant wherever it returns.
LEMMA DispatchKeeps ==
  ASSUME IInv, NEW r \in RunIds, dispatch(r)
  PROVE  IInv'
<1>1. r \in DOMAIN runs
  BY Exists, Zenon DEF dispatch, notConfigured, createFlowRun, createFailed, setRunEngine
<1>2. cancelling' \subseteq DOMAIN runs /\ \A t \in late' : Sent(t)
  BY Zenon DEF dispatch, notConfigured, createFlowRun, createFailed, setRunEngine, IInv
<1>3. CASE notConfigured(r)
  <2>1. Moved(r, runs[r], flow[r], "returned")
    BY <1>3, Zenon DEF notConfigured, Moved, IInv
  <2> QED
    BY <1>1, <1>2, <1>3, <2>1, RunFacts, MovedKeeps, Zenon DEF notConfigured, Place
<1>4. CASE createFlowRun(r)
  <2>1. PICK f : /\ f = flow'[r] /\ DOMAIN flow' = DOMAIN flow
                 /\ \A q \in RunIds \ {r} : flow'[q] = flow[q]
                 /\ GoodFlow(f) /\ f.at >= flow[r].at /\ f.state # "absent"
                 /\ Behind(runs[r].steps, f)
    BY <1>1, <1>4, CreatedFlow, Zenon DEF createFlowRun
  <2>2. Moved(r, runs[r], f, "link")
    BY <1>4, <2>1, Zenon DEF createFlowRun, Moved, IInv
  <2> QED
    BY <1>1, <1>2, <2>1, <2>2, RunFacts, MovedKeeps, Zenon DEF Place
<1>5. CASE createFailed(r)
  <2> DEFINE run == StepReported(runs[r], "submit-to-engine", "failed")
  <2>1. PICK f : /\ f = flow'[r] /\ DOMAIN flow' = DOMAIN flow
                 /\ \A q \in RunIds \ {r} : flow'[q] = flow[q]
                 /\ GoodFlow(f) /\ f.at >= flow[r].at
                 /\ Behind(runs[r].steps, f)
    <3>1. CASE flow' = flow
      BY <1>1, <3>1, RunFacts, Zenon
    <3>2. CASE flowCreated(r)
      BY <1>1, <1>5, <3>2, CreatedFlow, Zenon DEF createFailed
    <3> QED
      BY <1>5, <3>1, <3>2, Zenon DEF createFailed
  <2>2. GoodRun(run) /\ run.status \in Terminal
    BY <1>1, RunFacts, Reported, Zenon
  <2>3. Behind(run.steps, f)
    <3> SUFFICES ASSUME NEW i \in 1..Len(FlowSteps),
                        run.steps[FlowSteps[i]].status \in Finished
                 PROVE  f.at > i
      BY Zenon DEF Behind
    <3>1. FlowSteps[i] \in DOMAIN runs[r].steps
      BY <1>1, StepAt, RunFacts, Zenon DEF GoodRun
    <3>2. runs[r].steps[FlowSteps[i]].status \in Finished
      <4>1. "failed" \notin Finished
        BY Zenon DEF Finished
      <4> QED
        BY <1>1, <3>1, <4>1, RunFacts, Reported, Zenon
    <3> QED
      BY <2>1, <3>2, Zenon DEF Behind
  <2>4. Moved(r, run, f, "returned")
    <3>1. /\ DOMAIN runs' = DOMAIN runs /\ runs'[r] = run
          /\ \A q \in DOMAIN runs \ {r} : runs'[q] = runs[q]
      BY <1>1, <1>5, Zenon DEF createFailed
    <3>2. /\ DOMAIN handler' = DOMAIN handler /\ handler'[r] = "returned"
          /\ \A q \in RunIds \ {r} : handler'[q] = handler[q]
          /\ configured' = configured
      BY <1>1, <1>5, Zenon DEF createFailed, IInv
    <3> HIDE DEF run
    <3> QED
      BY <2>1, <3>1, <3>2, Zenon DEF Moved
  <2> HIDE DEF run
  <2> QED
    BY <1>1, <1>2, <2>1, <2>2, <2>3, <2>4, MovedKeeps, Zenon DEF Place
<1>6. CASE setRunEngine(r)
  <2>1. PICK run : /\ run = runs'[r] /\ DOMAIN run = DOMAIN runs[r]
                   /\ run.linked = TRUE /\ run.steps = runs[r].steps
                   /\ run.status = runs[r].status
    BY <1>1, <1>6, RunFacts DEF setRunEngine, GoodRun
  <2>2. Moved(r, run, flow[r], "returned")
    BY <1>1, <1>6, <2>1, Zenon DEF setRunEngine, Moved, IInv
  <2>3. GoodRun(run) /\ Behind(run.steps, flow[r]) /\ flow[r].state # "absent"
    BY <1>1, <1>6, <2>1, RunFacts, Zenon DEF GoodRun, setRunEngine
  <2> QED
    BY <1>1, <1>2, <2>1, <2>2, <2>3, RunFacts, MovedKeeps, Zenon DEF Place
<1> QED
  BY <1>3, <1>4, <1>5, <1>6, Zenon DEF dispatch

\* The flow reports, works, ends and is stopped.
LEMMA FlowStepKeeps ==
  ASSUME IInv, NEW r \in RunIds, flowStep(r)
  PROVE  IInv'
<1>1. /\ r \in DOMAIN runs /\ flow[r].state # "absent"
      /\ flow[r].state \in {"scheduled", "executing"}
  <2>1. flow[r].state \in {"scheduled", "executing"}
    BY Zenon DEF flowStep, startFlow, reportRunning, work, reportSucceeded,
           reportFailed, stopFlow, Alive, executing
  <2> QED
    BY <2>1, Exists, Zenon
<1>2. flow[r] \in Flow /\ flow[r].at \in 1..Len(FlowSteps) /\ GoodFlow(flow[r])
  BY <1>1, RunFacts, StepAt DEF GoodFlow, Flow
<1>3. cancelling \subseteq DOMAIN runs /\ \A t \in late : Sent(t)
  BY Zenon DEF IInv
<1>4. ASSUME NEW f, GoodFlow(f), f.at = flow[r].at, f.state # "absent",
             flow' = [flow EXCEPT ![r] = f],
             UNCHANGED <<configured, runs, handler, cancelling, late, faults>>
      PROVE  IInv'
  <2>1. Moved(r, runs[r], f, handler[r])
    BY <1>4, Zenon DEF Moved, IInv
  <2>2. Behind(runs[r].steps, f)
    BY <1>1, <1>4, RunFacts, Zenon DEF Behind
  <2>3. handler[r] # "dispatch"
    BY <1>1, RunFacts, Zenon
  <2> QED
    BY <1>1, <1>3, <1>4, <2>1, <2>2, <2>3, RunFacts, MovedKeeps, Zenon
<1>5. CASE startFlow(r)
  <2> DEFINE f == [flow[r] EXCEPT !.state = "executing"]
  <2>1. GoodFlow(f) /\ f.at = flow[r].at /\ f.state # "absent"
    BY <1>2, StepAt DEF GoodFlow, Flow
  <2>2. flow' = [flow EXCEPT ![r] = f]
    BY <1>5, Zenon DEF startFlow
  <2> HIDE DEF f
  <2> QED
    BY <1>4, <1>5, <2>1, <2>2, Zenon DEF startFlow
<1>6. CASE work(r)
  <2>1. PICK next \in {"report-succeeded", "report-failed"} :
          flow' = [flow EXCEPT ![r] = [@ EXCEPT !.next = next]]
    BY <1>6, Zenon DEF work
  <2> DEFINE f == [flow[r] EXCEPT !.next = next]
  <2>2. GoodFlow(f) /\ f.at = flow[r].at /\ f.state # "absent"
    BY <1>1, <1>2, Zenon DEF GoodFlow, Flow
  <2>3. flow' = [flow EXCEPT ![r] = f]
    BY <2>1, Zenon
  <2> HIDE DEF f
  <2> QED
    BY <1>4, <1>6, <2>2, <2>3, Zenon DEF work
<1>7. CASE stopFlow(r)
  <2> DEFINE f == [flow[r] EXCEPT !.state = "cancelled"]
  <2>1. GoodFlow(f) /\ f.at = flow[r].at /\ f.state # "absent"
    BY <1>2, StepAt DEF GoodFlow, Flow
  <2>2. flow' = [flow EXCEPT ![r] = f]
    BY <1>7, Zenon DEF stopFlow
  <2> HIDE DEF f
  <2> QED
    BY <1>4, <1>7, <2>1, <2>2, Zenon DEF stopFlow
<1>8. CASE reportRunning(r)
  <2> DEFINE f == [flow[r] EXCEPT !.next = "work"]
  <2>1. GoodFlow(f) /\ f.at >= flow[r].at /\ f.state # "absent"
    BY <1>1, <1>2 DEF GoodFlow, Flow
  <2>2. /\ flow' = [flow EXCEPT ![r] = f] /\ report(r, "running")
        /\ UNCHANGED <<configured, handler, cancelling>>
    BY <1>8, Zenon DEF reportRunning
  <2> HIDE DEF f
  <2> QED
    BY <1>1, <1>2, <2>1, <2>2, ReportKeeps, Zenon
<1>9. CASE reportFailed(r)
  <2> DEFINE f == [flow[r] EXCEPT !.state = "failed"]
  <2>1. GoodFlow(f) /\ f.at >= flow[r].at /\ f.state # "absent"
    BY <1>1, <1>2, StepAt DEF GoodFlow, Flow
  <2>2. /\ flow' = [flow EXCEPT ![r] = f] /\ report(r, "failed")
        /\ UNCHANGED <<configured, handler, cancelling>>
    BY <1>9, Zenon DEF reportFailed
  <2> HIDE DEF f
  <2> QED
    BY <1>1, <1>2, <2>1, <2>2, ReportKeeps, Zenon
<1>10. CASE reportSucceeded(r)
  <2> DEFINE f == [flow[r] EXCEPT
                     !.at = @ + 1, !.next = "report-running",
                     !.state = IF flow[r].at = Len(FlowSteps)
                               THEN "completed" ELSE @]
  <2>1. /\ f \in Flow /\ f.at = flow[r].at + 1
        /\ f.state = IF flow[r].at = Len(FlowSteps)
                     THEN "completed" ELSE flow[r].state
    <3>1. PICK old, a, st :
            /\ old \in Flow /\ old = flow[r] /\ a = flow[r].at + 1
            /\ st = IF flow[r].at = Len(FlowSteps)
                    THEN "completed" ELSE flow[r].state
      BY <1>2, Zenon
    <3>2. a \in 1..Len(FlowSteps) + 1
      BY <1>2, <3>1, StepAt
    <3>3. st \in {"absent", "scheduled", "executing", "completed", "failed",
                  "cancelled"}
      BY <1>1, <3>1, Zenon
    <3>4. f = [old EXCEPT !.at = a, !.next = "report-running", !.state = st]
      BY <3>1, Zenon
    <3> HIDE DEF f
    <3> QED
      BY <3>1, <3>2, <3>3, <3>4, Zenon DEF Flow
  <2>2. /\ flow' = [flow EXCEPT ![r] = f] /\ report(r, "succeeded")
        /\ UNCHANGED <<configured, handler, cancelling>>
    BY <1>10, Zenon DEF reportSucceeded
  <2> HIDE DEF f
  <2>3. GoodFlow(f) /\ f.at > flow[r].at /\ f.at >= flow[r].at /\ f.state # "absent"
    BY <1>1, <1>2, <2>1, StepAt DEF GoodFlow
  <2> QED
    BY <1>1, <1>2, <2>2, <2>3, ReportKeeps, Zenon
<1> QED
  BY <1>5, <1>6, <1>7, <1>8, <1>9, <1>10, Zenon DEF flowStep

\* A restart loses handlers and nothing else.
LEMMA RestartKeeps == IInv /\ gatewayStops => IInv'
<1> SUFFICES ASSUME IInv, gatewayStops PROVE IInv'
  BY Zenon
<1>1. /\ DOMAIN handler' = RunIds
      /\ \A q \in RunIds : handler'[q] = IF handler[q] \in {"dispatch", "link"}
                                         THEN "lost" ELSE handler[q]
      /\ cancelling' = {} /\ UNCHANGED <<configured, runs, flow, late>>
  BY Zenon DEF gatewayStops
<1>2. \A q \in RunIds : Dispatched(q)'
  BY <1>1, Zenon DEF IInv, Dispatched, Place
<1> QED
  BY <1>1, <1>2 DEF IInv, Sent

\* No run exists at first.
LEMMA InitIInv == Init => IInv
<1> SUFFICES ASSUME Init PROVE IInv
  BY Zenon
<1>1. GoodFlow(NoFlow) /\ NoFlow.state = "absent"
  BY StepAt DEF NoFlow, GoodFlow, Flow
<1> QED
  BY <1>1 DEF Init, IInv, Dispatched, Place

\* Every step of a user, a handler, a flow or the network preserves the
\* invariant.
LEMMA NextIInv == IInv /\ [Next]_vars => IInv'
<1> SUFFICES ASSUME IInv, [Next]_vars PROVE IInv'
  BY Zenon
<1>1. ASSUME NEW r \in RunIds, submitPipeline(r) PROVE IInv'
  <2>1. defaultSteps(TemplateSteps, "pending")
          = [n \in TemplateSteps |-> PendingStep]
    BY Zenon DEF defaultSteps, PendingStep
  <2> QED
    BY <1>1, <2>1, AcceptKeeps, Zenon DEF submitPipeline
<1>2. ASSUME NEW r \in RunIds, NEW new \in RunIds, retryRun(r, new) PROVE IInv'
  <2>1. TemplateSteps \subseteq DOMAIN runs[r].steps
    BY <1>2, RunFacts, Zenon DEF retryRun, GoodRun
  <2>2. PICK S, steps : S = DOMAIN runs[r].steps /\ steps = resetSteps(runs[r].steps)
    BY Zenon
  <2>3. accept(new, steps)
    BY <1>2, <2>2, Zenon DEF retryRun, accept
  <2> QED
    BY <2>1, <2>2, <2>3, AcceptKeeps, Zenon DEF resetSteps
<1>3. CASE UNCHANGED vars
  BY <1>3 DEF vars, IInv, Dispatched, Sent
<1> QED
  BY <1>1, <1>2, <1>3, CancelKeeps, DispatchKeeps, FlowStepKeeps, LateKeeps,
     RestartKeeps, Zenon
  DEF Next

\* The invariant holds of every behaviour.
THEOREM Invariance == Spec => []IInv
BY InitIInv, NextIInv, PTL DEF Spec

-----------------------------------------------------------------------------

\* A run reads "succeeded" only after its flow finished its last step.
THEOREM SuccessIsReal == Spec => []SucceededMeansCompleted
<1>1. IInv => SucceededMeansCompleted
  <2> SUFFICES ASSUME IInv, NEW r \in DOMAIN runs, runs[r].status = "succeeded"
               PROVE  flow[r].state = "completed"
    BY Zenon DEF SucceededMeansCompleted
  <2> DEFINE n == Len(FlowSteps)
  <2>1. n \in 1..n /\ FlowSteps[n] \in TemplateSteps
    BY StepAt
  <2>2. runs[r].steps[FlowSteps[n]].status \in Finished
    BY <2>1, RunFacts, Zenon DEF GoodRun, AllFinished
  <2>3. flow[r].at > n
    BY <2>1, <2>2, RunFacts, Zenon DEF Behind
  <2> QED
    BY <2>3, RunFacts, Zenon DEF GoodFlow
<1> QED
  BY <1>1, Invariance, PTL

\* A dispatch that returned without a flow run left a terminal run.
THEOREM Closed == Spec => []FailClosed
<1>1. IInv => FailClosed
  <2> SUFFICES ASSUME IInv, configured, NEW r \in DOMAIN runs,
                      handler[r] = "returned", flow[r].state = "absent"
               PROVE  runs[r].status \in Terminal
    BY Zenon DEF FailClosed
  <2> QED
    BY RunFacts, Zenon
<1> QED
  BY <1>1, Invariance, PTL

\* After the handler returned, a live flow run of a live run can be
\* cancelled.
THEOREM Linked == Spec => []LinkedWhenDispatched
<1>1. IInv => LinkedWhenDispatched
  <2> SUFFICES ASSUME IInv, configured, NEW r \in DOMAIN runs,
                      handler[r] = "returned", runs[r].status \notin Terminal
               PROVE  runs[r].linked
    BY Zenon DEF LinkedWhenDispatched
  <2> QED
    BY RunFacts, Zenon
<1> QED
  BY <1>1, Invariance, PTL

=============================================================================
