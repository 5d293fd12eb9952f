----------------------- MODULE PlatformOverlapProofs ------------------------
(***************************************************************************)
(* What overlapping requests may break and what they may not, for any      *)
(* number of handlers, resources, versions, faults and restarts: no view   *)
(* reports a count that the online store has not seen, whatever happens;   *)
(* feature views keep their materialization, and registry and Docker       *)
(* agree, for every name whose requests did not overlap and met no failed  *)
(* call.                                                                   *)
(***************************************************************************)
EXTENDS PlatformProofs

-----------------------------------------------------------------------------
(* The online store *)

Seen(n) == online[n] \cup lost[n]

\* A count was reported when the online store had seen all entities.
Counts(r) ==
  r # Absent /\ r.kind = "feature_view" =>
    r.count = 0 \/ (r.count = Cardinality(Entities) /\ Entities \subseteq Seen(r.name))

OnlineInv ==
  /\ online \in [Names -> SUBSET Entities] /\ lost \in [Names -> SUBSET Entities]
  /\ \A i \in Ids : Counts(rows[i]) /\ Counts(disk.rows[i])
  /\ \A h \in Handlers :
       /\ Named(job[h], {"Write"}) => Counts(job[h].value)
       /\ Named(job[h], {"Put"}) => Entities \subseteq Seen(job[h].name) \cup job[h].left
       /\ Named(job[h], {"Snapshot", "Report"}) => Entities \subseteq Seen(job[h].name)

\* What is in the online store, in the job and in the counts of the views.
THEOREM OnlineInvariant == Spec => []OnlineInv
\* The step after a write is of a job that has put nothing yet.
<1>FollowsOnline.
  ASSUME NEW i \in Ids, NEW value \in Row, NEW step, Follows(step, i, value)
  PROVE  /\ ~Named(step, {"Write"}) /\ ~Named(step, {"Snapshot", "Report"})
         /\ Named(step, {"Put"}) => step.left = Entities
  BY <1>FollowsOnline, FollowsShape DEF AfterWrite, Named
\* A count that a method stores is the count of the view, or comes from the job
\* that has put all entities.
<1>SaveOnline.
  ASSUME IInv, OnlineInv, NEW h \in Handlers, NEW n, NEW i, NEW value, NEW step, Saves(h, n, i, value, step),
         UNCHANGED <<online, lost>>
  PROVE  OnlineInv'
  <2> USE <1>SaveOnline
  <2>1. /\ i \in Ids /\ value \in Row /\ value # Absent /\ value.name = n /\ (rows[i] # Absent => Same(rows[i], value))
        /\ Follows(step, i, value) /\ Views(h, i, value) /\ (Idle(h) \/ job[h].name = n)
    BY SaveRows DEF Saves, Saved
  <2>2. Counts(value)
    <3>1. Counts(rows[i])
      BY <2>1, Zenon DEF OnlineInv
    <3>2. Named(job[h], {"Report"}) => Entities \subseteq Seen(n)
      BY <2>1, Zenon DEF OnlineInv, Named, Idle
    <3> QED BY <2>1, <3>1, <3>2, Zenon DEF Counts, Views, Same
  <2>3. \A r : Counts(r)' <=> Counts(r)
    BY Zenon DEF Counts, Seen
  <2>4. \A m : Seen(m)' = Seen(m)
    BY Zenon DEF Seen
  <2>5. CASE repository = "file"
    <3>1. /\ rows'[i] = value /\ (\A k \in Ids \ {i} : rows'[k] = rows[k])
          /\ disk'.rows = rows' \/ disk' = disk
      BY <2>5, SaveRows
    <3>2. Goto(h, step) \/ Goto(h, Absent)
      BY <2>5, Zenon DEF Saves, Save
    <3>3. job'[h] \in {step, Absent} /\ \A g \in Handlers \ {h} : job'[g] = job[g]
      BY <3>2, Zenon DEF Goto, IInv, JobsInv
    <3>4. \A k \in Ids : Counts(rows'[k]) /\ Counts(disk'.rows[k])
      BY <2>2, <3>1, Zenon DEF OnlineInv
    <3>5. /\ ~Named(job'[h], {"Write"}) /\ ~Named(job'[h], {"Snapshot", "Report"})
          /\ Named(job'[h], {"Put"}) => job'[h].left = Entities
      BY <2>1, <3>3, <1>FollowsOnline, NoJob, Zenon
    <3>6. \A k \in Ids : Counts(rows[k])' /\ Counts(disk.rows[k])'
      BY <3>4, Zenon DEF Counts, Seen
    <3>7. \A g \in Handlers :
            /\ Named(job'[g], {"Write"}) => Counts(job'[g].value)
            /\ Named(job'[g], {"Put"}) => Entities \subseteq Seen(job'[g].name) \cup job'[g].left
            /\ Named(job'[g], {"Snapshot", "Report"}) => Entities \subseteq Seen(job'[g].name)
      BY <3>3, <3>5, Zenon DEF OnlineInv
    <3> QED BY <3>6, <3>7, Zenon DEF OnlineInv, Counts, Seen
  <2>6. CASE repository = "postgres"
    <3>1. PICK j : j = [at |-> "Write", name |-> n, id |-> i, value |-> value, then |-> step]
      BY ZenonT(30)
    <3>2. j.at = "Write" /\ j.value = value
      BY <3>1, Zenon
    <3>3. rows' = rows /\ disk' = disk /\ job'[h] = j /\ \A g \in Handlers \ {h} : job'[g] = job[g]
      BY <2>6, <3>1, SaveRows DEF IInv, JobsInv
    <3>4. \A g \in Handlers :
            /\ Named(job'[g], {"Write"}) => Counts(job'[g].value)
            /\ Named(job'[g], {"Put"}) => Entities \subseteq Seen(job'[g].name) \cup job'[g].left
            /\ Named(job'[g], {"Snapshot", "Report"}) => Entities \subseteq Seen(job'[g].name)
      BY <2>2, <3>2, <3>3, Zenon DEF OnlineInv, Named
    <3> QED BY <3>3, <3>4, Zenon DEF OnlineInv, Counts, Seen
  <2> QED BY <2>5, <2>6, Zenon DEF Saves, Save
\* A step that leaves the online store alone, with the rows and the next job that
\* it may have.
<1>QuietOnline.
  ASSUME IInv, OnlineInv, NEW h \in Handlers, UNCHANGED <<online, lost>>,
         \A k \in Ids : rows'[k] = rows[k] \/ (Named(job[h], {"Write"}) /\ rows'[k] = job[h].value),
         disk'.rows \in {disk.rows, rows}, NEW j, Goto(h, j), ~Named(j, {"Write"}),
         Named(j, {"Put"}) => Entities \subseteq Seen(j.name) \cup j.left,
         Named(j, {"Snapshot", "Report"}) => Entities \subseteq Seen(j.name)
  PROVE  OnlineInv'
  <2> USE <1>QuietOnline
  <2>1. job'[h] = j /\ \A g \in Handlers \ {h} : job'[g] = job[g]
    BY Zenon DEF Goto, IInv, JobsInv
  <2>2. \A k \in Ids : Counts(rows'[k]) /\ Counts(disk'.rows[k])
    BY Zenon DEF OnlineInv
  <2>3. \A g \in Handlers :
          /\ Named(job'[g], {"Write"}) => Counts(job'[g].value)
          /\ Named(job'[g], {"Put"}) => Entities \subseteq Seen(job'[g].name) \cup job'[g].left
          /\ Named(job'[g], {"Snapshot", "Report"}) => Entities \subseteq Seen(job'[g].name)
    BY <2>1, Zenon DEF OnlineInv
  <2> QED BY <2>2, <2>3, Zenon DEF OnlineInv, Counts, Seen
\* A transaction writes the value that was computed.
<1>WriteOnline.
  ASSUME IInv, OnlineInv, NEW h \in Handlers, write(h), UNCHANGED <<online, lost>>
  PROVE  OnlineInv'
  <2> USE <1>WriteOnline
  <2>1. PICK step : step = job[h].then
    BY Zenon
  <2>2. /\ ~Named(step, {"Write"}) /\ ~Named(step, {"Snapshot", "Report"})
        /\ Named(step, {"Put"}) => step.left = Entities
    BY <2>1, WriteRows, <1>FollowsOnline
  <2>3. \A k \in Ids : rows'[k] = rows[k] \/ (Named(job[h], {"Write"}) /\ rows'[k] = job[h].value)
    BY WriteRows, Zenon
  <2>4. disk'.rows \in {disk.rows, rows} /\ (Goto(h, step) \/ Goto(h, Absent))
    BY <2>1, WriteRows, Zenon
  <2>5. ~Named(Absent, {"Write"}) /\ ~Named(Absent, {"Put"}) /\ ~Named(Absent, {"Snapshot", "Report"})
    BY NoJob, Zenon
  <2> QED BY <2>2, <2>3, <2>4, <2>5, <1>QuietOnline, Zenon
\* A step of another kind.
<1>PlainOnline.
  ASSUME IInv, OnlineInv, NEW h \in Handlers, NEW n, NEW j, Plain(h, n, j), ~Named(j, FeatureAts),
         UNCHANGED <<online, lost>>
  PROVE  OnlineInv'
  <2> USE <1>PlainOnline
  <2>1. ~Named(j, {"Write"}) /\ ~Named(j, {"Put"}) /\ ~Named(j, {"Snapshot", "Report"})
    BY Zenon DEF Plain, Named, FeatureAts
  <2>2. Goto(h, j) /\ rows' = rows /\ disk'.rows \in {disk.rows, rows}
    BY Zenon DEF Plain, Moves
  <2> QED BY <2>1, <2>2, <1>QuietOnline, Zenon
\* The feature gateway has an entity, or has lost it, and then the job goes on.
<1>PutOnline.
  ASSUME IInv, OnlineInv, NEW h \in Handlers, Put(h)
  PROVE  OnlineInv'
  <2> USE <1>PutOnline
  <2>1. PICK e \in Entities :
          /\ At(h, "Put") /\ e \in job[h].left /\ Call(h)
          /\ \/ /\ Goto(h, IF job[h].left = {e} THEN [at |-> "Snapshot", name |-> job[h].name]
                           ELSE [job[h] EXCEPT !.left = @ \ {e}])
                /\ \/ online' = [online EXCEPT ![job[h].name] = @ \cup {e}] /\ UNCHANGED lost
                   \/ lost' = [lost EXCEPT ![job[h].name] = @ \cup {e}] /\ UNCHANGED online
             \/ Goto(h, Absent) /\ UNCHANGED <<online, lost>>
    BY Zenon DEF Put
  <2>2. PICK n, left, done, more :
          /\ n = job[h].name /\ left = job[h].left
          /\ done = [at |-> "Snapshot", name |-> n] /\ more = [job[h] EXCEPT !.left = @ \ {e}]
    BY Zenon
  <2>3. job[h] # Absent /\ job[h].at = "Put" /\ n \in Names /\ Entities \subseteq Seen(n) \cup left
    BY <2>1, <2>2, JobName, Zenon DEF At, Idle, OnlineInv, Named
  <2>4. done.at = "Snapshot" /\ done.name = n
    BY <2>2, Zenon
  <2>5. more.at = "Put" /\ more.name = n /\ more.left = left \ {e}
    <3>1. job[h] = [at |-> job[h].at, name |-> job[h].name, left |-> job[h].left]
      BY <2>3, Zenon DEF Named, IInv, JobsInv, JobInv, Shape
    <3> QED BY <2>2, <2>3, <3>1, Zenon
  <2>6. UNCHANGED <<rows, disk>>
    BY <2>1, Zenon DEF Call
  <2>7. CASE Goto(h, Absent) /\ UNCHANGED <<online, lost>>
    <3>1. ~Named(Absent, {"Write"}) /\ ~Named(Absent, {"Put"}) /\ ~Named(Absent, {"Snapshot", "Report"})
      BY NoJob, Zenon
    <3> QED BY <2>6, <2>7, <3>1, <1>QuietOnline, Zenon
  <2>8. ASSUME NEW j, Goto(h, j), j = IF left = {e} THEN done ELSE more,
               \/ online' = [online EXCEPT ![n] = @ \cup {e}] /\ UNCHANGED lost
               \/ lost' = [lost EXCEPT ![n] = @ \cup {e}] /\ UNCHANGED online
        PROVE  OnlineInv'
    <3>1. online' \in [Names -> SUBSET Entities] /\ lost' \in [Names -> SUBSET Entities]
      BY <2>3, <2>8, ZenonT(30) DEF OnlineInv
    <3>2. \A m \in Names : Seen(m) \subseteq online'[m] \cup lost'[m]
      BY <2>3, <2>8, Zenon DEF OnlineInv, Seen
    <3>3. e \in online'[n] \cup lost'[n]
      BY <2>3, <2>8, Zenon DEF OnlineInv
    <3>4. \A r \in Row : Counts(r) => Counts(r)'
      BY <3>2, RowName, Zenon DEF Counts, Seen
    <3>5. \A k \in Ids : Counts(rows[k])' /\ Counts(disk.rows[k])'
      <4>1. \A k \in Ids : rows[k] \in Row \cup {Absent} /\ disk.rows[k] \in Row \cup {Absent}
        BY Zenon DEF IInv, Table
      <4>2. Counts(Absent)'
        BY Zenon DEF Counts
      <4> QED BY <2>6, <3>4, <4>1, <4>2, Zenon DEF OnlineInv, Counts, Seen
    <3>6. job'[h] = j /\ \A g \in Handlers \ {h} : job'[g] = job[g]
      BY <2>8, Zenon DEF Goto, IInv, JobsInv
    <3>7. Entities \subseteq online'[n] \cup lost'[n] \cup (left \ {e})
      BY <2>3, <3>2, <3>3, Zenon
    <3>8. ~Named(j, {"Write"}) /\ (j # Absent => j.name = n)
          /\ (Named(j, {"Put"}) => Entities \subseteq online'[j.name] \cup lost'[j.name] \cup j.left)
          /\ (Named(j, {"Snapshot", "Report"}) => Entities \subseteq online'[j.name] \cup lost'[j.name])
      BY <2>4, <2>5, <2>8, <3>7, Zenon DEF Named
    <3>9. \A g \in Handlers \ {h} :
            /\ Named(job[g], {"Write"}) => Counts(job[g].value)'
            /\ Named(job[g], {"Put"}) => Entities \subseteq online'[job[g].name] \cup lost'[job[g].name] \cup job[g].left
            /\ Named(job[g], {"Snapshot", "Report"}) => Entities \subseteq online'[job[g].name] \cup lost'[job[g].name]
      <4> TAKE g \in Handlers \ {h}
      <4>1. job[g] # Absent => job[g].name \in Names
        BY JobName, Zenon DEF Idle
      <4>2. ASSUME Named(job[g], {"Write"}) PROVE Counts(job[g].value)'
        <5>1. PICK v : v = job[g].value
          BY Zenon
        <5>2. v \in Row /\ Counts(v)
          BY <4>2, <5>1, Zenon DEF IInv, JobsInv, JobInv, Writing, OnlineInv
        <5>3. Counts(v)'
          BY <3>4, <5>2, Zenon
        <5>4. job'[g] = job[g]
          BY <3>6, Zenon
        <5> QED BY <5>1, <5>3, <5>4, Zenon DEF Counts, Seen
      <4> QED BY <3>2, <4>1, <4>2, Zenon DEF OnlineInv, Named, Seen
    <3> QED BY <3>1, <3>5, <3>6, <3>8, <3>9, ZenonT(30) DEF OnlineInv, Counts, Seen
  <2> QED BY <2>1, <2>2, <2>7, <2>8, Zenon
\* The job reports once the snapshot is written.
<1>SnapshotOnline.
  ASSUME IInv, OnlineInv, NEW h \in Handlers, write_offline_snapshot(h)
  PROVE  OnlineInv'
  <2> USE <1>SnapshotOnline
  <2>1. /\ At(h, "Snapshot") /\ UNCHANGED <<rows, disk, online, lost>>
        /\ Goto(h, [job[h] EXCEPT !.at = "Report"]) \/ Goto(h, Absent)
    BY Zenon DEF write_offline_snapshot, NoFeature, Call
  <2>2. PICK j : j = [job[h] EXCEPT !.at = "Report"]
    BY Zenon
  <2>3. j.at = "Report" /\ j.name = job[h].name /\ Entities \subseteq Seen(job[h].name)
    <3>1. job[h] = [at |-> job[h].at, name |-> job[h].name]
      BY <2>1, Zenon DEF At, Idle, Named, IInv, JobsInv, JobInv, Shape
    <3> QED BY <2>1, <2>2, <3>1, Zenon DEF OnlineInv, Named, At, Idle
  <2>4. ~Named(j, {"Write"}) /\ ~Named(j, {"Put"})
    BY <2>3, Zenon DEF Named
  <2>5. ~Named(Absent, {"Write"}) /\ ~Named(Absent, {"Put"}) /\ ~Named(Absent, {"Snapshot", "Report"})
    BY NoJob, Zenon
  <2> QED BY <2>1, <2>2, <2>3, <2>4, <2>5, <1>QuietOnline, Zenon
\* A restart goes back to counts that were reported before.
<1>RestartOnline.
  ASSUME IInv, OnlineInv, restart, UNCHANGED <<online, lost>>
  PROVE  OnlineInv'
  <2> USE <1>RestartOnline
  <2>1. \A h \in Handlers : job'[h] = Absent \/ job'[h] = job[h]
    BY Zenon DEF restart
  <2>2. \A k \in Ids : Counts(rows'[k]) /\ Counts(disk'.rows[k])
    BY Zenon DEF OnlineInv, restart
  <2>3. \A g \in Handlers :
          /\ Named(job'[g], {"Write"}) => Counts(job'[g].value)
          /\ Named(job'[g], {"Put"}) => Entities \subseteq Seen(job'[g].name) \cup job'[g].left
          /\ Named(job'[g], {"Snapshot", "Report"}) => Entities \subseteq Seen(job'[g].name)
    BY <2>1, NoJob, Zenon DEF OnlineInv
  <2> QED BY <2>2, <2>3, ZenonT(30) DEF OnlineInv, Counts, Seen
\* The requests leave the online store alone.
<1>RequestOnline.
  ASSUME IInv, OnlineInv, NEW h \in Handlers, Request(h)
  PROVE  OnlineInv'
  <2> USE <1>RequestOnline
  <2>1. UNCHANGED <<online, lost>>
    BY Zenon DEF Request, CatalogRequest, registerTool, RegisterTool, createConnection, CreateConnection, testConnection,
           applyFeatureView, materialize, ApplyFeatureView, NoFeature, AgentRequest, deployAgent, DeployAgent,
           agentTraffic, SetAgentTraffic, invokeAgent, NoTurn
  <2>2. Stores(h) \/ \E n, j : Rests(h, n, j) /\ ~Named(j, FeatureAts)
    BY ModelRequestSaves, CatalogRequestSaves, TestRests, AgentRequestSaves, InvokeRests, Zenon
       DEF Request, AgentRequest, Stores
  <2> QED BY <2>1, <2>2, <1>SaveOnline, <1>PlainOnline, Zenon DEF Stores, Rests
\* The steps of requests, of the feature job and of turns.
<1>ContinueOnline.
  ASSUME IInv, OnlineInv, NEW h \in Handlers, Continue(h)
  PROVE  OnlineInv'
  <2> USE <1>ContinueOnline
  <2>1. CASE write(h) /\ UNCHANGED <<online, lost>>
    BY <2>1, <1>WriteOnline, Zenon
  <2>2. CASE ServingStep(h) /\ UNCHANGED <<online, lost>>
    <3>1. Stores(h) \/ \E n, j : Plain(h, n, j) /\ ~Named(j, FeatureAts)
      BY <2>2, RequestServingPlain, DeployedSaves, DeletePlain, NoJob, Zenon DEF ServingStep, Stores
    <3> QED BY <2>2, <3>1, <1>SaveOnline, <1>PlainOnline, Zenon DEF Stores
  <2>3. CASE Put(h)
    BY <2>3, <1>PutOnline, Zenon
  <2>4. CASE write_offline_snapshot(h)
    BY <2>4, <1>SnapshotOnline, Zenon
  <2>5. CASE UpdateConnectionStatus(h) \/ reportMaterialization(h)
    <3>1. UNCHANGED <<online, lost>>
      BY <2>5, Zenon DEF UpdateConnectionStatus, reportMaterialization, NoFeature
    <3>2. Stores(h) \/ \E n, j : Rests(h, n, j) /\ ~Named(j, FeatureAts)
      BY <2>5, StatusSaves, ReportSaves, NoJob, Zenon DEF Stores
    <3> QED BY <3>1, <3>2, <1>SaveOnline, <1>PlainOnline, Zenon DEF Stores, Rests
  <2>6. CASE AgentStep(h)
    <3>1. UNCHANGED <<online, lost>>
      BY <2>6, Zenon DEF AgentStep, turn, record_trace, ReadSession, WriteSession, NoTurn
    <3>2. \E n, j : Rests(h, n, j) /\ ~Named(j, FeatureAts)
      BY <2>6, TurnRests, RecordRests, ReadRests, WriteSessionRests, NoJob, Zenon DEF AgentStep
    <3> QED BY <3>1, <3>2, <1>PlainOnline, Zenon DEF Rests
  <2> QED BY <2>1, <2>2, <2>3, <2>4, <2>5, <2>6, Zenon DEF Continue, CatalogStep
<1>1. Init => OnlineInv
  <2> SUFFICES ASSUME Init PROVE OnlineInv
    BY Zenon
  <2>1. rows = [i \in Ids |-> Absent] /\ disk.rows = rows /\ job = [h \in Handlers |-> Absent]
    BY Zenon DEF Init, RepositoryInit, Snapshot
  <2>2. online = [n \in Names |-> {}] /\ lost = [n \in Names |-> {}]
    BY Zenon DEF Init, CatalogInit
  <2> QED BY <2>1, <2>2, Zenon DEF OnlineInv, Counts, Named
<1>2. IInv /\ OnlineInv /\ [Next]_vars => OnlineInv'
  <2> SUFFICES ASSUME IInv, OnlineInv, [Next]_vars PROVE OnlineInv'
    BY Zenon
  <2>1. CASE Restart
    BY <2>1, <1>RestartOnline, Zenon DEF Restart
  <2>2. CASE UNCHANGED vars
    BY <2>2, ZenonT(30) DEF vars, catalogVars, modelVars, storeVars, OnlineInv, Counts, Seen
  <2> QED BY <2>1, <2>2, <1>RequestOnline, <1>ContinueOnline, Zenon DEF Next
<1> QED BY <1>1, <1>2, Invariant, PTL DEF Spec

\* ReportMaterialization stores no count that the feature gateway has not seen:
\* not with another job for the same view, a failed write or a restart in between.
THEOREM CountsSeen == Spec => []ReportedIsOnline
<1>1. IInv /\ OnlineInv => ReportedIsOnline
  <2> SUFFICES ASSUME IInv, OnlineInv, NEW i \in Rows("feature_view"), rows[i].count # 0
               PROVE  rows[i].count <= Cardinality(online[rows[i].name] \cup lost[rows[i].name])
    BY Zenon DEF ReportedIsOnline
  <2>1. PICK n, S : n = rows[i].name /\ S = Seen(n)
    BY Zenon
  <2>2. i \in Ids /\ rows[i] # Absent /\ rows[i].kind = "feature_view" /\ n \in Names
    BY <2>1, RowOfKind, RowName, Zenon DEF Rows, HasKind
  <2>3. S \subseteq Entities
    BY <2>1, <2>2, Zenon DEF OnlineInv, Seen
  <2>4. rows[i].count = Cardinality(Entities) /\ Entities \subseteq S
    BY <2>1, <2>2, Zenon DEF OnlineInv, Counts
  <2>5. S = Entities
    BY <2>3, <2>4, Zenon
  <2>6. Cardinality(Entities) \in Nat
    BY PlatformAssumption, Zenon
  <2>7. \A c \in Nat : c <= c
    OBVIOUS
  <2>8. Cardinality(Entities) <= Cardinality(Entities)
    BY <2>6, <2>7, Zenon
  <2> QED BY <2>1, <2>4, <2>5, <2>8, Zenon DEF Seen
<1> QED BY <1>1, Invariant, OnlineInvariant, PTL

-----------------------------------------------------------------------------
(* Feature views *)

\* Requests for one name do not overlap unnoticed.
Alone == \A g, h \in Handlers : g # h /\ ~Idle(g) /\ ~Idle(h) /\ job[g].name = job[h].name => job[h].name \in disturbed

\* A transaction moves its job on.
LEMMA WriteMoves ==
  ASSUME IInv, NEW h \in Handlers, write(h)
  PROVE  \E n, j : Moves(h, n, j)
<1>1. PICK n, j : n = job[h].name /\ j = job[h].then
  BY Zenon
<1>2. /\ ~Idle(h) /\ job[h].id \in Ids /\ job[h].value \in Row /\ job[h].value.name = n
      /\ Follows(j, job[h].id, job[h].value)
  BY <1>1, Zenon DEF IInv, JobsInv, JobInv, Writing, Named, write, At, Idle
<1>3. n \in Names /\ (j # Absent => j.name = n)
  BY <1>2, RowName, FollowsWrite
<1>4. (Goto(h, j) /\ Calm(h, n)) \/ (Goto(h, Absent) /\ Fault(n))
  BY <1>1, Zenon DEF write
<1>5. Moves(h, n, j) \/ Moves(h, n, Absent)
  BY <1>1, <1>3, <1>4, Zenon DEF Moves
<1> QED BY <1>5, Zenon

\* disturbed only grows.
LEMMA DisturbedGrows ==
  ASSUME NEW h, NEW n, NEW j, Moves(h, n, j)
  PROVE  /\ disturbed \subseteq disturbed'
         /\ n \in disturbed' \/ \A g \in Handlers \ {h} : Idle(g) \/ job[g].name # n
BY Zenon DEF Moves, Calm, Fault

\* The file is behind the memory only for names with a failed call.
Behind ==
  repository = "file" => \A i \in Ids :
    \/ disk.rows[i] = rows[i]
    \/ /\ rows[i] # Absent /\ rows[i].name \in disturbed
       /\ disk.rows[i] # Absent => Same(disk.rows[i], rows[i])

\* A view that is materialized stays so in the value about to be written.
StatusInv ==
  \A h \in Handlers :
    Named(job[h], {"Write"}) /\ job[h].name \notin disturbed /\ job[h].value.kind = "feature_view"
    /\ rows[job[h].id] # Absent /\ rows[job[h].id].status = "materialized" => job[h].value.status = "materialized"

CalmInv == Alone /\ Behind /\ StatusInv

\* Overlaps are noticed, the file is behind only where a call failed, and no value
\* about to be written takes a materialization back, but where requests overlapped.
THEOREM CalmInvariant == Spec => []CalmInv
\* Saving a resource is a step for its name.
<1>SaveMoves.
  ASSUME IInv, NEW h \in Handlers, NEW n, NEW i, NEW value, NEW step, Saves(h, n, i, value, step)
  PROVE  \E j : Moves(h, n, j)
  <2> USE <1>SaveMoves
  <2>1. i \in Ids /\ value \in Row /\ value.name = n /\ Follows(step, i, value) /\ (Idle(h) \/ job[h].name = n)
    BY Zenon DEF Saves, Saved
  <2>2. n \in Names /\ (step # Absent => step.name = n)
    BY <2>1, RowName, FollowsWrite
  <2>3. PICK j : j = [at |-> "Write", name |-> n, id |-> i, value |-> value, then |-> step]
    BY Zenon
  <2>4. j.name = n
    BY <2>3, Zenon
  <2>5. (Goto(h, j) \/ Goto(h, step) \/ Goto(h, Absent)) /\ (Calm(h, n) \/ Fault(n))
    BY <2>3, Zenon DEF Saves, Save
  <2>6. Moves(h, n, j) \/ Moves(h, n, step) \/ Moves(h, n, Absent)
    BY <2>1, <2>2, <2>4, <2>5, Zenon DEF Moves
  <2> QED BY <2>6, Zenon
\* Every step of a handler is a step for a name.
<1>HandlerMoves.
  ASSUME IInv, NEW h \in Handlers, Request(h) \/ Continue(h)
  PROVE  \E n, j : Moves(h, n, j)
  BY <1>HandlerMoves, RequestSteps, ContinueSteps, <1>SaveMoves, WriteMoves, Zenon DEF Stores, Pauses, Rests, Plain
\* A step for a name leaves the other jobs alone, and notices them.
<1>MovesAlone.
  ASSUME IInv, Alone, NEW h \in Handlers, NEW n, NEW j, Moves(h, n, j)
  PROVE  Alone'
  <2> USE <1>MovesAlone
  <2>1. job'[h] = j /\ \A g \in Handlers \ {h} : job'[g] = job[g]
    BY Zenon DEF Moves, Goto, IInv, JobsInv
  <2>2. j # Absent => j.name = n
    BY Zenon DEF Moves
  <2> QED BY <2>1, <2>2, DisturbedGrows DEF Alone, Idle
\* Behind is kept by the methods of the file store, and by steps that write the file.
<1>SaveBehind.
  ASSUME IInv, Behind, NEW h \in Handlers, NEW n, NEW i, NEW value, NEW step, Saves(h, n, i, value, step)
  PROVE  Behind'
  <2> USE <1>SaveBehind
  <2>1. disturbed \subseteq disturbed'
    BY <1>SaveMoves, DisturbedGrows, Zenon
  <2>2. CASE repository = "file"
    <3>1. /\ i \in Ids /\ value # Absent /\ value.name = n /\ (rows[i] # Absent => Same(rows[i], value))
          /\ rows'[i] = value /\ (\A k \in Ids \ {i} : rows'[k] = rows[k])
          /\ disk'.rows = rows' \/ (disk' = disk /\ n \in disturbed')
      BY <2>2, SaveRows
    <3>2. CASE disk'.rows = rows'
      BY <3>2, Zenon DEF Behind
    <3>3. CASE disk' = disk /\ n \in disturbed'
      <4>1. disk.rows[i] # Absent => Same(disk.rows[i], value)
        BY <2>2, <3>1, Zenon DEF Behind, Same
      <4> QED BY <2>1, <2>2, <3>1, <3>3, <4>1, Zenon DEF Behind
    <3> QED BY <3>1, <3>2, <3>3, Zenon
  <2>3. CASE repository # "file"
    BY <2>3, SaveRows, Zenon DEF Behind
  <2> QED BY <2>2, <2>3, Zenon
\* The value is computed from the view it replaces.
<1>SaveStatus.
  ASSUME IInv, IInv', StatusInv, NEW h \in Handlers, NEW n, NEW i, NEW value, NEW step, Saves(h, n, i, value, step)
  PROVE  StatusInv'
  <2> USE <1>SaveStatus
  <2>1. disturbed \subseteq disturbed'
    BY <1>SaveMoves, DisturbedGrows, Zenon
  <2>2. CASE repository = "file"
    <3>1. repository' = "file"
      BY <2>2, SaveRows, Zenon
    <3> QED BY <3>1, Zenon DEF IInv, FileInv, StatusInv, Named
  <2>3. CASE repository = "postgres"
    <3>1. PICK j : j = [at |-> "Write", name |-> n, id |-> i, value |-> value, then |-> step]
      BY Zenon
    <3>2. j.id = i /\ j.value = value
      BY <3>1, Zenon
    <3>3. rows' = rows /\ job'[h] = j /\ \A g \in Handlers \ {h} : job'[g] = job[g]
      BY <2>3, <3>1, SaveRows DEF IInv, JobsInv
    <3>4. Views(h, i, value)
      BY Zenon DEF Saves, Saved
    <3> QED BY <2>1, <3>2, <3>3, <3>4, ZenonT(30) DEF StatusInv, Views
  <2> QED BY <2>2, <2>3, Zenon DEF Saves, Save
\* Another handler about to write the view that this one writes is noticed.
<1>WriteStatus.
  ASSUME IInv, StatusInv, NEW h \in Handlers, write(h)
  PROVE  StatusInv'
  <2> USE <1>WriteStatus
  <2>1. disturbed \subseteq disturbed'
    BY WriteMoves, DisturbedGrows, Zenon
  <2>2. PICK i, value, n, step : i = job[h].id /\ value = job[h].value /\ n = job[h].name /\ step = job[h].then
    BY Zenon
  <2>3. i \in Ids /\ value \in Row /\ value.name = n /\ Follows(step, i, value) /\ (rows[i] # Absent => Same(rows[i], value))
    BY <2>2, WriteRows, Zenon
  <2>4. CASE rows' = rows /\ Goto(h, Absent)
    BY <2>1, <2>4, NoJob, Zenon DEF StatusInv, Goto, IInv, JobsInv
  <2>5. CASE rows'[i] = value /\ (\A k \in Ids \ {i} : rows'[k] = rows[k]) /\ Goto(h, step) /\ Calm(h, n)
    <3>1. ~Named(job'[h], {"Write"}) /\ \A g \in Handlers \ {h} : job'[g] = job[g]
      <4>1. ~Named(step, {"Write"})
        BY <2>3, FollowsWrite, Zenon
      <4> QED BY <2>5, <4>1, Zenon DEF Goto, IInv, JobsInv
    <3>2. ASSUME NEW g \in Handlers \ {h}, Named(job[g], {"Write"}), job[g].id = i
          PROVE  job[g].name \in disturbed'
      <4>1. rows[i] # Absent
        BY <2>2, <3>2, WriteRows, Zenon DEF IInv, JobsInv, PairInv
      <4>2. Same(rows[i], job[g].value) /\ job[g].value.name = job[g].name
        BY <3>2, <4>1, Zenon DEF IInv, JobsInv, JobInv, Writing
      <4>3. job[g].name = n
        BY <2>3, <4>1, <4>2, Zenon DEF Same
      <4> QED BY <2>5, <3>2, <4>3, Zenon DEF Calm, Idle, Named
    <3>3. \A g \in Handlers : Named(job[g], {"Write"}) => job[g].id \in Ids
      BY Zenon DEF IInv, JobsInv, JobInv, Writing
    <3> QED BY <2>1, <2>5, <3>1, <3>2, <3>3 DEF StatusInv
  <2> QED BY <2>2, <2>4, <2>5, WriteRows, Zenon
\* The file and the views, at any step of a handler that gives no resource a value.
<1>PlainCalm.
  ASSUME IInv, Behind, StatusInv, NEW h \in Handlers, NEW n, NEW j, Plain(h, n, j)
  PROVE  Behind' /\ StatusInv'
  <2> USE <1>PlainCalm
  <2>1. disturbed \subseteq disturbed'
    BY DisturbedGrows, Zenon DEF Plain
  <2>2. UNCHANGED <<repository, rows>> /\ disk'.rows \in {disk.rows, rows} /\ ~Named(j, {"Write"})
    BY Zenon DEF Plain
  <2>3. job'[h] = j /\ \A g \in Handlers \ {h} : job'[g] = job[g]
    BY Zenon DEF Plain, Moves, Goto, IInv, JobsInv
  <2>4. Behind'
    BY <2>1, <2>2, Zenon DEF Behind
  <2>5. StatusInv'
    BY <2>1, <2>2, <2>3, Zenon DEF StatusInv
  <2> QED BY <2>4, <2>5, Zenon
\* A restart takes the rows of the file, and ends what was about to be written.
<1>RestartCalm.
  ASSUME IInv, CalmInv, restart
  PROVE  CalmInv'
  <2> USE <1>RestartCalm
  <2>1. \A h \in Handlers : job'[h] = Absent \/ (job'[h] = job[h] /\ Outside(h))
    BY Zenon DEF restart
  <2>2. disturbed \subseteq disturbed'
    BY Zenon DEF restart
  <2>3. Alone'
    BY <2>1, <2>2, Zenon DEF CalmInv, Alone, Idle
  <2>4. Behind'
    BY Zenon DEF restart, Behind
  <2>5. StatusInv'
    BY <2>1, Zenon DEF StatusInv, Outside, Named, Idle
  <2> QED BY <2>3, <2>4, <2>5, Zenon DEF CalmInv
\* The steps of handlers.
<1>HandlerCalm.
  ASSUME IInv, IInv', CalmInv, NEW h \in Handlers, Request(h) \/ Continue(h)
  PROVE  CalmInv'
  <2> USE <1>HandlerCalm
  <2>1. Alone'
    BY <1>HandlerMoves, <1>MovesAlone, Zenon DEF CalmInv
  <2>2. CASE Stores(h)
    BY <2>1, <2>2, <1>SaveBehind, <1>SaveStatus, Zenon DEF Stores, CalmInv
  <2>3. CASE write(h)
    <3>1. Behind'
      BY <2>3, WriteRows, Zenon DEF Behind
    <3> QED BY <2>1, <2>3, <3>1, <1>WriteStatus, Zenon DEF CalmInv
  <2>4. CASE \E n, j : Plain(h, n, j)
    BY <2>1, <2>4, <1>PlainCalm, Zenon DEF CalmInv
  <2> QED BY <2>2, <2>3, <2>4, RequestSteps, ContinueSteps, Zenon DEF Pauses, Rests
<1>1. Init => CalmInv
  <2> SUFFICES ASSUME Init PROVE CalmInv
    BY Zenon
  <2>1. job = [h \in Handlers |-> Absent] /\ disk.rows = rows
    BY Zenon DEF Init, RepositoryInit, Snapshot
  <2> QED BY <2>1, Zenon DEF CalmInv, Alone, Idle, Behind, StatusInv, Named
<1>2. IInv /\ IInv' /\ CalmInv /\ [Next]_vars => CalmInv'
  <2> SUFFICES ASSUME IInv, IInv', CalmInv, [Next]_vars PROVE CalmInv'
    BY Zenon
  <2>1. CASE Restart
    BY <2>1, <1>RestartCalm, Zenon DEF Restart
  <2>2. CASE UNCHANGED vars
    BY <2>2, Zenon DEF vars, catalogVars, modelVars, storeVars, CalmInv, Alone, Idle, Behind, StatusInv
  <2> QED BY <2>1, <2>2, <1>HandlerCalm, Zenon DEF Next
<1> QED BY <1>1, <1>2, Invariant, PTL DEF Spec

\* ApplyFeatureView keeps the materialization history: in the file store also over
\* a restart after a failed write, which is of another name or noticed, and in
\* PostgreSQL where the row is written after it was read.
THEOREM HistoryKept == Spec => MaterializationKept
<1> DEFINE Keeps == \A i \in Rows("feature_view") :
             rows[i].status = "materialized" /\ rows[i].name \notin disturbed' => rows'[i].status = "materialized"
<1>1. IInv /\ CalmInv /\ [Next]_vars => [Keeps]_vars
  <2> SUFFICES ASSUME IInv, CalmInv, Next, NEW i \in Rows("feature_view"), rows[i].status = "materialized",
                      rows[i].name \notin disturbed'
               PROVE  rows'[i].status = "materialized"
    BY Zenon
  <2>1. i \in Ids /\ rows[i] # Absent /\ rows[i].kind = "feature_view"
    BY Zenon DEF Rows, HasKind
  <2>2. CASE Restart
    BY <2>1, <2>2, Zenon DEF Restart, restart, CalmInv, Behind
  <2>3. ASSUME NEW h \in Handlers, NEW n, NEW k, NEW value, NEW step, Saves(h, n, k, value, step)
        PROVE  rows'[i].status = "materialized"
    <3>1. Views(h, k, value) /\ repository \in {"file", "postgres"}
      BY <2>3, Zenon DEF Saves, Saved, IInv
    <3>2. rows' = rows \/ (rows'[k] = value /\ (\A l \in Ids \ {k} : rows'[l] = rows[l]))
      BY <2>3, <3>1, SaveRows
    <3>3. k = i => Same(rows[i], value)
      BY <2>1, <2>3, SaveRows
    <3> QED BY <2>1, <3>1, <3>2, <3>3, Zenon DEF Views, Same
  <2>4. ASSUME NEW h \in Handlers, write(h) PROVE rows'[i].status = "materialized"
    <3>1. disturbed \subseteq disturbed'
      BY <2>4, WriteMoves, DisturbedGrows, Zenon
    <3>2. CASE job[h].id = i
      <4>1. job[h].value.kind = "feature_view" /\ job[h].name = rows[i].name /\ Named(job[h], {"Write"})
        BY <2>1, <2>4, <3>2, WriteRows, Zenon DEF Same
      <4>2. job[h].value.status = "materialized"
        BY <2>1, <3>1, <3>2, <4>1, Zenon DEF CalmInv, StatusInv
      <4> QED BY <2>4, <3>2, <4>2, WriteRows, Zenon
    <3>3. CASE job[h].id # i
      BY <2>1, <2>4, <3>3, WriteRows, Zenon
    <3> QED BY <3>2, <3>3, Zenon
  <2>5. ASSUME NEW h \in Handlers, Request(h) \/ Continue(h) PROVE rows'[i].status = "materialized"
    BY <2>3, <2>4, <2>5, RequestSteps, ContinueSteps, Zenon DEF Stores, Pauses, Rests, Plain
  <2> QED BY <2>2, <2>5, Zenon DEF Next
<1>2. Spec => [][Keeps]_vars
  BY <1>1, Invariant, CalmInvariant, PTL DEF Spec
<1> QED BY <1>2, Zenon DEF MaterializationKept

-----------------------------------------------------------------------------
(* Registry and Docker *)

\* The container of name n runs a version that the table t has as serving.
Agree(t, d, n) ==
  /\ d # Absent =>
       /\ d.running = TRUE /\ IsModel(t, n, d.model)
       /\ t[d.model].deployment = "serving" /\ t[d.model].endpoint = "http"
  /\ \A i \in Ids :
       IsModel(t, n, i) /\ t[i].deployment = "serving" /\ (\A j \in Ids : IsModel(t, n, j) => j = i)
       => d # Absent /\ d.model = i

\* How far a deployment is, seen from Docker; between deployments all agrees.
Phase(h, n, j, t, d) ==
  IF Named(j, DockerAts)
  THEN /\ IsModel(t, n, j.id)
       /\ j.at = "Create" => d = Absent
       /\ j.at = "Start" => d = [model |-> j.id, by |-> h, running |-> FALSE]
       /\ j.at = "Serving" => d # Absent /\ d.model = j.id /\ d.running = TRUE
       /\ j.at # "Failed"
       /\ j.at = "DeleteDeployment" => t[j.id].deployment # "serving"
  ELSE Agree(t, d, n)

\* The same of a job that may be about to write: once it has written.
Standing(h, n, j, t, d) ==
  IF Named(j, {"Write"}) THEN Phase(h, n, j.then, [t EXCEPT ![j.id] = j.value], d) ELSE Phase(h, n, j, t, d)

\* Of a name whose requests did not overlap or fail.
Matched(n) ==
  /\ ~AtWork(n) => Agree(rows, docker[n], n)
  /\ \A h \in Handlers : ~Idle(h) /\ job[h].name = n => Standing(h, n, job[h], rows, docker[n])

DockerInv == docker = [n \in Names |-> docker[n]] /\ \A n \in Names \ disturbed : Matched(n)

\* Two tables with the same models of a name.
SameModels(t, u, n) == \A i \in Ids : IsModel(t, n, i) \/ IsModel(u, n, i) => u[i] = t[i]

\* Where the requests for a name that do not overlap or fail have got it.
THEOREM DockerInvariant == Spec => []DockerInv
\* All depends on the models of the name only.
<1>PhaseFrame.
  ASSUME NEW t, NEW u, NEW n, SameModels(t, u, n), NEW d, NEW h, NEW j, Phase(h, n, j, t, d)
  PROVE  Phase(h, n, j, u, d)
  <2> USE <1>PhaseFrame
  <2>1. ASSUME Agree(t, d, n) PROVE Agree(u, d, n)
    BY <2>1 DEF SameModels, Agree, IsModel
  <2>2. CASE Named(j, DockerAts)
    BY <2>2, ZenonT(30) DEF SameModels, Phase, IsModel
  <2>3. CASE ~Named(j, DockerAts)
    BY <2>1, <2>3, Zenon DEF Phase
  <2> QED BY <2>2, <2>3, Zenon
\* That of a job about to write as well.
<1>StandingFrame.
  ASSUME NEW t, NEW u, NEW n, SameModels(t, u, n), Table(t), Table(u), NEW d, NEW h, NEW j, Writing(j, t),
         Standing(h, n, j, t, d)
  PROVE  Standing(h, n, j, u, d)
  <2> USE <1>StandingFrame
  <2>1. CASE Named(j, {"Write"})
    <3>1. PICK i, v, step, t1, u1 :
            /\ i = j.id /\ v = j.value /\ step = j.then
            /\ t1 = [t EXCEPT ![j.id] = j.value] /\ u1 = [u EXCEPT ![j.id] = j.value]
      BY Zenon
    <3>2. i \in Ids
      BY <2>1, <3>1, Zenon DEF Writing
    <3>3. t1[i] = v /\ u1[i] = v /\ \A k \in Ids \ {i} : t1[k] = t[k] /\ u1[k] = u[k]
      BY <3>1, <3>2, Zenon DEF Table
    <3>4. SameModels(t1, u1, n)
      BY <3>3, Zenon DEF SameModels, IsModel
    <3>5. Phase(h, n, step, t1, d)
      BY <2>1, <3>1, Zenon DEF Standing
    <3>6. Phase(h, n, step, u1, d)
      BY <3>4, <3>5, <1>PhaseFrame, Zenon
    <3> QED BY <2>1, <3>1, <3>6, Zenon DEF Standing
  <2>2. CASE ~Named(j, {"Write"})
    BY <2>2, <1>PhaseFrame, Zenon DEF Standing
  <2> QED BY <2>1, <2>2, Zenon
\* A step for a name m leaves the other names as they are.
<1>OtherNames.
  ASSUME IInv, IInv', DockerInv, NEW h \in Handlers, NEW m, NEW j, Moves(h, m, j),
         NEW n \in Names \ disturbed', n # m, docker'[n] = docker[n], SameModels(rows, rows', n)
  PROVE  Matched(n)'
  <2> USE <1>OtherNames
  <2>1. n \notin disturbed
    BY DisturbedGrows, Zenon
  <2>2. job'[h] = j /\ (\A g \in Handlers \ {h} : job'[g] = job[g]) /\ (Idle(h) \/ job[h].name = m) /\ (j = Absent \/ j.name = m)
    BY Zenon DEF Moves, Goto, IInv, JobsInv
  <2>3. AtWork(n)' <=> AtWork(n)
    BY <2>2, Zenon DEF AtWork, Idle
  <2>4. Matched(n)
    BY <2>1, Zenon DEF DockerInv
  <2>5. Table(rows) /\ Table(rows')
    BY Zenon DEF IInv
  <2>6. ASSUME ~AtWork(n)' PROVE Agree(rows', docker'[n], n)
    <3>1. Phase(h, n, Absent, rows, docker[n])
      BY <2>3, <2>4, <2>6, NoJob, ZenonT(30) DEF Matched, Phase
    <3>2. Phase(h, n, Absent, rows', docker[n])
      BY <3>1, <1>PhaseFrame, ZenonT(30)
    <3> QED BY <3>2, NoJob, ZenonT(30) DEF Phase
  <2>7. ASSUME NEW g \in Handlers, job'[g] # Absent, job'[g].name = n PROVE Standing(g, n, job'[g], rows', docker'[n])
    <3>1. PICK k : k = job'[g]
      BY Zenon
    <3>2. job[g] = k /\ ~Idle(g)
      BY <2>2, <2>7, <3>1, ZenonT(30) DEF Idle
    <3>3. Standing(g, n, k, rows, docker[n]) /\ Writing(k, rows)
      BY <2>4, <2>7, <3>1, <3>2 DEF Matched, IInv, JobsInv, JobInv
    <3>4. Standing(g, n, k, rows', docker[n])
      BY <2>5, <3>3, <1>StandingFrame, Zenon
    <3> QED BY <3>1, <3>4, Zenon
  <2> QED BY <2>6, <2>7, Zenon DEF Matched, Idle
\* Where the name of the step stands before it, when nothing overlaps with it.
<1>Before.
  ASSUME IInv, DockerInv, NEW h \in Handlers, NEW n, NEW j, Moves(h, n, j), n \notin disturbed'
  PROVE  Standing(h, n, job[h], rows, docker[n])
  <2> USE <1>Before
  <2>1. n \in Names \ disturbed /\ (Idle(h) \/ job[h].name = n) /\ \A g \in Handlers \ {h} : Idle(g) \/ job[g].name # n
    BY DisturbedGrows, Zenon DEF Moves
  <2>2. Matched(n)
    BY <2>1, Zenon DEF DockerInv
  <2>3. CASE Idle(h)
    <3>1. Agree(rows, docker[n], n)
      BY <2>1, <2>2, <2>3, ZenonT(30) DEF Matched, AtWork
    <3> QED BY <2>3, <3>1, NoJob, ZenonT(30) DEF Standing, Phase, Idle
  <2>4. CASE ~Idle(h)
    BY <2>1, <2>2, <2>4, Zenon DEF Matched
  <2> QED BY <2>3, <2>4, Zenon
\* It is enough to see where it stands after it.
<1>After.
  ASSUME IInv, NEW h \in Handlers, NEW n, NEW j, Moves(h, n, j), n \notin disturbed',
         Standing(h, n, j, rows', docker'[n])
  PROVE  Matched(n)'
  <2> USE <1>After
  <2>1. (j = Absent \/ j.name = n) /\ \A g \in Handlers \ {h} : Idle(g) \/ job[g].name # n
    BY DisturbedGrows, Zenon DEF Moves
  <2>2. job'[h] = j /\ \A g \in Handlers \ {h} : job'[g] = job[g]
    BY Zenon DEF Moves, Goto, IInv, JobsInv
  <2>3. ASSUME ~AtWork(n)' PROVE Agree(rows', docker'[n], n)
    <3>1. j = Absent
      BY <2>1, <2>2, <2>3, Zenon DEF AtWork, Idle
    <3>2. Standing(h, n, Absent, rows', docker'[n])
      BY <3>1, Zenon
    <3> QED BY <3>2, NoJob, ZenonT(30) DEF Standing, Phase
  <2>4. ASSUME NEW g \in Handlers, job'[g] # Absent, job'[g].name = n PROVE Standing(g, n, job'[g], rows', docker'[n])
    <3>1. g = h
      BY <2>1, <2>2, <2>4, Zenon DEF Idle
    <3> QED BY <2>2, <3>1, Zenon
  <2> QED BY <2>3, <2>4, Zenon DEF Matched, Idle
\* Together.
<1>MovesMatch.
  ASSUME IInv, IInv', DockerInv, NEW h \in Handlers, NEW m, NEW j, Moves(h, m, j),
         docker' = [n \in Names |-> docker'[n]], \A n \in Names \ {m} : docker'[n] = docker[n] /\ SameModels(rows, rows', n),
         m \notin disturbed' /\ Standing(h, m, job[h], rows, docker[m]) => Standing(h, m, j, rows', docker'[m])
  PROVE  DockerInv'
  <2> USE <1>MovesMatch
  <2>1. ASSUME NEW n \in Names \ disturbed' PROVE Matched(n)'
    <3>1. CASE n = m
      BY <2>1, <3>1, <1>Before, <1>After, Zenon
    <3>2. CASE n # m
      BY <2>1, <3>2, <1>OtherNames
    <3> QED BY <3>1, <3>2, Zenon
  <2> QED BY <2>1, Zenon DEF DockerInv
\* One row gets another value.
<1>OneRow.
  ASSUME NEW t, NEW u, NEW i \in Ids, NEW value, u[i] = value, \A k \in Ids \ {i} : u[k] = t[k],
         t[i] # Absent => Same(t[i], value), NEW n, value.name # n
  PROVE  SameModels(t, u, n)
  BY <1>OneRow, Zenon DEF SameModels, IsModel, Same
\* Where a deployment stands once a method has given a model its value.
<1>SavePhase.
  ASSUME IInv, NEW h \in Handlers, NEW n, NEW i, NEW value, NEW step, Saved(h, n, i, value, step),
         NEW d, Standing(h, n, job[h], rows, d), NEW u, u = [rows EXCEPT ![i] = value]
  PROVE  Phase(h, n, step, u, d)
  <2> USE <1>SavePhase
  <2>1. /\ i \in Ids /\ value \in Row /\ value # Absent /\ value.name = n /\ (rows[i] # Absent => Same(rows[i], value))
        /\ Follows(step, i, value) /\ Deploys(h, i, value, step) /\ ~Named(job[h], {"Write"})
    BY RowName, Zenon DEF Saved, Named
  <2>2. u[i] = value /\ \A k \in Ids \ {i} : u[k] = rows[k]
    BY <2>1, ZenonT(30) DEF IInv, Table
  <2>3. Phase(h, n, job[h], rows, d)
    BY <2>1, ZenonT(30) DEF Standing
  <2>4. CASE Named(step, DockerAts)
    <3>1. \/ Servable(value) /\ step = [at |-> "Undeploy", name |-> value.name, id |-> i]
          \/ /\ value.kind = "model" /\ value.deployment = "rolled_back"
             /\ step = [at |-> "DeleteDeployment", name |-> value.name, id |-> i]
      BY <2>1, <2>4 DEF Follows, Named, DockerAts, ServingAts
    <3>2. step.id = i /\ value.kind = "model" /\ step.at \in {"Undeploy", "DeleteDeployment"}
          /\ (step.at = "DeleteDeployment" => value.deployment = "rolled_back")
      BY <3>1 DEF Servable
    <3> QED BY <2>1, <2>2, <2>4, <3>2, ZenonT(30) DEF Phase, IsModel
  <2>5. CASE ~Named(step, DockerAts)
    <3>1. SUFFICES Agree(u, d, n)
      BY <2>5, Zenon DEF Phase
    <3>2. ~Named(job[h], {"Failed"})
      BY <2>3, Zenon DEF Phase, Named, DockerAts, ServingAts
    <3>3. CASE Named(job[h], {"Serving"}) /\ job[h].id = i /\ value.kind = "model"
               /\ value.deployment = "serving" /\ value.endpoint = "http"
      <4>1. d # Absent /\ d.model = i /\ d.running = TRUE
        BY <2>3, <3>3, ZenonT(30) DEF Phase, Named, DockerAts, ServingAts
      <4>2. IsModel(u, n, i)
        BY <2>1, <2>2, <3>3, ZenonT(30) DEF IsModel
      <4>3. u[i].deployment = "serving" /\ u[i].endpoint = "http"
        BY <2>2, <3>3, Zenon
      <4>4. \A k \in Ids : (\A l \in Ids : IsModel(u, n, l) => l = k) => d.model = k
        BY <2>1, <4>1, <4>2, Zenon
      <4>5. /\ d.running = TRUE /\ IsModel(u, n, d.model)
            /\ u[d.model].deployment = "serving" /\ u[d.model].endpoint = "http"
        BY <4>1, <4>2, <4>3, Zenon
      <4> QED BY <4>1, <4>4, <4>5, Zenon DEF Agree
    <3>4. CASE /\ ~Named(job[h], DockerAts)
               /\ value.kind = "model" =>
                    IF rows[i] = Absent THEN value.deployment = "not_deployed"
                    ELSE value.deployment = rows[i].deployment /\ value.endpoint = rows[i].endpoint
      <4>1. Agree(rows, d, n)
        BY <2>3, <3>4, Zenon DEF Phase
      <4>2. \A k \in Ids : IsModel(rows, n, k) =>
              IsModel(u, n, k) /\ u[k].deployment = rows[k].deployment /\ u[k].endpoint = rows[k].endpoint
        BY <2>1, <2>2, <3>4, Zenon DEF IsModel, Same
      <4>3. \A k \in Ids : IsModel(u, n, k) /\ u[k].deployment = "serving" => IsModel(rows, n, k)
        BY <2>1, <2>2, <3>4, Zenon DEF IsModel, Same
      <4>4. d # Absent => d.model \in Ids
        BY <4>1, Zenon DEF Agree, IsModel
      <4>5. ASSUME d # Absent
            PROVE  /\ d.running = TRUE /\ IsModel(u, n, d.model)
                   /\ u[d.model].deployment = "serving" /\ u[d.model].endpoint = "http"
        <5>1. /\ d.running = TRUE /\ IsModel(rows, n, d.model) /\ d.model \in Ids
              /\ rows[d.model].deployment = "serving" /\ rows[d.model].endpoint = "http"
          BY <4>1, <4>4, <4>5, Zenon DEF Agree
        <5>2. /\ IsModel(u, n, d.model) /\ u[d.model].deployment = rows[d.model].deployment
              /\ u[d.model].endpoint = rows[d.model].endpoint
          BY <4>2, <5>1, Zenon
        <5> QED BY <5>1, <5>2, Zenon
      <4>6. ASSUME NEW k \in Ids, IsModel(u, n, k), u[k].deployment = "serving", \A l \in Ids : IsModel(u, n, l) => l = k
            PROVE  d # Absent /\ d.model = k
        <5>1. IsModel(rows, n, k) /\ rows[k].deployment = "serving" /\ \A l \in Ids : IsModel(rows, n, l) => l = k
          BY <4>2, <4>3, <4>6, Zenon
        <5> QED BY <4>1, <5>1, Zenon DEF Agree
      <4> QED BY <4>5, <4>6, Zenon DEF Agree
    <3> QED BY <2>1, <2>5, <3>2, <3>3, <3>4, Zenon DEF Deploys
  <2> QED BY <2>4, <2>5, Zenon
\* Saving a resource.
<1>SaveMatches.
  ASSUME IInv, IInv', DockerInv, NEW h \in Handlers, NEW n, NEW i, NEW value, NEW step, Saves(h, n, i, value, step),
         UNCHANGED docker
  PROVE  DockerInv'
  <2> USE <1>SaveMatches
  <2>1. /\ i \in Ids /\ value \in Row /\ value # Absent /\ value.name = n /\ (rows[i] # Absent => Same(rows[i], value))
        /\ Follows(step, i, value) /\ (Idle(h) \/ job[h].name = n) /\ Saved(h, n, i, value, step)
    BY SaveRows DEF Saves, Saved
  <2>2. n \in Names /\ (step # Absent => step.name = n) /\ ~Named(step, {"Write"})
    BY <2>1, RowName, FollowsWrite, Zenon
  <2>3. PICK u : u = [rows EXCEPT ![i] = value]
    BY Zenon
  <2>4. ASSUME Standing(h, n, job[h], rows, docker[n]) PROVE Phase(h, n, step, u, docker'[n])
    <3>1. PICK d : d = docker[n]
      BY Zenon
    <3>2. Phase(h, n, step, u, d)
      BY <2>1, <2>3, <2>4, <3>1, <1>SavePhase, Zenon
    <3>3. docker'[n] = d
      BY <3>1, Zenon
    <3> QED BY <3>2, <3>3, Zenon
  <2>5. docker' = [m \in Names |-> docker'[m]] /\ \A m \in Names : docker'[m] = docker[m]
    BY Zenon DEF DockerInv
  <2>6. CASE repository = "file"
    <3>1. rows' = u /\ \/ Calm(h, n) /\ Goto(h, step)
                       \/ Fault(n) /\ Goto(h, Absent)
      BY <2>3, <2>6, Zenon DEF Saves, Save
    <3>2. \A m \in Names \ {n} : SameModels(rows, rows', m)
      <4>1. rows'[i] = value /\ \A k \in Ids \ {i} : rows'[k] = rows[k]
        BY <2>6, SaveRows
      <4> QED BY <2>1, <4>1, <1>OneRow, Zenon
    <3>3. CASE Calm(h, n) /\ Goto(h, step)
      <4>1. Moves(h, n, step)
        BY <2>1, <2>2, <3>3, Zenon DEF Moves
      <4>2. Standing(h, n, job[h], rows, docker[n]) => Standing(h, n, step, rows', docker'[n])
        BY <2>2, <2>4, <3>1, Zenon DEF Standing
      <4> QED BY <2>5, <3>2, <4>1, <4>2, <1>MovesMatch, Zenon
    <3>4. CASE Fault(n) /\ Goto(h, Absent)
      <4>1. Moves(h, n, Absent) /\ n \in disturbed'
        BY <2>1, <2>2, <3>4, Zenon DEF Moves, Fault
      <4> QED BY <2>5, <3>2, <4>1, <1>MovesMatch, Zenon
    <3> QED BY <3>1, <3>3, <3>4, Zenon
  <2>7. CASE repository = "postgres"
    <3>1. PICK j : j = [at |-> "Write", name |-> n, id |-> i, value |-> value, then |-> step]
      BY Zenon
    <3>2. rows' = rows /\ Calm(h, n) /\ Goto(h, j)
      BY <2>7, <3>1, Zenon DEF Saves, Save
    <3>3. j.at = "Write" /\ j.name = n /\ j.id = i /\ j.value = value /\ j.then = step
      BY <3>1, Zenon
    <3>4. Moves(h, n, j)
      BY <2>1, <2>2, <3>2, <3>3, Zenon DEF Moves
    <3>5. \A m \in Names \ {n} : SameModels(rows, rows', m)
      BY <3>2, Zenon DEF SameModels
    <3>6. job'[h] = j
      BY <3>2, Zenon DEF Goto, IInv, JobsInv
    <3>7. j # Absent
      <4>1. j = Absent => ~Named(job'[h], {"Write"})
        BY <3>6, Zenon DEF Named
      <4>2. WriteStep = [at : {"Write"}, name : Names, id : Ids, value : Row,
                         then : {Absent} \cup DockerStep \cup [at : {"Put"}, name : Names, left : {Entities}]]
        BY Zenon DEF WriteStep
      <4>3. step \in {Absent} \cup DockerStep \cup [at : {"Put"}, name : Names, left : {Entities}]
        BY <2>1, RowName DEF Follows, DockerStep
      <4>4. j \in WriteStep
        BY <2>1, <2>2, <3>1, <4>2, <4>3, Zenon
      <4> QED BY <4>4, PlatformAssumption, Zenon
    <3>8. Standing(h, n, job[h], rows, docker[n]) => Standing(h, n, j, rows', docker'[n])
      BY <2>3, <2>4, <3>2, <3>3, <3>7, Zenon DEF Standing, Named
    <3> QED BY <2>5, <3>4, <3>5, <3>8, <1>MovesMatch, Zenon
  <2> QED BY <2>6, <2>7, Zenon DEF Saves, Save
\* The transaction: where the deployment stands was settled when the value was computed.
<1>WriteMatches.
  ASSUME IInv, IInv', DockerInv, NEW h \in Handlers, write(h), UNCHANGED docker
  PROVE  DockerInv'
  <2> USE <1>WriteMatches
  <2>1. PICK n, i, value, step : n = job[h].name /\ i = job[h].id /\ value = job[h].value /\ step = job[h].then
    BY Zenon
  <2>2. /\ Named(job[h], {"Write"}) /\ i \in Ids /\ value \in Row /\ value.name = n /\ n \in Names
        /\ (rows[i] # Absent => Same(rows[i], value)) /\ Follows(step, i, value)
        /\ \/ /\ rows'[i] = value /\ (\A k \in Ids \ {i} : rows'[k] = rows[k])
              /\ Goto(h, step) /\ Calm(h, n) /\ rows' = [rows EXCEPT ![i] = value]
           \/ rows' = rows /\ Goto(h, Absent) /\ Fault(n)
    BY <2>1, WriteRows, ZenonT(30)
  <2>3. (step # Absent => step.name = n) /\ ~Named(step, {"Write"})
    BY <2>2, FollowsWrite, Zenon
  <2>4. docker' = [m \in Names |-> docker'[m]] /\ \A m \in Names : docker'[m] = docker[m]
    BY Zenon DEF DockerInv
  <2>5. CASE rows' = rows /\ Goto(h, Absent) /\ Fault(n)
    <3>1. Moves(h, n, Absent) /\ n \in disturbed'
      BY <2>1, <2>2, <2>5, Zenon DEF Moves, Fault
    <3>2. \A m \in Names \ {n} : SameModels(rows, rows', m)
      BY <2>5, Zenon DEF SameModels
    <3> QED BY <2>4, <3>1, <3>2, <1>MovesMatch, Zenon
  <2>6. CASE /\ rows'[i] = value /\ (\A k \in Ids \ {i} : rows'[k] = rows[k])
             /\ Goto(h, step) /\ Calm(h, n) /\ rows' = [rows EXCEPT ![i] = value]
    <3>1. Moves(h, n, step)
      BY <2>1, <2>2, <2>3, <2>6, Zenon DEF Moves
    <3>2. \A m \in Names \ {n} : SameModels(rows, rows', m)
      BY <2>2, <2>6, <1>OneRow, Zenon
    <3>3. Standing(h, n, job[h], rows, docker[n]) => Standing(h, n, step, rows', docker'[n])
      BY <2>1, <2>2, <2>3, <2>4, <2>6, Zenon DEF Standing
    <3> QED BY <2>4, <3>1, <3>2, <3>3, <1>MovesMatch, Zenon
  <2> QED BY <2>2, <2>5, <2>6, Zenon
\* Steps without dealings with Docker.
<1>RestMatches.
  ASSUME IInv, IInv', DockerInv, NEW h \in Handlers, NEW n, NEW j, Rests(h, n, j)
  PROVE  DockerInv'
  <2> USE <1>RestMatches
  <2>1. /\ Moves(h, n, j) /\ rows' = rows /\ docker' = docker /\ n \in Names
        /\ ~Named(job[h], {"Write"}) /\ ~Named(j, {"Write"}) /\ ~Named(job[h], DockerAts) /\ ~Named(j, DockerAts)
    BY Zenon DEF Rests, Plain, Moves
  <2>2. Standing(h, n, job[h], rows, docker[n]) => Standing(h, n, j, rows', docker'[n])
    BY <2>1, Zenon DEF Standing, Phase
  <2>3. docker' = [m \in Names |-> docker'[m]] /\ \A m \in Names : docker'[m] = docker[m] /\ SameModels(rows, rows', m)
    BY <2>1, Zenon DEF DockerInv, SameModels
  <2> QED BY <2>1, <2>2, <2>3, <1>MovesMatch, Zenon
\* A call of the serving manager or of rollbackModel to Docker, that goes well or
\* is noticed.
<1>DockerCall.
  ASSUME IInv, IInv', DockerInv, NEW h \in Handlers, NEW n, n = job[h].name, NEW j, Plain(h, n, j),
         docker' \in {docker, With(h, docker'[n])},
         n \notin disturbed' /\ Phase(h, n, job[h], rows, docker[n]) => Phase(h, n, j, rows, docker'[n])
  PROVE  DockerInv'
  <2> USE <1>DockerCall
  <2>1. Moves(h, n, j) /\ rows' = rows /\ n \in Names /\ ~Named(job[h], {"Write"}) /\ ~Named(j, {"Write"})
    BY Zenon DEF Plain, Moves
  <2>2. docker' = [m \in Names |-> docker'[m]] /\ \A m \in Names \ {n} : docker'[m] = docker[m]
    BY <2>1, Zenon DEF DockerInv, With
  <2>3. n \notin disturbed' /\ Standing(h, n, job[h], rows, docker[n]) => Standing(h, n, j, rows', docker'[n])
    BY <2>1, ZenonT(30) DEF Standing
  <2>4. \A m \in Names : SameModels(rows, rows', m)
    BY <2>1, Zenon DEF SameModels
  <2> QED BY <2>1, <2>2, <2>3, <2>4, <1>MovesMatch, Zenon
\* Undeploy, Create and Start: the container follows the job.
<1>ServingMatches.
  ASSUME IInv, IInv', DockerInv, NEW h \in Handlers, requestServing(h)
  PROVE  DockerInv'
  <2> USE <1>ServingMatches
  <2>1. Named(job[h], ServingAts) /\ ~Named(job[h], {"Write"}) /\ Call(h) /\ ~Idle(h)
    BY Zenon DEF requestServing, Deploy, Undeploy, Create, Start, do, At, Idle, Named, ServingAts
  <2>2. PICK n, i : n = job[h].name /\ i = job[h].id
    BY Zenon
  <2>3. n \in Names /\ IsModel(rows, n, i)
    BY <2>1, <2>2, JobName, Zenon DEF IInv, JobsInv, JobInv, Named, DockerAts
  <2>4. docker = [m \in Names |-> docker[m]]
    BY Zenon DEF DockerInv
  <2>5. \A c : With(h, c)[n] = c
    BY <2>2, <2>3, <2>4, Zenon DEF With
  <2>6. ASSUME NEW at \in ServingAts, Goto(h, Then(h, at)), Calm(h, n) \/ Fault(n),
               NEW c, docker' = docker \/ docker' = With(h, c),
               n \notin disturbed' /\ Phase(h, n, job[h], rows, docker[n]) =>
                 /\ at = "Create" => docker'[n] = Absent
                 /\ at = "Start" => docker'[n] = [model |-> i, by |-> h, running |-> FALSE]
                 /\ at = "Serving" => docker'[n] # Absent /\ docker'[n].model = i /\ docker'[n].running = TRUE
                 /\ at # "Failed"
        PROVE  DockerInv'
    <3>1. PICK j : j = Then(h, at)
      BY Zenon
    <3>2. /\ JobInv(j, rows) /\ ~Named(j, {"Write", "ReadSession", "WriteSession"})
          /\ j # Absent /\ j.at = at /\ j.name = n /\ j.id = i
      BY <2>1, <2>2, <3>1, ServedOn, Zenon
    <3>3. Plain(h, n, j)
      BY <2>1, <2>2, <2>3, <2>6, <3>1, <3>2, CallPlain, Zenon
    <3>4. docker' \in {docker, With(h, docker'[n])}
      BY <2>5, <2>6, Zenon
    <3>5. Named(j, DockerAts) /\ at # "DeleteDeployment"
      BY <3>2, Zenon DEF Named, DockerAts, ServingAts
    <3>6. n \notin disturbed' /\ Phase(h, n, job[h], rows, docker[n]) => Phase(h, n, j, rows, docker'[n])
      BY <2>3, <2>6, <3>2, <3>5, Zenon DEF Phase
    <3> QED BY <2>2, <3>3, <3>4, <3>6, <1>DockerCall, Zenon
  <2>7. \A at : At(h, at) => job[h].at = at /\ Named(job[h], DockerAts)
    BY <2>1, Zenon DEF At, Named, DockerAts
  <2>8. Fault(n) => n \in disturbed'
    BY Zenon DEF Fault
  <2>9. "Create" \in ServingAts /\ "Start" \in ServingAts /\ "Serving" \in ServingAts /\ "Failed" \in ServingAts
    BY Zenon DEF ServingAts
  <2>10. CASE Undeploy(h)
    <3>1. /\ Goto(h, Then(h, "Create"))
          /\ \/ Calm(h, n) /\ docker' = With(h, Absent)
             \/ Fault(n) /\ docker' \in {docker, With(h, Absent)}
      BY <2>2, <2>10, Zenon DEF Undeploy, do
    <3>2. n \notin disturbed' => docker'[n] = Absent
      BY <2>5, <2>8, <3>1, Zenon
    <3> QED BY <2>6, <2>9, <3>1, <3>2, Zenon
  <2>11. CASE Create(h)
    <3>1. PICK c : c = [model |-> i, by |-> h, running |-> FALSE]
      BY Zenon
    <3>2. Phase(h, n, job[h], rows, docker[n]) => docker[n] = Absent
      <4>1. job[h].at = "Create" /\ Named(job[h], DockerAts)
        BY <2>7, <2>11, Zenon DEF Create
      <4> QED BY <4>1, Zenon DEF Phase
    <3>3. \/ docker[n] # Absent /\ (Calm(h, n) \/ Fault(n)) /\ docker' = docker /\ Goto(h, Then(h, "Failed"))
          \/ Calm(h, n) /\ docker' = With(h, c) /\ Goto(h, Then(h, "Start"))
          \/ Fault(n) /\ docker' \in {docker, With(h, c)} /\ Goto(h, Then(h, "Failed"))
          \/ Fault(n) /\ docker' = docker /\ Goto(h, Then(h, "Start"))
      BY <2>2, <2>11, <3>1, Zenon DEF Create, do, Container
    <3>4. docker' = With(h, c) => docker'[n] = c
      BY <2>5, Zenon
    <3>5. CASE docker[n] # Absent /\ (Calm(h, n) \/ Fault(n)) /\ docker' = docker /\ Goto(h, Then(h, "Failed"))
      BY <2>6, <2>9, <3>2, <3>5, Zenon
    <3>6. CASE Calm(h, n) /\ docker' = With(h, c) /\ Goto(h, Then(h, "Start"))
      BY <2>6, <2>9, <3>1, <3>4, <3>6, Zenon
    <3>7. CASE Fault(n) /\ docker' \in {docker, With(h, c)} /\ (Goto(h, Then(h, "Failed")) \/ Goto(h, Then(h, "Start")))
      BY <2>6, <2>8, <2>9, <3>7, Zenon
    <3> QED BY <3>3, <3>5, <3>6, <3>7, Zenon
  <2>12. CASE Start(h)
    <3>1. PICK c, e : c = docker[n] /\ e = [c EXCEPT !.running = TRUE]
      BY Zenon
    <3>2. Phase(h, n, job[h], rows, docker[n]) => c = [model |-> i, by |-> h, running |-> FALSE]
      BY <2>2, <2>7, <2>12, <3>1, Zenon DEF Start, Phase
    <3>3. c = [model |-> i, by |-> h, running |-> FALSE] =>
            c # Absent /\ c.by = h /\ e # Absent /\ e.model = i /\ e.running = TRUE
      <4> SUFFICES ASSUME c = [model |-> i, by |-> h, running |-> FALSE]
                   PROVE  c # Absent /\ c.by = h /\ e # Absent /\ e.model = i /\ e.running = TRUE
        BY Zenon
      <4>1. i \in Ids
        BY <2>3, Zenon DEF IsModel
      <4>2. c \in Unit
        BY <4>1, Zenon DEF Unit
      <4>3. e \in Unit
        BY <3>1, <4>2, Zenon DEF Unit
      <4>4. c.by = h /\ c.model = i
        BY Zenon
      <4>5. e.running = TRUE /\ e.model = c.model
        BY <3>1, <4>2, Zenon DEF Unit
      <4> QED BY <4>2, <4>3, <4>4, <4>5, PlatformAssumption, Zenon
    <3>4. Started(h) = IF c # Absent /\ c.by = h THEN With(h, e) ELSE docker
      BY <2>2, <3>1, Zenon DEF Started, Container
    <3>5. \/ Calm(h, n) /\ docker' = Started(h) /\ Goto(h, Then(h, "Serving"))
          \/ Fault(n) /\ docker' \in {docker, Started(h)} /\ Goto(h, Then(h, "Failed"))
      BY <2>2, <2>12, Zenon DEF Start, do
    <3>6. docker' = docker \/ docker' = With(h, e)
      BY <3>4, <3>5, Zenon
    <3>7. CASE Calm(h, n) /\ docker' = Started(h) /\ Goto(h, Then(h, "Serving"))
      <4>1. Phase(h, n, job[h], rows, docker[n]) => docker'[n] # Absent /\ docker'[n].model = i /\ docker'[n].running = TRUE
        BY <2>5, <3>2, <3>3, <3>4, <3>7, Zenon
      <4> QED BY <2>6, <2>9, <3>6, <3>7, <4>1, Zenon
    <3>8. CASE Fault(n) /\ docker' \in {docker, Started(h)} /\ Goto(h, Then(h, "Failed"))
      BY <2>6, <2>8, <2>9, <3>6, <3>8, Zenon
    <3> QED BY <3>5, <3>7, <3>8, Zenon
  <2>13. CASE Fault(n) /\ Goto(h, Then(h, "Failed")) /\ docker' \in {docker, With(h, Absent)}
    BY <2>6, <2>8, <2>9, <2>13, Zenon
  <2> QED BY <2>2, <2>10, <2>11, <2>12, <2>13, Zenon DEF requestServing, Deploy
\* The container of a model that was rolled back goes away, whichever version it runs.
<1>DeleteMatches.
  ASSUME IInv, IInv', DockerInv, NEW h \in Handlers, DeleteDeployment(h)
  PROVE  DockerInv'
  <2> USE <1>DeleteMatches
  <2>1. PICK n, i : n = job[h].name /\ i = job[h].id
    BY Zenon
  <2>2. /\ At(h, "DeleteDeployment") /\ Call(h) /\ Goto(h, Absent)
        /\ \/ Calm(h, n) /\ docker' = With(h, Absent)
           \/ Fault(n) /\ docker' \in {docker, With(h, Absent)}
    BY <2>1, Zenon DEF DeleteDeployment, do
  <2>3. ~Idle(h) /\ job[h].at = "DeleteDeployment" /\ Named(job[h], DockerAts) /\ ~Named(job[h], {"Write"})
    BY <2>2, Zenon DEF At, Idle, Named, DockerAts
  <2>4. n \in Names
    BY <2>1, <2>3, JobName, Zenon
  <2>5. Plain(h, n, Absent)
    BY <2>1, <2>2, <2>3, <2>4, NoJob, CallPlain, Zenon
  <2>6. With(h, Absent)[n] = Absent
    BY <2>1, <2>4, Zenon DEF With, DockerInv
  <2>7. docker' \in {docker, With(h, docker'[n])} /\ (n \notin disturbed' => docker'[n] = Absent)
    BY <2>2, <2>6, Zenon DEF Fault
  <2>8. ASSUME Phase(h, n, job[h], rows, docker[n]) PROVE Phase(h, n, Absent, rows, Absent)
    <3>1. IsModel(rows, n, i) /\ rows[i].deployment # "serving"
      BY <2>1, <2>3, <2>8, ZenonT(30) DEF Phase
    <3>2. Agree(rows, Absent, n)
      BY <3>1, Zenon DEF Agree, IsModel
    <3> QED BY <3>2, NoJob, Zenon DEF Phase
  <2> QED BY <2>1, <2>5, <2>7, <2>8, <1>DockerCall, ZenonT(30)
\* After a restart the registry has, of names whose requests did not fail, what it had.
<1>RestartMatches.
  ASSUME IInv, IInv', CalmInv, DockerInv, restart, UNCHANGED docker
  PROVE  DockerInv'
  <2> USE <1>RestartMatches
  <2>1. /\ disturbed \subseteq disturbed' /\ (repository = "file" => rows' = disk.rows) /\ (repository # "file" => rows' = rows)
        /\ \A g \in Handlers : /\ Outside(g) => job'[g] = job[g]
                               /\ ~Outside(g) => job'[g] = Absent
    BY ZenonT(30) DEF restart
  <2>2. ASSUME NEW n \in Names \ disturbed' PROVE Matched(n)'
    <3>1. n \notin disturbed /\ Matched(n)
      BY <2>1, <2>2, Zenon DEF DockerInv
    <3>2. \A g \in Handlers : ~Idle(g) /\ job[g].name = n => Outside(g)
      BY <2>2, Zenon DEF restart
    <3>3. \A g \in Handlers : Outside(g) => ~Idle(g) /\ ~Named(job[g], {"Write"}) /\ ~Named(job[g], DockerAts)
      BY Zenon DEF Outside, Named, DockerAts, ServingAts
    <3>4. Agree(rows, docker[n], n)
      BY <3>1, <3>2, <3>3, Zenon DEF Matched, AtWork, Standing, Phase
    <3>5. SameModels(rows, rows', n)
      <4>1. CASE repository = "file"
        BY <2>1, <3>1, <4>1 DEF CalmInv, Behind, SameModels, IsModel, Same
      <4>2. CASE repository # "file"
        BY <2>1, <4>2, Zenon DEF SameModels
      <4> QED BY <4>1, <4>2, Zenon
    <3>6. Agree(rows', docker[n], n)
      <4>1. \A h : Phase(h, n, Absent, rows, docker[n])
        BY <3>4, NoJob, Zenon DEF Phase
      <4>2. \A h : Phase(h, n, Absent, rows', docker[n])
        BY <3>5, <4>1, <1>PhaseFrame, Zenon
      <4> QED BY <4>2, NoJob, Zenon DEF Phase
    <3>7. \A g \in Handlers : ~Named(job'[g], {"Write"}) /\ ~Named(job'[g], DockerAts)
      BY <2>1, <3>3, NoJob, Zenon
    <3>8. \A g \in Handlers : Standing(g, n, job'[g], rows', docker[n])
      BY <3>6, <3>7, Zenon DEF Standing, Phase
    <3>9. docker'[n] = docker[n]
      BY Zenon
    <3> QED BY <3>6, <3>8, <3>9, Zenon DEF Matched
  <2> QED BY <2>2, Zenon DEF DockerInv
<1>1. Init => DockerInv
  <2> SUFFICES ASSUME Init PROVE DockerInv
    BY Zenon
  <2>1. rows = [i \in Ids |-> Absent] /\ job = [h \in Handlers |-> Absent] /\ docker = [n \in Names |-> Absent]
    BY Zenon DEF Init, RepositoryInit, ModelsInit
  <2>2. \A n \in Names : Agree(rows, docker[n], n)
    BY <2>1, Zenon DEF Agree, IsModel
  <2> QED BY <2>1, <2>2, Zenon DEF DockerInv, Matched, Idle
<1>2. IInv /\ IInv' /\ CalmInv /\ DockerInv /\ [Next]_vars => DockerInv'
  <2> SUFFICES ASSUME IInv, IInv', CalmInv, DockerInv, [Next]_vars PROVE DockerInv'
    BY Zenon
  <2>1. CASE Restart
    BY <2>1, <1>RestartMatches, Zenon DEF Restart
  <2>2. CASE UNCHANGED vars
    BY <2>2, Zenon DEF vars, catalogVars, modelVars, storeVars, DockerInv, Matched, AtWork, Idle
  <2>3. ASSUME NEW h \in Handlers, Stores(h) \/ Pauses(h), UNCHANGED docker PROVE DockerInv'
    BY <2>3, <1>SaveMatches, <1>RestMatches, Zenon DEF Stores, Pauses
  <2>4. ASSUME NEW h \in Handlers, Request(h) PROVE DockerInv'
    BY <2>3, <2>4, RequestSteps, Zenon
  <2>5. ASSUME NEW h \in Handlers, Continue(h) PROVE DockerInv'
    BY <2>3, <2>5, ContinueSteps, <1>WriteMatches, <1>ServingMatches, <1>DeleteMatches, Zenon
  <2> QED BY <2>1, <2>2, <2>4, <2>5, Zenon DEF Next
<1> QED BY <1>1, <1>2, Invariant, CalmInvariant, PTL DEF Spec

\* When deployModel and rollbackModel are over, and none of a name's requests failed
\* or overlapped, its container runs a version that reads serving, and a single
\* version that reads serving has a container; in both repositories, with restarts
\* in between, and whatever happens to other names.
THEOREM RegistryMatchesDocker == Spec => []DeploymentsMatch
<1>1. IInv /\ DockerInv => DeploymentsMatch
  <2> SUFFICES ASSUME IInv, DockerInv, NEW n \in Names \ disturbed, ~AtWork(n)
               PROVE  /\ docker[n] # Absent =>
                           /\ docker[n].running
                           /\ rows[docker[n].model].deployment = "serving" /\ rows[docker[n].model].endpoint = "http"
                      /\ \A i \in Rows("model") :
                           /\ rows[i].name = n /\ rows[i].deployment = "serving"
                           /\ \A j \in Rows("model") : rows[j].name = n => j = i
                           => docker[n] # Absent /\ docker[n].model = i
    BY Zenon DEF DeploymentsMatch
  <2>1. Agree(rows, docker[n], n)
    BY Zenon DEF DockerInv, Matched
  <2>2. \A i : i \in Rows("model") /\ rows[i].name = n <=> IsModel(rows, n, i)
    BY Zenon DEF Rows, HasKind, IsModel
  <2>3. Rows("model") \subseteq Ids
    BY Zenon DEF Rows
  <2>4. ASSUME docker[n] # Absent
        PROVE  /\ docker[n].running
               /\ rows[docker[n].model].deployment = "serving" /\ rows[docker[n].model].endpoint = "http"
    BY <2>1, <2>4, Zenon DEF Agree
  <2>5. ASSUME NEW i \in Rows("model"), rows[i].name = n, rows[i].deployment = "serving",
               \A j \in Rows("model") : rows[j].name = n => j = i
        PROVE  docker[n] # Absent /\ docker[n].model = i
    <3>1. i \in Ids /\ IsModel(rows, n, i) /\ \A j \in Ids : IsModel(rows, n, j) => j = i
      BY <2>2, <2>3, <2>5, Zenon
    <3> QED BY <2>1, <2>5, <3>1, Zenon DEF Agree
  <2> QED BY <2>4, <2>5, Zenon
<1> QED BY <1>1, Invariant, DockerInvariant, PTL
=============================================================================
