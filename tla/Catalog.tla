------------------------------ MODULE Catalog -------------------------------
(***************************************************************************)
(* Tools, connections and feature views, with the materialization job and  *)
(* the online store behind the feature gateway.  The job applies a view,   *)
(* puts its entities one by one, writes a snapshot and reports how many    *)
(* there were; its steps follow those of its requests.  Views do not share *)
(* anything, so the job is modelled for one view at a time.                *)
(***************************************************************************)
EXTENDS Models

CONSTANTS Entities, Fields   \* of a view, and its possible definitions

VARIABLES
  online,  \* the entities of each view that the online store has
  lost     \* those whose write failed: Put drops the error

catalogVars == <<modelVars, online, lost>>

CatalogInit == online = [n \in Names |-> {}] /\ lost = [n \in Names |-> {}]

NoFeature == UNCHANGED <<docker, online, lost>>

NewTool(n, v) == [kind |-> "tool", name |-> n, version |-> v]

RegisterTool(h, i, n, v) ==
  ~Conflicts(NewTool(n, v)) /\ Add(h, i, NewTool(n, v)) /\ UNCHANGED <<online, lost>>

registerTool(h) == \E i \in Ids, n \in Names, v \in Versions : RegisterTool(h, i, n, v)

NewConnection(n) == [kind |-> "connection", name |-> n, version |-> "", status |-> "pending"]

\* Only the file store refuses a second connection of a name.
CreateConnection(h, i, n) ==
  /\ repository = "file" => ~Conflicts(NewConnection(n))
  /\ Add(h, i, NewConnection(n)) /\ UNCHANGED <<online, lost>>

createConnection(h) == \E i \in Ids, n \in Names : CreateConnection(h, i, n)

\* The connection is called, and its status stored in a later step.
testConnection(h) ==
  \E i \in Ids, status \in {"healthy", "unhealthy"} :
    /\ Idle(h) /\ HasKind(i, "connection")
    /\ Goto(h, [at |-> "UpdateConnectionStatus", name |-> rows[i].name, id |-> i, status |-> status])
    /\ Calm(h, rows[i].name) /\ Call(h) /\ NoFeature

Checked(row, status) == [row EXCEPT !.status = status]

UpdateConnectionStatus(h) ==
  /\ At(h, "UpdateConnectionStatus")
  /\ Save(h, job[h].name, job[h].id, Checked(rows[job[h].id], job[h].status), Absent)
  /\ NoFeature

-----------------------------------------------------------------------------
(* Feature views *)

\* The view that a search by name finds: the newest one.
Newest(n, i) == HasKind(i, "feature_view") /\ rows[i].name = n
                /\ \A j \in Ids : HasKind(j, "feature_view") /\ rows[j].name = n => j <= i

NewView(n, fields) ==
  [kind |-> "feature_view", name |-> n, version |-> "", fields |-> fields, status |-> "registered", count |-> 0]

Reapplied(row, fields) == [row EXCEPT !.fields = fields]

\* Mutant: a view that is applied again starts over.
ApplyFeatureViewAnew(h, n, fields, step) ==
  \E i \in Ids :
    /\ Newest(n, i) \/ (IsNew(i) /\ ~\E j \in Ids : Newest(n, j))
    /\ Save(h, n, i, NewView(n, fields), step) /\ NoFeature

ApplyFeatureView(h, n, fields, step) ==
  \E i \in Ids :
    /\ \/ Newest(n, i) /\ Save(h, n, i, Reapplied(rows[i], fields), step)
       \/ IsNew(i) /\ (~\E j \in Ids : Newest(n, j)) /\ Save(h, n, i, NewView(n, fields), step)
    /\ NoFeature

\* By a user, and by the job, which goes on with the entities.
applyFeatureView(h) ==
  \E n \in Names, fields \in Fields : Idle(h) /\ ApplyFeatureView(h, n, fields, Absent)

materialize(h) ==
  \E n \in Names, fields \in Fields :
    Idle(h) /\ ApplyFeatureView(h, n, fields, [at |-> "Put", name |-> n, left |-> Entities])

\* Mutant: the job does not wait for the last entity.
PutAllButOne(h) ==
  \E e \in Entities :
    /\ At(h, "Put") /\ e \in job[h].left /\ Call(h) /\ UNCHANGED docker
    /\ Goto(h, IF Cardinality(job[h].left) <= 2 THEN [at |-> "Snapshot", name |-> job[h].name]
               ELSE [job[h] EXCEPT !.left = @ \ {e}])
    /\ online' = [online EXCEPT ![job[h].name] = @ \cup {e}]
    /\ Calm(h, job[h].name) /\ UNCHANGED lost

\* The feature gateway answers 204 whether or not Redis took the write; when the
\* gateway itself does not answer, the job stops.
Put(h) ==
  \E e \in Entities :
    /\ At(h, "Put") /\ e \in job[h].left /\ Call(h) /\ UNCHANGED docker
    /\ \/ /\ Goto(h, IF job[h].left = {e} THEN [at |-> "Snapshot", name |-> job[h].name]
                     ELSE [job[h] EXCEPT !.left = @ \ {e}])
          /\ \/ online' = [online EXCEPT ![job[h].name] = @ \cup {e}] /\ Calm(h, job[h].name) /\ UNCHANGED lost
             \/ lost' = [lost EXCEPT ![job[h].name] = @ \cup {e}] /\ Fault(job[h].name) /\ UNCHANGED online
       \/ Fault(job[h].name) /\ Goto(h, Absent) /\ UNCHANGED <<online, lost>>

\* The snapshot goes to object storage; a failure stops the job.
write_offline_snapshot(h) ==
  /\ At(h, "Snapshot") /\ Call(h) /\ NoFeature
  /\ \/ Calm(h, job[h].name) /\ Goto(h, [job[h] EXCEPT !.at = "Report"])
     \/ Fault(job[h].name) /\ Goto(h, Absent)

Materialized(row, count) == [row EXCEPT !.status = "materialized", !.count = count]

ReportMaterialization(h, n, count) ==
  \/ \E i \in Ids : Newest(n, i) /\ Save(h, n, i, Materialized(rows[i], count), Absent)
  \/ (~\E i \in Ids : Newest(n, i)) /\ Call(h) /\ Goto(h, Absent) /\ Calm(h, n)

reportMaterialization(h) ==
  At(h, "Report") /\ ReportMaterialization(h, job[h].name, Cardinality(Entities)) /\ NoFeature

CatalogRequest(h) ==
  registerTool(h) \/ createConnection(h) \/ testConnection(h) \/ applyFeatureView(h) \/ materialize(h)

CatalogStep(h) == UpdateConnectionStatus(h) \/ Put(h) \/ write_offline_snapshot(h) \/ reportMaterialization(h)
=============================================================================
