----------------------------- MODULE Repository -----------------------------
(***************************************************************************)
(* The repository as the handlers of the gateway use it.  A method of the  *)
(* file store changes the memory and then persists all of it, under one    *)
(* mutex: one step.  A method of the PostgreSQL store reads a row in one   *)
(* step and writes it back in another.  A handler is a chain of steps;     *)
(* job[h] is its next one.                                                 *)
(***************************************************************************)
EXTENDS Integers, FiniteSets, FiniteSetsExt

CONSTANTS
  Handlers,   \* requests served at the same time
  Ids,        \* ids of resources, numbers in the order they are made
  Names,      \* names of resources
  Sessions,   \* session ids, chosen by clients
  MaxFaults,  \* bound on failed calls
  Absent

VARIABLES
  repository,  \* "file" or "postgres"
  rows,        \* rows[i]: the resource with id i, or Absent
  sessions,    \* sessions[a, s]: [turns, tokens] of session s of agent a, or Absent
  traces,      \* traces[a, s]: how many traces of it are stored
  disk,        \* the file behind the file store
  acked,       \* ids of resources whose creation was acknowledged
  job,         \* job[h]: the next step of handler h, or Absent
  disturbed,   \* names with overlapping requests, a failed call or a restart in one
  faults

storeVars == <<repository, rows, sessions, traces, disk, acked, job, disturbed, faults>>

SessionKeys == Ids \X Sessions

Snapshot == [rows |-> rows, sessions |-> sessions, traces |-> traces]

RepositoryInit ==
  /\ repository \in {"file", "postgres"}
  /\ rows = [i \in Ids |-> Absent]
  /\ sessions = [k \in SessionKeys |-> Absent] /\ traces = [k \in SessionKeys |-> 0]
  /\ disk = Snapshot /\ acked = {}
  /\ job = [h \in Handlers |-> Absent] /\ disturbed = {} /\ faults = 0

Idle(h) == job[h] = Absent

At(h, at) == ~Idle(h) /\ job[h].at = at

Goto(h, step) == job' = [job EXCEPT ![h] = step]

\* A step of h on name n that goes well.
Calm(h, n) ==
  /\ disturbed' = disturbed \cup {m \in {n} : \E g \in Handlers \ {h} : ~Idle(g) /\ job[g].name = m}
  /\ UNCHANGED faults

\* A call that fails.
Fault(n) ==
  /\ faults < MaxFaults /\ faults' = faults + 1
  /\ disturbed' = disturbed \cup {n}

HasKind(i, kind) == rows[i] # Absent /\ rows[i].kind = kind

\* The id of the next resource: ids are drawn from the clock, so any unused one will do.
Unused == {i \in Ids : rows[i] = Absent /\ \A h \in Handlers : ~At(h, "Write") \/ job[h].id # i}

IsNew(i) == i \in Unused /\ \A j \in Unused : i <= j

-----------------------------------------------------------------------------
\* The file is replaced by rename: it holds all of the change or none of it.
persist == disk' = Snapshot'

\* Mutant: the error of persist is dropped.
SaveUnchecked(h, n, i, value, step) ==
  \/ /\ repository = "file"
     /\ rows' = [rows EXCEPT ![i] = value] /\ acked' = acked \cup {i} /\ Goto(h, step)
     /\ UNCHANGED <<repository, sessions, traces>>
     /\ \/ Calm(h, n) /\ persist
        \/ Fault(n) /\ UNCHANGED disk
  \/ /\ repository = "postgres" /\ Calm(h, n)
     /\ Goto(h, [at |-> "Write", name |-> n, id |-> i, value |-> value, then |-> step])
     /\ UNCHANGED <<repository, rows, sessions, traces, disk, acked>>

\* A method gives resource i a value, and the handler goes on with a step.  When
\* the file cannot be written the memory is changed all the same, and the handler
\* returns an error.
Save(h, n, i, value, step) ==
  \/ /\ repository = "file"
     /\ rows' = [rows EXCEPT ![i] = value]
     /\ UNCHANGED <<repository, sessions, traces>>
     /\ \/ Calm(h, n) /\ persist /\ acked' = acked \cup {i} /\ Goto(h, step)
        \/ Fault(n) /\ Goto(h, Absent) /\ UNCHANGED <<disk, acked>>
  \/ /\ repository = "postgres" /\ Calm(h, n)
     /\ Goto(h, [at |-> "Write", name |-> n, id |-> i, value |-> value, then |-> step])
     /\ UNCHANGED <<repository, rows, sessions, traces, disk, acked>>

\* PostgreSQL: the transaction commits or the handler returns an error.
write(h) ==
  /\ At(h, "Write")
  /\ \/ /\ rows' = [rows EXCEPT ![job[h].id] = job[h].value]
        /\ acked' = acked \cup {job[h].id}
        /\ Calm(h, job[h].name) /\ Goto(h, job[h].then)
     \/ Fault(job[h].name) /\ Goto(h, Absent) /\ UNCHANGED <<rows, acked>>
  /\ UNCHANGED <<repository, sessions, traces, disk>>

\* Steps of other processes, between two requests to the gateway.
Outside(h) == ~Idle(h) /\ job[h].at \in {"Put", "Snapshot", "Report", "Turn", "RecordTrace"}

\* The gateway restarts: requests are lost, and the file store loads its file.
restart ==
  /\ IF repository = "file" THEN rows' = disk.rows /\ sessions' = disk.sessions /\ traces' = disk.traces
      ELSE UNCHANGED <<rows, sessions, traces>>
  /\ job' = [h \in Handlers |-> IF Outside(h) THEN job[h] ELSE Absent]
  /\ disturbed' = disturbed \cup {job[h].name : h \in {g \in Handlers : ~Idle(g) /\ ~Outside(g)}}
  /\ UNCHANGED <<repository, disk, acked, faults>>
=============================================================================
