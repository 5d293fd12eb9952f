------------------------------- MODULE Outbox -------------------------------
(***************************************************************************)
(* The transactional outbox of the PostgreSQL repository, the relay of     *)
(* each gateway replica (OutboxWorker) and the Kafka topic of the          *)
(* commands.  Every write commits its resource, its audit row and its      *)
(* command in one transaction; a relay then reads the unpublished rows,    *)
(* publishes them and marks them one by one.  The row locks of             *)
(* PendingOutbox end with its statement, so relays may hold the same rows. *)
(* Records have no key, so any partition may take one; each partition is   *)
(* polled by one integration worker, whose offsets are committed           *)
(* automatically.  The audit topic, which nothing consumes, is left out.   *)
(***************************************************************************)
EXTENDS Naturals, Sequences

CONSTANTS
  Relays,      \* gateway replicas
  Partitions,  \* of the topic, each with its worker
  Mutations,   \* the writes that may happen: [service, verb, kind, payload]
  MaxRows,     \* bound on the commands written
  MaxFaults    \* bound on failed calls and restarts

ASSUME OutboxAssumption == MaxRows \in Nat

VARIABLES
  rows,        \* outbox_events in sequence order
  published,   \* rows whose published_at is set
  batch,       \* batch[g]: rows the running Flush of g has not dealt with, lowest first
  sent,        \* sent[g]: the first of batch[g] is published and not yet marked
  topic,       \* topic[p]: records that have not been polled
  todo,        \* todo[p]: records polled and not dispatched
  announced,   \* rows that have reached Kafka
  inOrder,     \* no command was overtaken or dropped so far
  faults

relayVars == <<rows, published, batch, sent, announced>>
outboxVars == <<relayVars, topic, todo, inOrder, faults>>

OutboxInit ==
  /\ rows = <<>> /\ published = {} /\ announced = {}
  /\ batch = [g \in Relays |-> {}] /\ sent = [g \in Relays |-> FALSE]
  /\ topic = [p \in Partitions |-> <<>>] /\ todo = topic
  /\ inOrder = TRUE /\ faults = 0

Fault == faults < MaxFaults /\ faults' = faults + 1

\* The topic of an action is that of its service; the others have no command.
topicForAction(m) ==
  IF m.service \in {"pipeline", "model", "agent", "tool", "connection", "access"}
  THEN m.service ELSE ""

\* The command that a committed transaction leaves in the outbox.
write(m) ==
  /\ Len(rows) < MaxRows
  /\ rows' = IF topicForAction(m) = "" THEN rows ELSE Append(rows, m)
  /\ UNCHANGED <<published, batch, sent, topic, todo, announced, inOrder, faults>>

\* Mutant: the relay continues behind the last row it published.
UnpublishedBehindLast == {i \in 1..Len(rows) : \A j \in published : j < i}

Unpublished == 1..Len(rows) \ published

First(b) == CHOOSE i \in b : \A j \in b : i <= j

Rest(b) == b \ {First(b)}

\* Two relays that hold rows at the same time publish them in any order.
PendingOutbox(g) ==
  /\ batch[g] = {} /\ Unpublished # {}
  /\ batch' = [batch EXCEPT ![g] = Unpublished]
  /\ inOrder' = (inOrder /\ \A h \in Relays : batch[h] = {})
  /\ UNCHANGED <<rows, published, sent, topic, todo, announced, faults>>

\* Records in different partitions are consumed in any order.
Produce(g, p) ==
  /\ topic' = [topic EXCEPT ![p] = Append(@, First(batch[g]))]
  /\ announced' = announced \cup {First(batch[g])}

Publish(g) ==
  /\ batch[g] # {} /\ ~sent[g]
  /\ \E p \in Partitions :
       /\ Produce(g, p)
       /\ inOrder' = (inOrder /\ \A q \in Partitions \ {p} : topic[q] \o todo[q] = <<>>)
  /\ sent' = [sent EXCEPT ![g] = TRUE]
  /\ UNCHANGED <<rows, published, batch, todo, faults>>

\* Mutant: a row that failed is marked as published.
MarkFailedAsPublished(g) ==
  /\ batch[g] # {} /\ ~sent[g] /\ Fault /\ inOrder' = FALSE
  /\ published' = published \cup {First(batch[g])}
  /\ batch' = [batch EXCEPT ![g] = Rest(@)]
  /\ UNCHANGED <<rows, sent, topic, todo, announced>>

\* An error of the call, before or after Kafka took the record: Flush goes on
\* with the next row.
MarkFailed(g) ==
  /\ batch[g] # {} /\ ~sent[g] /\ Fault /\ inOrder' = FALSE
  /\ UNCHANGED <<topic, announced>> \/ \E p \in Partitions : Produce(g, p)
  /\ batch' = [batch EXCEPT ![g] = Rest(@)]
  /\ UNCHANGED <<rows, published, sent, todo>>

MarkPublished(g) ==
  /\ sent[g]
  /\ published' = published \cup {First(batch[g])}
  /\ batch' = [batch EXCEPT ![g] = Rest(@)]
  /\ sent' = [sent EXCEPT ![g] = FALSE]
  /\ UNCHANGED <<rows, topic, todo, announced, inOrder, faults>>

\* Flush returns on an error of MarkPublished, and a gateway may restart: the
\* rest of the batch is left to a later Flush.
FlushStops(g) ==
  /\ batch[g] # {} /\ Fault /\ inOrder' = FALSE
  /\ batch' = [batch EXCEPT ![g] = {}]
  /\ sent' = [sent EXCEPT ![g] = FALSE]
  /\ UNCHANGED <<rows, published, topic, todo, announced>>

Flush(g) == PendingOutbox(g) \/ Publish(g) \/ MarkPublished(g)

Poll(p) ==
  /\ todo[p] = <<>> /\ topic[p] # <<>>
  /\ todo' = [todo EXCEPT ![p] = topic[p]]
  /\ topic' = [topic EXCEPT ![p] = <<>>]
  /\ UNCHANGED <<relayVars, inOrder, faults>>

\* A worker stops: what it had polled is polled again, unless its offsets were
\* committed.
WorkerStops(p) ==
  /\ todo[p] # <<>> /\ Fault /\ inOrder' = FALSE
  /\ todo' = [todo EXCEPT ![p] = <<>>]
  /\ topic' \in {topic, [topic EXCEPT ![p] = todo[p] \o @]}
  /\ UNCHANGED relayVars

-----------------------------------------------------------------------------
(* Properties *)

Log == INSTANCE EventLog WITH Capacity <- MaxRows, committed <- Len(rows)

\* Every command committed with its resource reaches Kafka, and none does that is
\* not committed, however the relays interleave, fail or restart: write and Flush
\* implement the event log.
AtLeastOnce == Log!Spec

\* A row that Flush has marked as published, and no relay reads again, has
\* reached Kafka.
MarkedIsAnnounced == published \subseteq announced
=============================================================================
